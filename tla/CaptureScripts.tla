--------------------------- MODULE CaptureScripts ---------------------------
(***************************************************************************)
(* The capture scripts of tools/ml: capture_real.py and capture_noise.py   *)
(* ask the SDR controller over AMQP for one wideband task after another    *)
(* and cut the streamed samples into windows; capture_rtl.py reads a local *)
(* RTL-SDR through a subprocess.                                           *)
(*                                                                         *)
(* A session has two threads: the main thread below, which waits with      *)
(* timeouts, and the proton reactor, which sends what was handed to it and *)
(* looks an answer up in _pending before it appends to its box. Requests   *)
(* and stops leave the process only when the reactor flushes them; close() *)
(* stops the reactor whether it has or not.                                *)
(*                                                                         *)
(* capture_real.py is answered at a dynamic address of its own;            *)
(* capture_noise.py reads the shared response queue, where another client  *)
(* of the controller waits for its answers as well. The controller and     *)
(* that client are external. Time is abstract: a timeout may strike        *)
(* whenever the answer is not there.                                       *)
(***************************************************************************)
EXTENDS Integers, Sequences, FiniteSets

CONSTANTS
    TargetsOf,    \* by script: TARGETS, in order, as [label, max] (--filter-classes applied)
    LabelOrder,   \* the labels of TARGETS in alphabetical order, "_NOISE" among them
    MaxPerClass,  \* --max-per-class
    NWindows,     \* --n-windows
    PerTarget,    \* max(200, n_windows // len(NOISE_TARGETS))
    Lengths,      \* bound: the numbers of samples a capture may yield
    None

Labels == {LabelOrder[k] : k \in DOMAIN LabelOrder}
Scripts == {"real", "noise", "rtl"}

ASSUME TargetsListed ==
    /\ LabelOrder \in Seq(STRING)
    /\ TargetsOf \in [Scripts -> Seq([label : Labels, max : Nat])]
    /\ "_NOISE" \in Labels
ASSUME QuotasNatural ==
    /\ MaxPerClass \in Nat \ {0}
    /\ NWindows \in Nat
    /\ PerTarget \in Nat \ {0}
    /\ Lengths \subseteq Nat
\* An accepted answer is bare when it lacks what the script reads of it.
Statuses == {"accepted", "bare", "rejected"}
ASSUME NoneApart == None \notin Statuses

VARIABLES
    script,    \* which of the three programs runs
    pc,        \* the main thread
    i,         \* index into TARGETS; names the request and the task as well
    ready,     \* Session._ready
    pending,   \* Session._pending: the requests being waited for
    box,       \* the answer in the box of each request
    rx,        \* the answer on_message() is about to append: a target or None
    outbox,    \* handed to the sender, not yet written to the broker
    answers,   \* answers on their way to the script's reply address
    task,      \* the controller's tasks, by target
    gaveUp,    \* targets whose answer was not there when rpc() returned
    lost,      \* targets whose TASK_STOP never left the session
    raised,    \* targets in whose turn an exception ended the script
    socket,    \* the UDP socket of the current capture is bound
    labels,    \* label_names / buckets, in the order of the first windows
    counts,    \* class_counts; in capture_noise.py len(all_windows), under _NOISE
    rows,      \* all_X and all_y: [of, y], the windows of target `of` under index y
    file       \* the saved file: [classes, rows], or None

session == <<ready, pending, box, rx, outbox, answers>>
track == <<gaveUp, lost, raised>>
data == <<labels, counts, rows>>
vars == <<script, pc, i, session, task, track, socket, data, file>>

Targets == TargetsOf[script]
Indices == 1..Len(Targets)
Remote == script \in {"real", "noise"}
Ended == pc \in {"saved", "failed"}
ReactorRuns == Remote /\ ~Ended /\ pc # "closed"
Least(a, b) == IF a < b THEN a ELSE b

Init ==
    /\ script \in Scripts
    /\ pc = IF script = "rtl" THEN "next" ELSE "connect"
    /\ i = 1
    /\ ready = FALSE /\ pending = {} /\ rx = None
    /\ box = [t \in Indices |-> None]
    /\ outbox = <<>> /\ answers = {}
    /\ task = [t \in Indices |-> "none"]
    /\ gaveUp = {} /\ lost = {} /\ raised = {}
    /\ socket = FALSE
    /\ labels = <<>> /\ rows = {}
    /\ counts = [l \in Labels |-> 0]
    /\ file = None

----------------------------------------------------------------------------
\* The proton reactor.

\* on_link_opened() of the reply receiver; on_sendable() in capture_noise.py
Linked ==
    /\ ReactorRuns /\ ~ready
    /\ ready' = TRUE
    /\ UNCHANGED <<script, pc, i, pending, box, rx, outbox, answers, task, track, socket,
                   data, file>>

\* What send() handed over reaches the controller once the link has credit.
Flush ==
    /\ ReactorRuns /\ ready /\ outbox # <<>>
    /\ LET msg == Head(outbox) IN
         task' = [task EXCEPT ![msg.of] =
             IF msg.type = "request" THEN "requested"
             ELSE IF @ = "running" THEN "ended" ELSE @]
    /\ outbox' = Tail(outbox)
    /\ UNCHANGED <<script, pc, i, ready, pending, box, rx, answers, track, socket, data, file>>

\* on_message() finds the request under the lock ...
LookUp ==
    /\ ReactorRuns /\ rx = None
    /\ \E a \in answers :
         /\ rx' = IF a.of \in pending THEN a ELSE None
         /\ answers' = answers \ {a}
    /\ UNCHANGED <<script, pc, i, ready, pending, box, outbox, task, track, socket, data, file>>

\* Mutant: on_message() appends to the box of the request being waited for.
Append2BoxCurrent ==
    /\ ReactorRuns /\ rx # None
    /\ i \in Indices
    /\ box' = [box EXCEPT ![i] = rx.status]
    /\ rx' = None
    /\ UNCHANGED <<script, pc, i, ready, pending, outbox, answers, task, track, socket, data,
                   file>>

\* ... and appends to its box after it has released it.
Append2Box ==
    /\ ReactorRuns /\ rx # None
    /\ box' = [box EXCEPT ![rx.of] = rx.status]
    /\ rx' = None
    /\ UNCHANGED <<script, pc, i, ready, pending, outbox, answers, task, track, socket, data,
                   file>>

----------------------------------------------------------------------------
\* The controller and the other reader of the shared queue.

Decide ==
    /\ \E t \in Indices, status \in Statuses :
         /\ task[t] = "requested"
         /\ task' = [task EXCEPT ![t] = IF status = "rejected" THEN "ended" ELSE "running"]
         /\ answers' = answers \union {[of |-> t, status |-> status]}
    /\ UNCHANGED <<script, pc, i, ready, pending, box, rx, outbox, track, socket, data, file>>

\* A task ends by itself after its duration_ms.
Expire ==
    /\ \E t \in Indices :
         /\ task[t] = "running"
         /\ task' = [task EXCEPT ![t] = "ended"]
    /\ UNCHANGED <<script, pc, i, session, track, socket, data, file>>

\* Both read sdr.task.response: the broker hands an answer to either.
TakenByOther ==
    /\ script = "noise"
    /\ \E a \in answers : answers' = answers \ {a}
    /\ UNCHANGED <<script, pc, i, ready, pending, box, rx, outbox, task, track, socket, data,
                   file>>

----------------------------------------------------------------------------
\* The main thread.

\* Session.__init__ after 15 s: capture_noise.py ignores the timeout.
Connected ==
    /\ pc = "connect"
    /\ \/ /\ ready \/ script = "noise"
          /\ pc' = "next"
       \/ /\ ~ready /\ script = "real"
          /\ pc' = "failed"
    /\ UNCHANGED <<script, i, session, task, track, socket, data, file>>

\* The head of the loop over TARGETS.
Enough == script = "noise" /\ counts["_NOISE"] >= NWindows
ClassFull == script = "rtl" /\ counts[Targets[i].label] >= MaxPerClass

EndOfTargets ==
    /\ pc = "next"
    /\ i > Len(Targets) \/ Enough
    /\ pc' = "close"
    /\ UNCHANGED <<script, i, session, task, track, socket, data, file>>

\* Mutant: a full class is tried again.
SkipFullAgain ==
    /\ pc = "next" /\ i <= Len(Targets) /\ ClassFull
    /\ UNCHANGED vars

SkipFull ==
    /\ pc = "next" /\ i <= Len(Targets) /\ ClassFull
    /\ i' = i + 1
    /\ UNCHANGED <<script, pc, session, task, track, socket, data, file>>

\* The request is registered before it is handed over.
AskFor(t) ==
    /\ pending' = {t}
    /\ outbox' = Append(outbox, [type |-> "request", of |-> t])
    /\ pc' = "wait"

\* Mutant: the socket is bound after the answer, as capture_noise.py does.
RealAskUnbound ==
    /\ pc = "next" /\ i <= Len(Targets) /\ script = "real"
    /\ AskFor(i)
    /\ UNCHANGED <<script, i, ready, box, rx, answers, task, track, socket, data, file>>

\* Mutant: one target too many.
RealAskPastEnd ==
    /\ pc = "next" /\ i <= Len(Targets) + 1 /\ script = "real"
    /\ socket' = TRUE
    /\ AskFor(i)
    /\ UNCHANGED <<script, i, ready, box, rx, answers, task, track, data, file>>

\* request_capture() of capture_real.py binds its socket first.
RealAsk ==
    /\ pc = "next" /\ i <= Len(Targets) /\ script = "real"
    /\ socket' = TRUE
    /\ AskFor(i)
    /\ UNCHANGED <<script, i, ready, box, rx, answers, task, track, data, file>>

NoiseAsk ==
    /\ pc = "next" /\ i <= Len(Targets) /\ script = "noise" /\ ~Enough
    /\ AskFor(i)
    /\ UNCHANGED <<script, i, ready, box, rx, answers, task, track, socket, data, file>>

StopsIn(msgs) == {msgs[k].of : k \in {j \in 1..Len(msgs) : msgs[j].type = "stop"}}

\* An exception leaves main() before the TASK_STOP of the target is handed over,
\* and the daemon thread of the reactor ends with the script.
Raise ==
    /\ pc' = "failed"
    /\ raised' = raised \union {i}
    /\ lost' = lost \union StopsIn(outbox)
    /\ outbox' = <<>>
    /\ socket' = FALSE

\* rpc() returns: box[0] if the box is filled, else None after the timeout. Of
\* an accepted answer task_id is read, and streams[0] in capture_noise.py.
RpcReturns ==
    /\ pc = "wait"
    /\ pending' = {}
    /\ gaveUp' = IF box[i] = None THEN gaveUp \union {i} ELSE gaveUp
    /\ \/ /\ box[i] = "accepted"
          /\ pc' = "collect"
          /\ socket' = TRUE
          /\ UNCHANGED <<i, outbox, lost, raised>>
       \/ /\ box[i] \in {"rejected", None}
          /\ pc' = "next"
          /\ socket' = FALSE
          /\ i' = i + 1
          /\ UNCHANGED <<outbox, lost, raised>>
       \/ /\ box[i] = "bare"
          /\ Raise
          /\ UNCHANGED i
    /\ UNCHANGED <<script, ready, box, rx, answers, task, data, file>>

\* capture_noise.py cannot bind the port it was told, or in either script a
\* packet whose samples are not whole floats reaches np.frombuffer().
CollectRaises ==
    /\ pc = "collect"
    /\ Raise
    /\ UNCHANGED <<script, i, ready, pending, box, rx, answers, task, gaveUp, data, file>>

WINDOW == 1024
STRIDE == 256

\* range(0, n - WINDOW, STRIDE): extract_windows() and extract_noise_windows();
\* slice_windows() of capture_rtl.py goes one window further.
Starts(n) == {s \in 0..n : s % STRIDE = 0 /\ s < n - WINDOW}
RtlStarts(n) == {s \in 0..n : s % STRIDE = 0 /\ s < n - WINDOW + 1}

\* cap_max
RealQuota == Least(Targets[i].max, MaxPerClass)

\* need
NoiseQuota == Least(PerTarget, NWindows - counts["_NOISE"])

\* Mutant: the room of a class is not what is left of it.
RtlQuotaPerTarget == Least(Targets[i].max, MaxPerClass)

\* min(room, max_win)
RtlQuota == Least(Targets[i].max, MaxPerClass - counts[Targets[i].label])

\* Any subset of the windows may pass the filter; the quota cuts the rest off.
Kept(starts, quota) == 0..Least(Cardinality(starts), quota)

IndexIn(seq, l) == CHOOSE k \in 1..Len(seq) : seq[k] = l
InSeq(seq, l) == \E k \in 1..Len(seq) : seq[k] = l

\* label_map, all_y and class_counts; capture_noise.py counts windows only
Add(label, k) ==
    LET named == IF InSeq(labels, label) THEN labels ELSE Append(labels, label)
    IN  /\ labels' = named
        /\ rows' = rows \union {[of |-> i, y |-> IndexIn(named, label) - 1]}
        /\ counts' = [counts EXCEPT ![label] = @ + k]

\* The turn of the loop with k windows kept: none leaves everything as it was.
Harvest(label, k) == IF k = 0 THEN UNCHANGED data ELSE Add(label, k)

\* request_capture() returns no short capture; the noise target is measured.
RealHarvest(n) ==
    IF n < WINDOW \/ Targets[i].label = "_NOISE" THEN UNCHANGED data
    ELSE \E k \in Kept(Starts(n), RealQuota) : Harvest(Targets[i].label, k)

NoiseHarvest(n) ==
    IF n < WINDOW THEN UNCHANGED data
    ELSE \E k \in Kept(Starts(n), NoiseQuota) : Harvest("_NOISE", k)

RtlHarvest(n) ==
    \E k \in Kept(RtlStarts(n), RtlQuota) : Harvest(Targets[i].label, k)

\* _collect_iq_sock() and collect_iq() poll until their deadline, drop what is
\* no IQ packet, and close the socket whatever happens.
CollectIq == socket' = FALSE

\* Mutant: a short capture returns before its task is stopped.
RealCollectNoStop ==
    /\ pc = "collect" /\ script = "real"
    /\ CollectIq
    /\ \E n \in Lengths :
         /\ RealHarvest(n)
         /\ outbox' = IF n < WINDOW THEN outbox ELSE Append(outbox, [type |-> "stop", of |-> i])
    /\ i' = i + 1
    /\ pc' = "next"
    /\ UNCHANGED <<script, ready, pending, box, rx, answers, task, track, file>>

\* The rest of request_capture(), and the windows are cut.
RealCollect ==
    /\ pc = "collect" /\ script = "real"
    /\ CollectIq
    /\ outbox' = Append(outbox, [type |-> "stop", of |-> i])
    /\ \E n \in Lengths : RealHarvest(n)
    /\ i' = i + 1
    /\ pc' = "next"
    /\ UNCHANGED <<script, ready, pending, box, rx, answers, task, track, file>>

NoiseCollect ==
    /\ pc = "collect" /\ script = "noise"
    /\ CollectIq
    /\ outbox' = Append(outbox, [type |-> "stop", of |-> i])
    /\ \E n \in Lengths : NoiseHarvest(n)
    /\ i' = i + 1
    /\ pc' = "next"
    /\ UNCHANGED <<script, ready, pending, box, rx, answers, task, track, file>>

\* capture_target(): a failing or hanging rtl_sdr yields an empty array; a
\* missing one ends the script.
RtlCapture ==
    /\ pc = "next" /\ script = "rtl" /\ i <= Len(Targets) /\ ~ClassFull
    /\ \/ /\ \E n \in Lengths \union {0} : RtlHarvest(n)
          /\ i' = i + 1
          /\ UNCHANGED pc
       \/ /\ pc' = "failed"
          /\ UNCHANGED <<i, data>>
    /\ UNCHANGED <<script, session, task, track, socket, file>>

\* sess.close() stops the reactor: what it has not flushed is lost.
Close ==
    /\ pc = "close"
    /\ pc' = "closed"
    /\ lost' = lost \union StopsIn(outbox)
    /\ outbox' = <<>>
    /\ UNCHANGED <<script, i, ready, pending, box, rx, answers, task, gaveUp, raised, socket, data,
                   file>>

\* sorted(buckets.keys()): a bucket's place is the number of those up to it.
Buckets == {l \in Labels : InSeq(labels, l)}
Place(l) == Cardinality({m \in Buckets : IndexIn(LabelOrder, m) <= IndexIn(LabelOrder, l)})
SortedBuckets == [k \in 1..Cardinality(Buckets) |-> CHOOSE l \in Buckets : Place(l) = k]

\* capture_rtl.py numbers its buckets in sorted order.
Classes ==
    CASE script = "real"  -> labels
      [] script = "noise" -> <<>>
      [] script = "rtl"   -> SortedBuckets

\* Mutant: capture_rtl.py keeps the numbers of the order of capture.
RenumberedNot ==
    IF script = "noise" THEN {[of |-> r.of, y |-> None] : r \in rows} ELSE rows

Renumbered ==
    CASE script = "real"  -> rows
      [] script = "noise" -> {[of |-> r.of, y |-> None] : r \in rows}
      [] script = "rtl"   -> {[of |-> r.of, y |-> IndexIn(Classes, Targets[r.of].label) - 1] : r \in rows}

\* The only save is the last step: nothing captured is an error exit.
Save ==
    /\ pc = "closed"
    /\ IF rows = {} THEN pc' = "failed" /\ UNCHANGED file
       ELSE pc' = "saved" /\ file' = [classes |-> Classes, rows |-> Renumbered]
    /\ UNCHANGED <<script, i, session, task, track, socket, data>>

Reactor == Linked \/ Flush \/ LookUp \/ Append2Box
Controller == Decide \/ Expire \/ TakenByOther
Main ==
    \/ Connected \/ EndOfTargets \/ SkipFull \/ RealAsk \/ NoiseAsk \/ RpcReturns
    \/ CollectRaises \/ RealCollect \/ NoiseCollect \/ RtlCapture \/ Close \/ Save

Next == Main \/ Reactor \/ Controller

\* Every wait of the main thread has a timeout.
Spec == Init /\ [][Next]_vars /\ WF_vars(Main)

----------------------------------------------------------------------------
Messages == [type : {"request", "stop"}, of : Indices]
Answers == [of : Indices, status : Statuses]

\* The state of the session, the controller, the captured data and the file.
TypeOK ==
    /\ script \in Scripts
    /\ pc \in {"connect", "next", "wait", "collect", "close", "closed", "saved", "failed"}
    /\ i \in Nat \ {0}
    /\ pc \in {"wait", "collect"} => i \in Indices
    /\ ready \in BOOLEAN /\ socket \in BOOLEAN
    /\ pending \subseteq Indices /\ gaveUp \subseteq Indices /\ lost \subseteq Indices
    /\ raised \subseteq Indices
    /\ box \in [Indices -> Statuses \union {None}]
    /\ rx \in Answers \union {None}
    /\ outbox \in Seq(Messages)
    /\ answers \subseteq Answers
    /\ task \in [Indices -> {"none", "requested", "running", "ended"}]
    /\ counts \in [Labels -> Nat]

\* A task that still runs on the controller is the one being captured, or its
\* stop is on the way, or the script has lost it in one of three ways: its
\* answer had not arrived when rpc() gave up, its stop was still with the
\* reactor at the end, or an exception ended the script in its turn, which
\* happens at most once and saves nothing (capture_real.py 334-352 and
\* 427-441, capture_noise.py 148, 163 and 199-208).
TasksAccounted ==
    /\ \A t \in Indices : task[t] = "running" =>
        \/ t = i /\ pc \in {"wait", "collect"}
        \/ t \in gaveUp \union lost \union raised
        \/ \E k \in DOMAIN outbox : outbox[k] = [type |-> "stop", of |-> t]
    /\ raised # {} => pc = "failed" /\ raised = {i} /\ task[i] \in {"running", "ended"}

\* "the controller can stream to an already-listening socket" (capture_real.py
\* 393-396): the socket is bound while the controller may stream to it for the
\* current request, and no capture leaves it bound behind.
ListeningSocket ==
    /\ script = "real" /\ ~Ended /\ i \in Indices /\ task[i] \in {"requested", "running"} => socket
    /\ pc \notin {"wait", "collect"} => ~socket

\* No class of capture_rtl.py outgrows --max-per-class though several targets
\* feed it, and capture_noise.py never exceeds --n-windows.
QuotaKept ==
    /\ script = "rtl" => \A l \in Labels : counts[l] <= MaxPerClass
    /\ script = "noise" => counts["_NOISE"] <= NWindows

\* In the saved file every window carries the label of the target it was
\* captured at, no class is listed twice, and none is listed without windows.
LabelsNameTargets ==
    file # None /\ script # "noise" =>
        /\ \A r \in file.rows : /\ r.y \in 0..Len(file.classes) - 1
                                /\ file.classes[r.y + 1] = Targets[r.of].label
        /\ \A k, l \in DOMAIN file.classes : file.classes[k] = file.classes[l] => k = l
        /\ \A k \in DOMAIN file.classes : \E r \in file.rows : r.y = k - 1

\* Samples are collected only for a task the controller has accepted under
\* this very request, however late earlier answers arrive: an answer that finds
\* its request given up is dropped, or lands in a box nobody reads any more
\* (capture_real.py 298-308 and 334-343).
CollectsOwnTask ==
    /\ pc = "collect" => box[i] = "accepted"
    /\ \A t \in Indices : box[t] \in {"accepted", "bare"} => task[t] \in {"running", "ended"}

\* A script ends, saved or failed, whatever the controller answers.
Finishes == <>Ended

\* What the saved windows are: not more than the quota, under the label of
\* their target (capture_rtl.py 195-230, capture_noise.py 252-269).
WindowsSound == QuotaKept /\ LabelsNameTargets

\* A capture serves its own request, into a socket that is bound for it
\* (capture_real.py 298-343 and 387-442).
CaptureSound == TypeOK /\ CollectsOwnTask /\ ListeningSocket

=============================================================================
