------------------------- MODULE IqCollector_proofs -------------------------
(***************************************************************************)
(* Theorems about IqCollector for every number of workers, every set of    *)
(* sample rates and every bound.                                           *)
(***************************************************************************)
EXTENDS IqCollector, SequenceTheorems, TLAPS

-----------------------------------------------------------------------------
(* Type correctness. *)

LEMMA InitTypeOK == Init => TypeOK
<1> SUFFICES ASSUME Init PROVE TypeOK
  OBVIOUS
<1> USE DEF Init
<1>1. /\ workQueue \in Seq(Message) /\ wire \in Seq(Sent)
      /\ responses \subseteq Response /\ abandoned \subseteq Requests
  OBVIOUS
<1>2. /\ nextReq \in 1..(MaxRequests + 1) /\ drops \in 0..MaxDrops
      /\ lastSr \in Rates \cup {0}
      /\ pendingCorr \in Requests \cup {0}
  BY CollectorAssumption DEF CollectorAssumption
<1>3. /\ req \in [Workers -> Requests \cup {0}]
      /\ reply \in [Workers -> Response \cup {None}]
      /\ sockets \in [Workers -> SUBSET {"pre", "stream"}]
      /\ tasks \in [Requests -> {"none", "running", "ended"}]
  OBVIOUS
<1>4. \A w \in Workers : /\ (collectMu = w) <=> (pc[w] \in InCollect)
                         /\ (req[w] = 0) <=> (pc[w] = "idle")
                         /\ pc[w] \notin Streaming /\ reply[w] = None
  BY CollectorAssumption DEF CollectorAssumption, InCollect, Streaming, Unanswered
<1>. QED
  BY <1>1, <1>2, <1>3, <1>4 DEF TypeOK

\* The requests whose TASK_STOP is among the messages of a queue.
LEMMA StopsAreRequests ==
  ASSUME NEW msgs, NEW S, msgs \in Seq(S), \A m \in S : m.req \in Requests
  PROVE  Stops(msgs) \subseteq Requests
  BY DEF Stops, Range

LEMMA MessageReq == \A m \in Message : m.req \in Requests
  BY DEF Message

LEMMA ConnectionLostTypeOK ==
  ASSUME TypeOK, ConnectionLost
  PROVE  /\ link' = "down" /\ responses' = {}
         /\ wire' \in Seq(Sent)
         /\ abandoned' \subseteq Requests
<1>1. PICK n \in 0..Len(wire) :
        /\ wire' = [i \in 1..n |-> Unanswerable(wire[i])]
        /\ abandoned' = abandoned \cup Stops(SubSeq(wire, n + 1, Len(wire)))
                        \cup (IF constructed' = "destroyed" THEN Stops(workQueue) ELSE {})
  BY DEF ConnectionLost
<1>2. wire \in Seq(Sent) /\ workQueue \in Seq(Message) /\ abandoned \subseteq Requests
  BY DEF TypeOK
<1>3. ASSUME NEW i \in 1..n PROVE Unanswerable(wire[i]) \in Sent
  <2>1. wire[i] \in Sent
    BY <1>2
  <2>. QED
    BY <2>1 DEF Sent, Unanswerable
<1>4. wire' \in Seq(Sent)
  BY <1>1, <1>2, <1>3
<1>5. SubSeq(wire, n + 1, Len(wire)) \in Seq(Sent)
  BY <1>2
<1>6. Stops(SubSeq(wire, n + 1, Len(wire))) \subseteq Requests
  <2>1. \A m \in Sent : m.req \in Requests
    BY DEF Sent
  <2>. QED
    BY <1>5, <2>1, StopsAreRequests
<1>7. Stops(workQueue) \subseteq Requests
  BY <1>2, StopsAreRequests, MessageReq
<1>. QED
  BY <1>1, <1>2, <1>4, <1>6, <1>7 DEF ConnectionLost

LEMMA NextTypeOK == TypeOK /\ [Next]_vars => TypeOK'
<1> SUFFICES ASSUME TypeOK, [Next]_vars PROVE TypeOK'
  OBVIOUS
<1> USE CollectorAssumption DEF CollectorAssumption, calls, slot, channel, outside
<1>1. CASE CtorReturns
  BY <1>1 DEF CtorReturns, TypeOK
<1>2. CASE ConnectionOpen
  BY <1>2 DEF ConnectionOpen, TypeOK
<1>3. CASE ReceiverOpen
  BY <1>3 DEF ReceiverOpen, TypeOK
<1>4. CASE Destroy
  <2>1. /\ link' = "down" /\ responses' = {}
        /\ wire' \in Seq(Sent) /\ abandoned' \subseteq Requests
    BY <1>4, ConnectionLostTypeOK DEF Destroy
  <2>. QED
    BY <1>4, <2>1 DEF Destroy, TypeOK
<1>5. CASE TransportError
  <2>1. /\ link' = "down" /\ responses' = {}
        /\ wire' \in Seq(Sent) /\ abandoned' \subseteq Requests
    BY <1>5, ConnectionLostTypeOK DEF TransportError
  <2>2. drops' \in 0..MaxDrops /\ ready' = FALSE /\ constructed' = constructed
    BY <1>5 DEF TransportError, TypeOK
  <2>3. UNCHANGED <<calls, slot, workQueue, tasks>>
    BY <1>5 DEF TransportError
  <2>. QED
    BY <2>1, <2>2, <2>3 DEF TypeOK
<1>6. CASE RunWork
  <2> DEFINE m == Head(workQueue)
  <2>1. m \in Message /\ Tail(workQueue) \in Seq(Message)
    BY <1>6 DEF RunWork, TypeOK
  <2>2. [kind |-> m.kind, req |-> m.req, answerable |-> link = "up"] \in Sent
    BY <2>1 DEF Message, Sent
  <2>3. Stops(<<m>>) \subseteq Requests
    BY <2>1, StopsAreRequests, MessageReq, <<m>> \in Seq(Message)
  <2>4. wire' \in Seq(Sent)
    <3> DEFINE e == [kind |-> m.kind, req |-> m.req, answerable |-> link = "up"]
    <3>1. wire' = wire \/ wire' = Append(wire, e)
      BY <1>6 DEF RunWork
    <3>2. wire \in Seq(Sent) /\ e \in Sent
      BY <2>2 DEF TypeOK
    <3> HIDE DEF e
    <3>. QED
      BY <3>1, <3>2
  <2>5. abandoned' \subseteq Requests
    BY <1>6, <2>3 DEF RunWork, TypeOK
  <2>. QED
    BY <1>6, <2>1, <2>4, <2>5 DEF RunWork, TypeOK
<1>7. ASSUME NEW m \in Response, OnMessage(m) PROVE TypeOK'
  <2>1. responses' \subseteq Response /\ pendingBody' \in Response \cup {None}
    BY <1>7 DEF OnMessage, TypeOK
  <2>2. pendingCorr' \in Requests \cup {0} /\ pendingDone' \in BOOLEAN
    <3>1. pendingCorr' \in {pendingCorr, 0} /\ pendingDone' \in {pendingDone, TRUE}
      BY <1>7 DEF OnMessage
    <3>2. pendingCorr \in Requests \cup {0} /\ pendingDone \in BOOLEAN
      BY DEF TypeOK
    <3>. QED
      BY <3>1, <3>2
  <2>3. UNCHANGED <<constructed, calls, channel, workQueue, wire, tasks, abandoned>>
    BY <1>7 DEF OnMessage
  <2>. QED
    BY <2>1, <2>2, <2>3 DEF TypeOK
<1>8. CASE ControllerTakes
  <2>1. Head(wire) \in Sent /\ Tail(wire) \in Seq(Sent)
    BY <1>8 DEF ControllerTakes, TypeOK
  <2>2. Head(wire).req \in Requests
    BY <2>1 DEF Sent
  <2>3. responses' \subseteq Response
    BY <1>8, <2>2 DEF ControllerTakes, TypeOK, Response
  <2>4. tasks' \in [Requests -> {"none", "running", "ended"}]
    BY <1>8, <2>2 DEF ControllerTakes, TypeOK
  <2>. QED
    BY <1>8, <2>1, <2>3, <2>4 DEF ControllerTakes, TypeOK
<1>9. ASSUME NEW r \in Requests, TaskExpires(r) PROVE TypeOK'
  BY <1>9 DEF TaskExpires, TypeOK
<1>10. ASSUME NEW w \in Workers, CallCollect(w) PROVE TypeOK'
  BY <1>10 DEF CallCollect, TypeOK, InCollect, Requests, Streaming, Unanswered
<1>11. ASSUME NEW w \in Workers, EnterCollect(w) PROVE TypeOK'
  BY <1>11 DEF EnterCollect, TypeOK, InCollect, Streaming, Unanswered
<1>12. ASSUME NEW w \in Workers, ExchangeArm(w) PROVE TypeOK'
  BY <1>12 DEF ExchangeArm, TypeOK, InCollect, Streaming, Unanswered
<1>13. ASSUME NEW w \in Workers, ExchangeNotReady(w) PROVE TypeOK'
  BY <1>13 DEF ExchangeNotReady, TypeOK, InCollect, Streaming, Unanswered
<1>14. ASSUME NEW w \in Workers, ExchangeReturn(w) PROVE TypeOK'
  BY <1>14 DEF ExchangeReturn, TypeOK, InCollect, Streaming, Unanswered
<1>15. ASSUME NEW w \in Workers, ReturnEmpty(w) PROVE TypeOK'
  BY <1>15 DEF ReturnEmpty, TypeOK, RateTaken, InCollect, Response, Streaming, Unanswered
<1>16. ASSUME NEW w \in Workers, OpenStream(w) PROVE TypeOK'
  BY <1>16 DEF OpenStream, TypeOK, RateTaken, InCollect, Response, Streaming, Unanswered
<1>17. ASSUME NEW w \in Workers, ReceiveIq(w) PROVE TypeOK'
  BY <1>17 DEF ReceiveIq, TypeOK, InCollect, Streaming, Unanswered
<1>18. ASSUME NEW w \in Workers, ReadRate(w) PROVE TypeOK'
  BY <1>18 DEF ReadRate, TypeOK, InCollect, Streaming, Unanswered
<1>19. ASSUME NEW w \in Workers, CallOver(w) PROVE TypeOK'
  BY <1>19 DEF CallOver, TypeOK, InCollect, Streaming, Unanswered
<1>20. ASSUME NEW w \in Workers, ExchangeEnqueue(w) PROVE TypeOK'
  <2>1. workQueue' \in Seq(Message)
    BY <1>20 DEF ExchangeEnqueue, TypeOK, Message, InCollect
  <2>. QED
    BY <1>20, <2>1 DEF ExchangeEnqueue, TypeOK, InCollect, Streaming, Unanswered
<1>21. ASSUME NEW w \in Workers, SendStop(w) PROVE TypeOK'
  <2>1. req[w] \in Requests
    BY <1>21 DEF SendStop, TypeOK
  <2>2. [kind |-> "stop", req |-> req[w]] \in Message
    BY <2>1 DEF Message
  <2>3. workQueue' \in Seq(Message) /\ abandoned' \subseteq Requests
    BY <1>21, <2>1, <2>2 DEF SendStop, TypeOK
  <2>4. collectMu' = None /\ pc' = [pc EXCEPT ![w] = "returned"] /\ pc[w] = "stop"
    BY <1>21 DEF SendStop
  <2>5. UNCHANGED <<constructed, req, reply, sockets, iq, rate, lastSr, nextReq, slot,
                    channel, outside>>
    BY <1>21 DEF SendStop
  <2>. QED
    BY <2>3, <2>4, <2>5 DEF TypeOK, InCollect, Streaming, Unanswered
<1>22. CASE UNCHANGED vars
  BY <1>22 DEF vars, TypeOK
<1>. QED
  BY <1>1, <1>2, <1>3, <1>4, <1>5, <1>6, <1>7, <1>8, <1>9, <1>10, <1>11, <1>12, <1>13,
     <1>14, <1>15, <1>16, <1>17, <1>18, <1>19, <1>20, <1>21, <1>22 DEF Next, WorkerStep

\* Every reachable state of the collector is well typed; in particular
\* collect_mu_ is held exactly by the worker inside collect(), and the channel
\* is ready exactly while its reply address lives.
THEOREM CollectorTypeOK == Spec => []TypeOK
<1>1. Init => TypeOK
  BY InitTypeOK
<1>2. TypeOK /\ [Next]_vars => TypeOK'
  BY NextTypeOK
<1>. QED
  BY <1>1, <1>2, PTL DEF Spec

-----------------------------------------------------------------------------
(* The answer a call gets is the answer to its own request. *)

Correlated == TypeOK /\ SlotIsOwn /\ ResponseIsOwn

\* Only one worker at a time is inside collect().
LEMMA OneInCollect ==
  ASSUME TypeOK, NEW v \in Workers, NEW w \in Workers, pc[v] \in InCollect, pc[w] \in InCollect
  PROVE  v = w
  BY DEF TypeOK

LEMMA InitCorrelated == Init => Correlated
<1> SUFFICES ASSUME Init PROVE Correlated
  OBVIOUS
<1>1. TypeOK
  BY InitTypeOK
<1>. QED
  BY <1>1 DEF Init, Correlated, SlotIsOwn, ResponseIsOwn

\* The calls and the slot decide; no other step touches them.
LEMMA NextCorrelated == Correlated /\ [Next]_vars => Correlated'
<1> SUFFICES ASSUME Correlated, [Next]_vars PROVE SlotIsOwn' /\ ResponseIsOwn'
  BY NextTypeOK DEF Correlated
<1>1. TypeOK /\ SlotIsOwn /\ ResponseIsOwn
  BY DEF Correlated
<1>2. CASE UNCHANGED <<calls, slot>>
  BY <1>1, <1>2 DEF calls, slot, SlotIsOwn, ResponseIsOwn
<1>3. ASSUME NEW m \in Response, OnMessage(m) PROVE SlotIsOwn' /\ ResponseIsOwn'
  <2>1. UNCHANGED calls
    BY <1>3 DEF OnMessage
  <2>2. CASE UNCHANGED slot
    BY <1>2, <2>1, <2>2
  <2>3. CASE pendingCorr # 0 /\ m.req = pendingCorr /\ pendingBody' = m /\ pendingCorr' = 0
    BY <1>1, <2>1, <2>3 DEF calls, SlotIsOwn, ResponseIsOwn
  <2>. QED
    BY <1>3, <2>2, <2>3 DEF OnMessage
<1>4. ASSUME NEW w \in Workers, CallCollect(w) PROVE SlotIsOwn' /\ ResponseIsOwn'
  <2>1. reply[w] = None
    BY <1>1, <1>4 DEF CallCollect, TypeOK, Unanswered
  <2>. QED
    BY <1>1, <1>4, <2>1 DEF CallCollect, slot, TypeOK, SlotIsOwn, ResponseIsOwn
<1>5. ASSUME NEW w \in Workers, ExchangeArm(w) PROVE SlotIsOwn' /\ ResponseIsOwn'
  <2>1. ASSUME NEW v \in Workers, pc'[v] \in {"enqueue", "wait"} PROVE v = w
    BY <1>1, <1>5, <2>1, OneInCollect DEF ExchangeArm, TypeOK, InCollect
  <2>. QED
    BY <1>1, <1>5, <2>1 DEF ExchangeArm, SlotIsOwn, ResponseIsOwn
<1>6. ASSUME NEW w \in Workers, ExchangeReturn(w) PROVE SlotIsOwn' /\ ResponseIsOwn'
  BY <1>1, <1>6 DEF ExchangeReturn, slot, TypeOK, SlotIsOwn, ResponseIsOwn
<1>7. ASSUME NEW w \in Workers, ExchangeEnqueue(w) PROVE SlotIsOwn' /\ ResponseIsOwn'
  BY <1>1, <1>7 DEF ExchangeEnqueue, slot, TypeOK, SlotIsOwn, ResponseIsOwn
<1>8. ASSUME NEW w \in Workers, ReturnEmpty(w) \/ CallOver(w) PROVE SlotIsOwn' /\ ResponseIsOwn'
  <2>1. /\ pc' = [pc EXCEPT ![w] = "idle"]
        /\ req' = [req EXCEPT ![w] = 0]
        /\ reply' = [reply EXCEPT ![w] = None]
        /\ UNCHANGED slot
    BY <1>8 DEF ReturnEmpty, CallOver
  <2>. QED
    BY <1>1, <2>1 DEF slot, TypeOK, SlotIsOwn, ResponseIsOwn
<1>9. ASSUME NEW w \in Workers,
             \/ EnterCollect(w) \/ ExchangeNotReady(w) \/ OpenStream(w)
             \/ ReceiveIq(w) \/ SendStop(w) \/ ReadRate(w)
      PROVE  SlotIsOwn' /\ ResponseIsOwn'
  BY <1>1, <1>9 DEF EnterCollect, ExchangeNotReady, OpenStream, ReceiveIq, SendStop, ReadRate,
                    slot, TypeOK, SlotIsOwn, ResponseIsOwn
<1>10. CASE \/ CtorReturns \/ Destroy \/ ConnectionOpen \/ ReceiverOpen \/ TransportError
            \/ RunWork \/ ControllerTakes \/ (\E r \in Requests : TaskExpires(r))
            \/ UNCHANGED vars
  BY <1>2, <1>10 DEF CtorReturns, Destroy, ConnectionOpen, ReceiverOpen, TransportError, RunWork,
                     ControllerTakes, TaskExpires, vars
<1>. QED
  BY <1>3, <1>4, <1>5, <1>6, <1>7, <1>8, <1>9, <1>10 DEF Next, WorkerStep

\* exchange() never hands a call the answer to another request, however late or
\* often the broker delivers it and whichever worker calls next.
THEOREM ResponsesAreOwn == Spec => []ResponseIsOwn
<1>1. Init => Correlated
  BY InitCorrelated
<1>2. Correlated /\ [Next]_vars => Correlated'
  BY NextCorrelated
<1>3. Correlated => ResponseIsOwn
  BY DEF Correlated
<1>. QED
  BY <1>1, <1>2, <1>3, PTL DEF Spec

-----------------------------------------------------------------------------
(* Every return path of collect() closes what it opened. *)

LEMMA NextSocketsClosed == TypeOK /\ SocketsClosed /\ [Next]_vars => SocketsClosed'
<1> SUFFICES ASSUME TypeOK, SocketsClosed, [Next]_vars PROVE SocketsClosed'
  OBVIOUS
<1> USE DEF TypeOK, SocketsClosed, InCollect
<1>1. CASE UNCHANGED <<pc, sockets>>
  BY <1>1
<1>2. ASSUME NEW w \in Workers, CallCollect(w) \/ ReadRate(w) \/ CallOver(w)
      PROVE  SocketsClosed'
  BY <1>2 DEF CallCollect, ReadRate, CallOver
<1>3. ASSUME NEW w \in Workers,
             \/ EnterCollect(w) \/ ExchangeArm(w) \/ ExchangeNotReady(w)
             \/ ExchangeEnqueue(w) \/ ExchangeReturn(w) \/ OpenStream(w)
      PROVE  SocketsClosed'
  <2>1. PICK p \in InCollect \ {"stop"} : pc' = [pc EXCEPT ![w] = p]
    BY <1>3 DEF EnterCollect, ExchangeArm, ExchangeNotReady, ExchangeEnqueue, ExchangeReturn,
                OpenStream
  <2>2. \A v \in Workers \ {w} : sockets'[v] = sockets[v]
    BY <1>3 DEF EnterCollect, ExchangeArm, ExchangeNotReady, ExchangeEnqueue, ExchangeReturn,
                OpenStream
  <2>. QED
    BY <2>1, <2>2
<1>4. ASSUME NEW w \in Workers, ReturnEmpty(w) \/ ReceiveIq(w) PROVE SocketsClosed'
  BY <1>4 DEF ReturnEmpty, ReceiveIq
<1>5. ASSUME NEW w \in Workers, SendStop(w) PROVE SocketsClosed'
  BY <1>5 DEF SendStop
<1>6. CASE \/ CtorReturns \/ Destroy \/ ConnectionOpen \/ ReceiverOpen \/ TransportError
           \/ RunWork \/ ControllerTakes \/ (\E r \in Requests : TaskExpires(r))
           \/ (\E m \in Response : OnMessage(m)) \/ UNCHANGED vars
  BY <1>1, <1>6 DEF CtorReturns, Destroy, ConnectionOpen, ReceiverOpen, TransportError, RunWork,
                    ControllerTakes, TaskExpires, OnMessage, calls, vars
<1>. QED
  BY <1>2, <1>3, <1>4, <1>5, <1>6 DEF Next, WorkerStep

\* No UDP socket outlives the collect() that opened it.
THEOREM NoSocketLeaks == Spec => []SocketsClosed
<1>1. Init => SocketsClosed
  BY DEF Init, SocketsClosed
<1>2. TypeOK /\ SocketsClosed /\ [Next]_vars => SocketsClosed'
  BY NextSocketsClosed
<1>. QED
  BY <1>1, <1>2, CollectorTypeOK, PTL DEF Spec

-----------------------------------------------------------------------------
(* The tasks of the controller.                                            *)
(*                                                                         *)
(* What decides is the order of the messages between a worker and the      *)
(* controller, whichever of them have already left the AMQP thread: the    *)
(* wire and the injected work form one line.  A call puts its request and  *)
(* its TASK_STOP into the line while it holds collect_mu_; the controller  *)
(* takes the oldest message, and a lost connection or a dropped container  *)
(* takes a part of the line away.                                          *)

Line == wire \o workQueue
At(k, kind, r) == Line[k].kind = kind /\ Line[k].req = r
StopUnderWay(r) == \E k \in 1..Len(Line) : At(k, "stop", r)

\* The task of r runs or may still be started.
Live(r) == tasks[r] = "running" \/ \E k \in 1..Len(Line) : At(k, "request", r)

\* Nothing has been sent for r.
Quiet(r) == tasks[r] = "none" /\ \A k \in 1..Len(Line) : Line[k].req # r

RequestsFirst ==
    \A j, k \in 1..Len(Line) :
        Line[j].kind = "request" /\ Line[k].kind = "stop" /\ Line[j].req = Line[k].req => j < k

IdsFresh ==
    /\ \A r \in Requests : r >= nextReq => Quiet(r)
    /\ \A w \in Workers : req[w] < nextReq
    /\ \A v, w \in Workers : v # w /\ req[v] # 0 => req[v] # req[w]

CallsFresh ==
    \A w \in Workers :
        /\ pc[w] \in {"mutex", "exchange", "enqueue"} => Quiet(req[w])
        /\ pc[w] \in {"wait", "reply", "receive", "stop"} => ~StopUnderWay(req[w])

InCall(r) == \E w \in Workers : req[w] = r /\ pc[w] \in InCollect
LiveAccounted ==
    \A r \in Requests : Live(r) => r \in abandoned \/ StopUnderWay(r) \/ InCall(r)

\* The stop of r reaches the controller before the request of s does.
EndsBefore(r, s) ==
    /\ tasks[s] # "running"
    /\ \E j \in 1..Len(Line) :
          At(j, "stop", r) /\ \A k \in 1..Len(Line) : At(k, "request", s) => j < k

\* Of two tasks that are not abandoned one ends before the other starts.
InTurn ==
    \A r, s \in Requests \ abandoned :
        r # s /\ Live(r) /\ Live(s) => EndsBefore(r, s) \/ EndsBefore(s, r)

LineInv ==
    TypeOK /\ RequestsFirst /\ IdsFresh /\ CallsFresh /\ LiveAccounted /\ InTurn

\* The messages of a line are those of the wire, then the injected work.
LEMMA ConcatFacts ==
  ASSUME NEW s \in Seq(Sent), NEW t \in Seq(Message)
  PROVE  /\ Len(s) \in Nat /\ Len(t) \in Nat /\ Len(s \o t) = Len(s) + Len(t)
         /\ \A k \in 1..Len(s) : k \in 1..Len(s \o t) /\ (s \o t)[k] = s[k]
         /\ \A k \in (Len(s) + 1)..Len(s \o t) :
                k - Len(s) \in 1..Len(t) /\ (s \o t)[k] = t[k - Len(s)]
         /\ \A k \in 1..Len(s \o t) :
                (s \o t)[k].kind \in {"request", "stop"} /\ (s \o t)[k].req \in Requests
<1>1. /\ Len(s) \in Nat /\ Len(t) \in Nat /\ Len(s \o t) = Len(s) + Len(t)
      /\ \A k \in 1..Len(s) : (s \o t)[k] = s[k] /\ s[k] \in Sent
      /\ \A k \in 1..Len(t) : t[k] \in Message
      /\ \A k \in (Len(s) + 1)..Len(s \o t) : (s \o t)[k] = t[k - Len(s)]
  OBVIOUS
<1>2. ASSUME NEW k \in 1..Len(s \o t)
      PROVE  (s \o t)[k].kind \in {"request", "stop"} /\ (s \o t)[k].req \in Requests
  <2>1. CASE k \in 1..Len(s)
    <3>1. (s \o t)[k] \in Sent
      BY <1>1, <2>1
    <3>. QED
      BY <3>1 DEF Sent
  <2>2. CASE k - Len(s) \in 1..Len(t)
    <3>1. k \in (Len(s) + 1)..Len(s \o t)
      BY <1>1, <2>2
    <3>2. (s \o t)[k] \in Message
      BY <1>1, <2>2, <3>1
    <3>. QED
      BY <3>2 DEF Message
  <2>. QED
    BY <1>1, <2>1, <2>2
<1>. QED
  BY <1>1, <1>2

LEMMA LineFacts ==
  ASSUME TypeOK
  PROVE  /\ Len(wire) \in Nat /\ Len(workQueue) \in Nat
         /\ Len(Line) = Len(wire) + Len(workQueue)
         /\ \A k \in 1..Len(wire) : k \in 1..Len(Line) /\ Line[k] = wire[k]
         /\ \A k \in (Len(wire) + 1)..Len(Line) :
                k - Len(wire) \in 1..Len(workQueue) /\ Line[k] = workQueue[k - Len(wire)]
         /\ \A k \in 1..Len(Line) : Line[k].kind \in {"request", "stop"} /\ Line[k].req \in Requests
  BY ConcatFacts DEF TypeOK, Line

LEMMA NextLineFacts ==
  ASSUME TypeOK'
  PROVE  /\ Len(wire') \in Nat /\ Len(workQueue') \in Nat
         /\ Len(Line') = Len(wire') + Len(workQueue')
         /\ \A k \in 1..Len(wire') : k \in 1..Len(Line') /\ Line'[k] = wire'[k]
         /\ \A k \in (Len(wire') + 1)..Len(Line') :
                k - Len(wire') \in 1..Len(workQueue') /\ Line'[k] = workQueue'[k - Len(wire')]
<1>1. wire' \in Seq(Sent) /\ workQueue' \in Seq(Message)
  BY DEF TypeOK
<1>. QED
  BY <1>1, ConcatFacts DEF Line

\* A TASK_STOP among messages is one of Stops, and the other way round.
LEMMA StopsFacts ==
  ASSUME NEW S, NEW msgs \in Seq(S)
  PROVE  \A r : r \in Stops(msgs) <=>
                    \E k \in 1..Len(msgs) : msgs[k].kind = "stop" /\ msgs[k].req = r
<1>1. DOMAIN msgs = 1..Len(msgs)
  OBVIOUS
<1>. QED
  BY <1>1 DEF Stops, Range

LEMMA InitLineInv == Init => LineInv
<1> SUFFICES ASSUME Init PROVE LineInv
  OBVIOUS
<1>1. TypeOK
  BY InitTypeOK
<1>2. Len(Line) = 0
  BY <1>1, LineFacts DEF Init
<1>3. \A k : k \notin 1..Len(Line)
  BY <1>2
<1>4. RequestsFirst /\ CallsFresh
  BY <1>3 DEF Init, RequestsFirst, CallsFresh, StopUnderWay
<1>5. IdsFresh
  BY <1>3 DEF Init, IdsFresh, Quiet
<1>6. \A r \in Requests : ~Live(r)
  BY <1>3 DEF Init, Live
<1>7. LiveAccounted /\ InTurn
  BY <1>6 DEF LiveAccounted, InTurn
<1>. QED
  BY <1>1, <1>4, <1>5, <1>7 DEF LineInv

-----------------------------------------------------------------------------
(* What the steps do to the line. *)

\* A part of the line is left, in the order it had: the message at k was at f[k].
Remains(f) ==
    /\ \A k \in 1..Len(Line') :
          /\ f[k] \in 1..Len(Line)
          /\ Line'[k].kind = Line[f[k]].kind /\ Line'[k].req = Line[f[k]].req
    /\ \A j, k \in 1..Len(Line') : j < k <=> f[j] < f[k]

\* No step but the end of exchange() and of collect() makes a message; the rest
\* take some away, the stops of the requests in gone among them.
LEMMA RemainsFacts ==
  ASSUME LineInv, TypeOK', NEW f, Remains(f), NEW gone,
         \A k \in 1..Len(Line) : Line[k].kind = "stop" =>
             Line[k].req \in gone \/ \E j \in 1..Len(Line') : f[j] = k
  PROVE  /\ RequestsFirst'
         /\ \A r : StopUnderWay(r)' => StopUnderWay(r)
         /\ \A r : StopUnderWay(r) => StopUnderWay(r)' \/ r \in gone
         /\ \A r : (\A k \in 1..Len(Line) : Line[k].req # r)
                     => \A k \in 1..Len(Line') : Line'[k].req # r
         /\ \A r : (\E k \in 1..Len(Line') : At(k, "request", r)')
                     => \E k \in 1..Len(Line) : At(k, "request", r)
         /\ \A r, s : EndsBefore(r, s) /\ r \notin gone /\ tasks'[s] # "running"
                        => EndsBefore(r, s)'
<1>1. Len(Line) \in Nat /\ Len(Line') \in Nat
  BY LineFacts, NextLineFacts DEF LineInv
<1>2. RequestsFirst'
  <2> SUFFICES ASSUME NEW j \in 1..Len(Line'), NEW k \in 1..Len(Line'),
                      Line'[j].kind = "request", Line'[k].kind = "stop",
                      Line'[j].req = Line'[k].req
               PROVE  j < k
    BY DEF RequestsFirst
  <2>0. /\ f[j] \in 1..Len(Line) /\ Line[f[j]].kind = "request" /\ Line[f[j]].req = Line'[j].req
        /\ f[k] \in 1..Len(Line) /\ Line[f[k]].kind = "stop" /\ Line[f[k]].req = Line'[k].req
    BY DEF Remains
  <2>1. f[j] < f[k]
    BY <2>0 DEF LineInv, RequestsFirst
  <2>. QED
    BY <2>1 DEF Remains
<1>3. ASSUME NEW r, StopUnderWay(r)' PROVE StopUnderWay(r)
  <2>1. PICK k \in 1..Len(Line') : At(k, "stop", r)'
    BY <1>3 DEF StopUnderWay
  <2>2. f[k] \in 1..Len(Line) /\ At(f[k], "stop", r)
    BY <2>1 DEF At, Remains
  <2>. QED
    BY <2>2 DEF StopUnderWay
<1>4. ASSUME NEW k \in 1..Len(Line), NEW j \in 1..Len(Line'), f[j] = k, NEW kind, NEW r
      PROVE  At(k, kind, r) <=> At(j, kind, r)'
  BY <1>4 DEF At, Remains
<1>5. ASSUME NEW r, StopUnderWay(r), r \notin gone PROVE StopUnderWay(r)'
  <2>1. PICK k \in 1..Len(Line) : At(k, "stop", r)
    BY <1>5 DEF StopUnderWay
  <2>2. PICK j \in 1..Len(Line') : f[j] = k
    BY <1>5, <2>1 DEF At
  <2>3. At(j, "stop", r)'
    BY <1>4, <2>1, <2>2
  <2>. QED
    BY <2>3 DEF StopUnderWay
<1>6. ASSUME NEW r, \A k \in 1..Len(Line) : Line[k].req # r, NEW k \in 1..Len(Line')
      PROVE  Line'[k].req # r
  BY <1>6 DEF Remains
<1>7. ASSUME NEW r, NEW k \in 1..Len(Line'), At(k, "request", r)'
      PROVE  f[k] \in 1..Len(Line) /\ At(f[k], "request", r)
  BY <1>7 DEF At, Remains
<1>8. ASSUME NEW r, NEW s, EndsBefore(r, s), r \notin gone, tasks'[s] # "running"
      PROVE  EndsBefore(r, s)'
  <2>1. PICK k \in 1..Len(Line) :
            At(k, "stop", r) /\ \A i \in 1..Len(Line) : At(i, "request", s) => k < i
    BY <1>8 DEF EndsBefore
  <2>2. PICK j \in 1..Len(Line') : f[j] = k
    BY <1>8, <2>1 DEF At
  <2>3. At(j, "stop", r)'
    BY <1>4, <2>1, <2>2
  <2>4. ASSUME NEW i \in 1..Len(Line'), At(i, "request", s)' PROVE j < i
    <3>1. f[j] < f[i]
      BY <1>7, <2>1, <2>2, <2>4
    <3>. QED
      BY <3>1 DEF Remains
  <2>. QED
    BY <1>8, <2>3, <2>4 DEF EndsBefore
<1>. QED
  BY <1>2, <1>3, <1>5, <1>6, <1>7, <1>8

LEMMA RemainsKeeps ==
  ASSUME LineInv, TypeOK', NEW f, Remains(f), abandoned \subseteq abandoned',
         \A k \in 1..Len(Line) : Line[k].kind = "stop" =>
             Line[k].req \in abandoned' \/ \E j \in 1..Len(Line') : f[j] = k,
         UNCHANGED <<calls, tasks>>
  PROVE  LineInv'
<1>1. /\ \A r : StopUnderWay(r)' => StopUnderWay(r)
      /\ \A r : StopUnderWay(r) => StopUnderWay(r)' \/ r \in abandoned'
      /\ \A r : (\A k \in 1..Len(Line) : Line[k].req # r)
                  => \A k \in 1..Len(Line') : Line'[k].req # r
      /\ \A r : (\E k \in 1..Len(Line') : At(k, "request", r)')
                  => \E k \in 1..Len(Line) : At(k, "request", r)
      /\ \A r, s : EndsBefore(r, s) /\ r \notin abandoned' /\ tasks'[s] # "running"
                     => EndsBefore(r, s)'
      /\ RequestsFirst'
  BY RemainsFacts
<1>2. UNCHANGED <<pc, req, nextReq, tasks>>
  BY DEF calls
<1>3. \A r : /\ Quiet(r) => Quiet(r)'
             /\ Live(r)' => Live(r)
             /\ InCall(r) => InCall(r)'
  BY <1>1, <1>2 DEF Quiet, Live, InCall
<1>4. IdsFresh' /\ CallsFresh'
  BY <1>1, <1>2, <1>3 DEF LineInv, IdsFresh, CallsFresh
<1>5. LiveAccounted'
  BY <1>1, <1>3 DEF LineInv, LiveAccounted
<1>6. \A r, s : EndsBefore(r, s) /\ r \notin abandoned' => EndsBefore(r, s)'
  BY <1>1, <1>2 DEF EndsBefore
<1>7. InTurn'
  BY <1>3, <1>6 DEF LineInv, InTurn
<1>. QED
  BY <1>1, <1>4, <1>5, <1>7 DEF LineInv

-----------------------------------------------------------------------------
(* Steps that leave the line as it is. *)

LEMMA StillLine ==
  ASSUME LineInv, UNCHANGED <<wire, workQueue, tasks>>, abandoned \subseteq abandoned'
  PROVE  /\ RequestsFirst' /\ InTurn'
         /\ \A r : StopUnderWay(r)' <=> StopUnderWay(r)
         /\ \A r : Live(r)' <=> Live(r)
         /\ \A r : Quiet(r)' <=> Quiet(r)
<1>1. Line' = Line
  BY DEF Line
<1>2. \A r : /\ StopUnderWay(r)' <=> StopUnderWay(r)
             /\ Live(r)' <=> Live(r)
             /\ Quiet(r)' <=> Quiet(r)
  BY <1>1 DEF StopUnderWay, Live, Quiet, At
<1>3. \A r, s : EndsBefore(r, s)' <=> EndsBefore(r, s)
  BY <1>1 DEF EndsBefore, At
<1>4. RequestsFirst'
  BY <1>1 DEF LineInv, RequestsFirst
<1>5. InTurn'
  BY <1>2, <1>3 DEF LineInv, InTurn
<1>. QED
  BY <1>2, <1>4, <1>5

LEMMA OutsideKeeps ==
  ASSUME LineInv, TypeOK', UNCHANGED <<calls, wire, workQueue, tasks, abandoned>>
  PROVE  LineInv'
<1>1. /\ RequestsFirst' /\ InTurn'
      /\ \A r : StopUnderWay(r)' <=> StopUnderWay(r)
      /\ \A r : Live(r)' <=> Live(r)
      /\ \A r : Quiet(r)' <=> Quiet(r)
  BY StillLine
<1>2. UNCHANGED <<pc, req, nextReq, abandoned>>
  BY DEF calls
<1>3. IdsFresh' /\ CallsFresh'
  BY <1>1, <1>2 DEF LineInv, IdsFresh, CallsFresh
<1>4. LiveAccounted'
  BY <1>1, <1>2 DEF LineInv, LiveAccounted, InCall
<1>. QED
  BY <1>1, <1>3, <1>4 DEF LineInv

\* A call gets the next id, for which nothing has been sent.
LEMMA CallCollectKeeps ==
  ASSUME LineInv, TypeOK', NEW w \in Workers, CallCollect(w)
  PROVE  LineInv'
<1>1. /\ pc[w] = "idle" /\ nextReq \in Requests /\ nextReq' = nextReq + 1
      /\ req' = [req EXCEPT ![w] = nextReq] /\ pc' = [pc EXCEPT ![w] = "mutex"]
      /\ UNCHANGED <<wire, workQueue, tasks, abandoned>>
      /\ req[w] = 0
      /\ req \in [Workers -> Requests \cup {0}]
      /\ pc \in [Workers -> InCollect \cup {"idle", "mutex", "returned", "analyze"}]
  BY DEF CallCollect, LineInv, TypeOK, outside, Requests
<1>2. /\ RequestsFirst' /\ InTurn'
      /\ \A r : StopUnderWay(r)' <=> StopUnderWay(r)
      /\ \A r : Live(r)' <=> Live(r)
      /\ \A r : Quiet(r)' <=> Quiet(r)
  BY <1>1, StillLine
<1>3. IdsFresh'
  <2>1. \A v \in Workers : req[v] < nextReq /\ nextReq \in Nat
    BY <1>1 DEF LineInv, IdsFresh, Requests
  <2>2. \A v \in Workers : req'[v] < nextReq'
    BY <1>1, <2>1 DEF Requests
  <2>3. \A u, v \in Workers : u # v /\ req'[u] # 0 => req'[u] # req'[v]
    BY <1>1, <2>1 DEF LineInv, IdsFresh, Requests
  <2>4. \A r \in Requests : r >= nextReq' => Quiet(r)'
    BY <1>1, <1>2 DEF LineInv, IdsFresh, Requests
  <2>. QED
    BY <2>2, <2>3, <2>4 DEF IdsFresh
<1>4. CallsFresh'
  <2>1. Quiet(nextReq)
    BY <1>1 DEF LineInv, IdsFresh, Requests
  <2>. QED
    BY <1>1, <1>2, <2>1 DEF LineInv, CallsFresh
<1>5. \A r \in Requests : InCall(r) => InCall(r)'
  BY <1>1 DEF InCall, InCollect
<1>6. LiveAccounted'
  BY <1>1, <1>2, <1>5 DEF LineInv, LiveAccounted
<1>. QED
  BY <1>2, <1>3, <1>4, <1>6 DEF LineInv

\* Steps of a call that send nothing and do not end it.
LEMMA InsideKeeps ==
  ASSUME LineInv, TypeOK', NEW w \in Workers,
         \/ EnterCollect(w) \/ ExchangeArm(w) \/ ExchangeNotReady(w) \/ ExchangeReturn(w)
         \/ OpenStream(w) \/ ReceiveIq(w)
  PROVE  LineInv'
<1>1. PICK p \in InCollect :
        /\ pc' = [pc EXCEPT ![w] = p]
        /\ p \in {"exchange", "enqueue"} => pc[w] \in {"mutex", "exchange"}
        /\ p = "reply" => pc[w] \in {"exchange", "wait"}
        /\ p = "receive" => pc[w] = "reply"
        /\ p = "stop" => pc[w] = "receive"
        /\ p # "wait"
  BY DEF EnterCollect, ExchangeArm, ExchangeNotReady, ExchangeReturn, OpenStream, ReceiveIq, InCollect
<1>2. UNCHANGED <<req, nextReq, wire, workQueue, tasks, abandoned>>
  BY DEF EnterCollect, ExchangeArm, ExchangeNotReady, ExchangeReturn, OpenStream, ReceiveIq, outside
<1>3. pc \in [Workers -> InCollect \cup {"idle", "mutex", "returned", "analyze"}]
  BY DEF LineInv, TypeOK
<1>4. /\ RequestsFirst' /\ InTurn'
      /\ \A r : StopUnderWay(r)' <=> StopUnderWay(r)
      /\ \A r : Live(r)' <=> Live(r)
      /\ \A r : Quiet(r)' <=> Quiet(r)
  BY <1>2, StillLine
<1>5. IdsFresh'
  BY <1>2, <1>4 DEF LineInv, IdsFresh
<1>6. \A r : Quiet(r) => ~StopUnderWay(r)
  BY DEF Quiet, StopUnderWay, At
<1>7. CallsFresh'
  <2> SUFFICES ASSUME NEW v \in Workers
               PROVE  /\ pc'[v] \in {"mutex", "exchange", "enqueue"} => Quiet(req[v])
                      /\ pc'[v] \in {"wait", "reply", "receive", "stop"} => ~StopUnderWay(req[v])
    BY <1>2, <1>4 DEF CallsFresh
  <2>1. /\ pc[v] \in {"mutex", "exchange", "enqueue"} => Quiet(req[v])
        /\ pc[v] \in {"wait", "reply", "receive", "stop"} => ~StopUnderWay(req[v])
    BY DEF LineInv, CallsFresh
  <2>2. CASE v # w
    BY <1>1, <1>3, <2>1, <2>2
  <2>3. CASE v = w
    BY <1>1, <1>3, <1>6, <2>1, <2>3 DEF InCollect
  <2>. QED
    BY <2>2, <2>3
<1>8. \A r : InCall(r) => InCall(r)'
  BY <1>1, <1>2, <1>3 DEF InCall
<1>9. LiveAccounted'
  BY <1>2, <1>4, <1>8 DEF LineInv, LiveAccounted
<1>. QED
  BY <1>4, <1>5, <1>7, <1>9 DEF LineInv

\* A call that ends without a stop is abandoned; one that has sent it is not
\* inside collect() any more.
LEMMA OverKeeps ==
  ASSUME LineInv, TypeOK', NEW w \in Workers,
         ReturnEmpty(w) \/ ReadRate(w) \/ CallOver(w) \/ (SendStop(w) /\ ~CanStop(w))
  PROVE  LineInv'
<1>1. /\ UNCHANGED <<nextReq, wire, workQueue, tasks>> /\ abandoned \subseteq abandoned'
      /\ pc' \in {[pc EXCEPT ![w] = p] : p \in {"idle", "analyze", "returned"}}
      /\ req' \in {[req EXCEPT ![w] = 0], req}
      /\ pc[w] \in InCollect => req[w] \in abandoned'
  BY DEF ReturnEmpty, ReadRate, CallOver, SendStop, outside, InCollect
<1>2. /\ req \in [Workers -> Requests \cup {0}]
      /\ pc \in [Workers -> InCollect \cup {"idle", "mutex", "returned", "analyze"}]
      /\ nextReq \in Nat /\ nextReq > 0
  BY CollectorAssumption DEF LineInv, TypeOK, CollectorAssumption
<1>3. /\ RequestsFirst' /\ InTurn'
      /\ \A r : StopUnderWay(r)' <=> StopUnderWay(r)
      /\ \A r : Live(r)' <=> Live(r)
      /\ \A r : Quiet(r)' <=> Quiet(r)
  BY <1>1, StillLine
<1>4. IdsFresh'
  <2>1. \A v \in Workers : req'[v] \in {req[v], 0}
    BY <1>1, <1>2
  <2>2. \A v \in Workers : req'[v] < nextReq'
    BY <1>1, <1>2, <2>1 DEF LineInv, IdsFresh
  <2>3. \A u, v \in Workers : u # v /\ req'[u] # 0 => req'[u] # req'[v]
    BY <2>1 DEF LineInv, IdsFresh
  <2>4. \A r \in Requests : r >= nextReq' => Quiet(r)'
    BY <1>1, <1>3 DEF LineInv, IdsFresh
  <2>. QED
    BY <2>2, <2>3, <2>4 DEF IdsFresh
<1>5. CallsFresh'
  BY <1>1, <1>2, <1>3 DEF LineInv, CallsFresh
<1>6. \A r : InCall(r) => InCall(r)' \/ r \in abandoned'
  BY <1>1, <1>2 DEF InCall
<1>7. LiveAccounted'
  BY <1>1, <1>3, <1>6 DEF LineInv, LiveAccounted
<1>. QED
  BY <1>3, <1>4, <1>5, <1>7 DEF LineInv

-----------------------------------------------------------------------------
(* Steps that send, deliver or lose. *)

\* A lost connection leaves a beginning of the wire, and the injected work
\* unless the container is dropped with it.
LEMMA ConnectionLostKeeps ==
  ASSUME LineInv, TypeOK', ConnectionLost, UNCHANGED <<calls, tasks>>,
         \/ UNCHANGED workQueue
         \/ constructed' = "destroyed" /\ workQueue' = <<>>
  PROVE  LineInv'
<1>1. PICK n \in 0..Len(wire) :
        /\ wire' = [i \in 1..n |-> Unanswerable(wire[i])]
        /\ abandoned' = abandoned \cup Stops(SubSeq(wire, n + 1, Len(wire)))
                        \cup (IF constructed' = "destroyed" THEN Stops(workQueue) ELSE {})
  BY DEF ConnectionLost
<1>2. wire \in Seq(Sent) /\ workQueue \in Seq(Message) /\ TypeOK
  BY DEF LineInv, TypeOK
<1>3. Len(wire) \in Nat /\ n \in Nat /\ n <= Len(wire) /\ Len(wire') = n
  BY <1>1, <1>2
<1>4. \A k \in 1..n : wire'[k].kind = wire[k].kind /\ wire'[k].req = wire[k].req
  BY <1>1 DEF Unanswerable
<1>5. Len(workQueue') \in {0, Len(workQueue)} /\ Len(workQueue) \in Nat
      /\ Len(workQueue') # 0 => workQueue' = workQueue
  BY <1>2
<1>6. /\ Len(Line) = Len(wire) + Len(workQueue)
      /\ \A k \in 1..Len(wire) : k \in 1..Len(Line) /\ Line[k] = wire[k]
      /\ \A k \in (Len(wire) + 1)..Len(Line) :
             k - Len(wire) \in 1..Len(workQueue) /\ Line[k] = workQueue[k - Len(wire)]
      /\ Len(Line') = n + Len(workQueue')
      /\ \A k \in 1..n : k \in 1..Len(Line') /\ Line'[k] = wire'[k]
      /\ \A k \in (n + 1)..Len(Line') :
             k - n \in 1..Len(workQueue') /\ Line'[k] = workQueue'[k - n]
  BY <1>2, <1>3, LineFacts, NextLineFacts
<1> DEFINE f == [k \in 1..Len(Line') |-> IF k <= n THEN k ELSE k - n + Len(wire)]
<1>7. \A k \in 1..Len(Line') : f[k] = IF k <= n THEN k ELSE k - n + Len(wire)
  OBVIOUS
<1> HIDE DEF f
<1>8. ASSUME NEW k \in 1..Len(Line')
      PROVE  /\ f[k] \in 1..Len(Line)
             /\ Line'[k].kind = Line[f[k]].kind /\ Line'[k].req = Line[f[k]].req
  <2>1. CASE k <= n
    BY <1>3, <1>4, <1>6, <1>7, <2>1
  <2>2. CASE k > n
    <3>1. /\ f[k] = k - n + Len(wire) /\ k - n \in 1..Len(workQueue')
          /\ Line'[k] = workQueue'[k - n]
      BY <1>3, <1>5, <1>6, <1>7, <2>2
    <3>2. workQueue' = workQueue
      BY <1>5, <3>1
    <3>3. f[k] \in (Len(wire) + 1)..Len(Line) /\ f[k] - Len(wire) = k - n
      BY <1>3, <1>5, <1>6, <3>1, <3>2
    <3>4. Line[f[k]] = workQueue[k - n]
      BY <1>6, <3>3
    <3>5. f[k] \in 1..Len(Line)
      BY <1>3, <3>3
    <3>. QED
      BY <3>1, <3>2, <3>4, <3>5
  <2>. QED
    BY <1>3, <2>1, <2>2
<1>9. Remains(f)
  <2>1. ASSUME NEW j \in 1..Len(Line'), NEW k \in 1..Len(Line') PROVE j < k <=> f[j] < f[k]
    <3>1. /\ f[j] = IF j <= n THEN j ELSE j - n + Len(wire)
          /\ f[k] = IF k <= n THEN k ELSE k - n + Len(wire)
      BY <1>7
    <3>2. j \in Int /\ k \in Int
      BY <1>3, <1>5, <1>6
    <3>. QED
      BY <1>3, <3>1, <3>2
  <2>. QED
    BY <1>8, <2>1 DEF Remains
<1>10. ASSUME NEW k \in 1..Len(Line), Line[k].kind = "stop"
       PROVE  Line[k].req \in abandoned' \/ \E j \in 1..Len(Line') : f[j] = k
  <2>0. k \in Nat
    BY <1>3, <1>5, <1>6
  <2>1. CASE k \in 1..n
    <3>1. k \in 1..Len(Line')
      BY <1>6, <2>1
    <3>2. f[k] = k
      BY <1>7, <2>1, <3>1
    <3>. QED
      BY <3>1, <3>2
  <2>2. CASE k \in (n + 1)..Len(wire)
    <3> DEFINE tail == SubSeq(wire, n + 1, Len(wire))
    <3>1. /\ tail \in Seq(Sent) /\ Len(tail) = Len(wire) - n
          /\ k - n \in 1..Len(tail) /\ tail[k - n] = wire[k]
      BY <1>2, <1>3, <2>2
    <3>2. Line[k] = wire[k]
      BY <1>3, <1>6, <2>2
    <3> HIDE DEF tail
    <3>3. Line[k].req \in Stops(tail)
      BY <1>10, <3>1, <3>2, StopsFacts
    <3>. QED
      BY <1>1, <3>3 DEF tail
  <2>3. CASE k \in (Len(wire) + 1)..Len(Line)
    <3>1. k - Len(wire) \in 1..Len(workQueue) /\ Line[k] = workQueue[k - Len(wire)]
      BY <1>6, <2>3
    <3>2. CASE UNCHANGED workQueue
      <4> DEFINE j == n + (k - Len(wire))
      <4>1. j \in 1..Len(Line') /\ j > n /\ j - n + Len(wire) = k
        BY <1>3, <1>5, <1>6, <3>1, <3>2, <2>0
      <4>2. f[j] = k
        BY <1>3, <1>7, <4>1, <2>0
      <4>. QED
        BY <4>1, <4>2
    <3>3. CASE constructed' = "destroyed"
      <4>1. Line[k].req \in Stops(workQueue)
        BY <1>2, <1>10, <3>1, StopsFacts
      <4>. QED
        BY <1>1, <3>3, <4>1
    <3>. QED
      BY <3>2, <3>3
  <2>. QED
    BY <1>3, <1>5, <1>6, <2>0, <2>1, <2>2, <2>3
<1>11. abandoned \subseteq abandoned'
  BY <1>1
<1>. QED
  BY <1>9, <1>10, <1>11, RemainsKeeps

\* A message that goes out keeps its place; with no connection it is lost.
LEMMA RunWorkKeeps ==
  ASSUME LineInv, TypeOK', RunWork
  PROVE  LineInv'
<1> DEFINE m == Head(workQueue)
<1>1. /\ wire \in Seq(Sent) /\ workQueue \in Seq(Message) /\ workQueue # <<>> /\ TypeOK
      /\ workQueue' = Tail(workQueue) /\ UNCHANGED <<calls, tasks>>
  BY DEF LineInv, TypeOK, RunWork
<1>2. /\ Len(workQueue) \in Nat /\ Len(workQueue) > 0 /\ Len(workQueue') = Len(workQueue) - 1
      /\ m = workQueue[1] /\ m \in Message
      /\ \A k \in 1..Len(workQueue') : workQueue'[k] = workQueue[k + 1]
  BY <1>1
<1>3. /\ Len(wire) \in Nat /\ Len(Line) = Len(wire) + Len(workQueue)
      /\ \A k \in 1..Len(wire) : k \in 1..Len(Line) /\ Line[k] = wire[k]
      /\ \A k \in (Len(wire) + 1)..Len(Line) :
             k - Len(wire) \in 1..Len(workQueue) /\ Line[k] = workQueue[k - Len(wire)]
  BY <1>1, LineFacts
<1>4. Len(wire) + 1 \in 1..Len(Line) /\ Line[Len(wire) + 1] = m
  <2>1. Len(wire) + 1 \in 1..Len(Line) /\ Len(wire) + 1 \in (Len(wire) + 1)..Len(Line)
        /\ Len(wire) + 1 - Len(wire) = 1
    BY <1>2, <1>3
  <2>. QED
    BY <1>2, <1>3, <2>1
<1>5. /\ Len(Line') = Len(wire') + Len(workQueue')
      /\ \A k \in 1..Len(wire') : k \in 1..Len(Line') /\ Line'[k] = wire'[k]
      /\ \A k \in (Len(wire') + 1)..Len(Line') :
             k - Len(wire') \in 1..Len(workQueue') /\ Line'[k] = workQueue'[k - Len(wire')]
  BY NextLineFacts
<1> HIDE DEF m
<1>6. CASE link = "down"
  <2>1. wire' = wire /\ abandoned' = abandoned \cup Stops(<<m>>)
    BY <1>6 DEF RunWork, m
  <2> DEFINE f == [k \in 1..Len(Line') |-> IF k <= Len(wire) THEN k ELSE k + 1]
  <2>2. \A k \in 1..Len(Line') : f[k] = IF k <= Len(wire) THEN k ELSE k + 1
    OBVIOUS
  <2>3. Len(Line') \in Nat /\ Len(Line') = Len(Line) - 1
    BY <1>2, <1>3, <1>5, <2>1
  <2> HIDE DEF f
  <2>4. ASSUME NEW k \in 1..Len(Line')
        PROVE  /\ f[k] \in 1..Len(Line)
               /\ Line'[k].kind = Line[f[k]].kind /\ Line'[k].req = Line[f[k]].req
    <3>1. CASE k <= Len(wire)
      <4>1. k \in 1..Len(wire) /\ f[k] = k
        BY <1>3, <2>2, <2>3, <3>1
      <4>. QED
        BY <1>3, <1>5, <2>1, <4>1
    <3>2. CASE k > Len(wire)
      <4>1. k \in (Len(wire) + 1)..Len(Line') /\ f[k] = k + 1 /\ k \in Nat
        BY <1>3, <2>2, <2>3, <3>2
      <4>2. k - Len(wire) \in 1..Len(workQueue') /\ Line'[k] = workQueue'[k - Len(wire)]
        BY <1>5, <2>1, <4>1
      <4>3. k + 1 \in (Len(wire) + 1)..Len(Line) /\ k + 1 - Len(wire) = (k - Len(wire)) + 1
        BY <1>3, <2>3, <4>1
      <4>4. Line[k + 1] = workQueue[(k - Len(wire)) + 1]
        BY <1>3, <4>3
      <4>5. workQueue'[k - Len(wire)] = workQueue[(k - Len(wire)) + 1]
        BY <1>2, <4>2
      <4>6. f[k] \in 1..Len(Line)
        BY <1>3, <2>3, <4>1
      <4>7. Line'[k] = Line[f[k]]
        BY <4>1, <4>2, <4>4, <4>5
      <4>. QED
        BY <4>6, <4>7
    <3>. QED
      BY <1>3, <2>3, <3>1, <3>2
  <2>5. Remains(f)
    <3>1. ASSUME NEW j \in 1..Len(Line'), NEW k \in 1..Len(Line') PROVE j < k <=> f[j] < f[k]
      <4>1. f[j] = (IF j <= Len(wire) THEN j ELSE j + 1) /\ f[k] = IF k <= Len(wire) THEN k ELSE k + 1
        BY <2>2
      <4>2. j \in Int /\ k \in Int
        BY <2>3
      <4>. QED
        BY <1>3, <4>1, <4>2
    <3>. QED
      BY <2>4, <3>1 DEF Remains
  <2>6. ASSUME NEW k \in 1..Len(Line), Line[k].kind = "stop"
        PROVE  Line[k].req \in abandoned' \/ \E j \in 1..Len(Line') : f[j] = k
    <3>1. CASE k = Len(wire) + 1
      <4>1. <<m>> \in Seq(Message) /\ Len(<<m>>) = 1 /\ <<m>>[1] = m
        BY <1>2
      <4>2. m.kind = "stop" /\ 1 \in 1..Len(<<m>>)
        BY <1>4, <2>6, <3>1, <4>1
      <4>3. m.req \in Stops(<<m>>)
        BY <4>1, <4>2, StopsFacts
      <4>. QED
        BY <1>4, <2>1, <3>1, <4>3
    <3>2. CASE k <= Len(wire)
      <4>1. k \in 1..Len(Line') /\ f[k] = k
        BY <1>2, <1>3, <2>2, <2>3, <3>2
      <4>. QED
        BY <4>1
    <3>3. CASE k > Len(wire) + 1
      <4>1. k - 1 \in 1..Len(Line') /\ ~(k - 1 <= Len(wire)) /\ k - 1 + 1 = k
        BY <1>3, <2>3, <3>3
      <4>2. f[k - 1] = k
        BY <2>2, <4>1
      <4>. QED
        BY <4>1, <4>2
    <3>. QED
      BY <1>2, <1>3, <3>1, <3>2, <3>3
  <2>. QED
    BY <1>1, <2>1, <2>5, <2>6, RemainsKeeps
<1>7. CASE link # "down"
  <2> DEFINE e == [kind |-> m.kind, req |-> m.req, answerable |-> link = "up"]
             f == [k \in 1..Len(Line') |-> k]
  <2>1. wire' = Append(wire, e) /\ abandoned' = abandoned
    BY <1>7 DEF RunWork, m
  <2>2. e.kind = m.kind /\ e.req = m.req
    OBVIOUS
  <2>3. e \in Sent
    BY <1>2 DEF Message, Sent
  <2> HIDE DEF e
  <2>4. /\ Len(wire') = Len(wire) + 1 /\ wire'[Len(wire) + 1] = e
        /\ \A k \in 1..Len(wire) : k \in 1..Len(wire') /\ wire'[k] = wire[k]
    BY <1>1, <2>1, <2>3
  <2>5. Len(Line') = Len(Line) /\ Len(Line) \in Nat
    BY <1>2, <1>3, <1>5, <2>4
  <2>6. \A k \in 1..Len(Line') : f[k] = k
    OBVIOUS
  <2> HIDE DEF f
  <2>7. ASSUME NEW k \in 1..Len(Line')
        PROVE  Line'[k].kind = Line[k].kind /\ Line'[k].req = Line[k].req
    <3>1. CASE k <= Len(wire)
      <4>1. k \in 1..Len(wire)
        BY <1>3, <2>5, <3>1
      <4>. QED
        BY <1>3, <1>5, <2>4, <4>1
    <3>2. CASE k = Len(wire) + 1
      <4>1. k \in 1..Len(wire')
        BY <1>3, <2>4, <3>2
      <4>. QED
        BY <1>4, <1>5, <2>2, <2>4, <3>2, <4>1
    <3>3. CASE k > Len(wire) + 1
      <4>1. k \in (Len(wire') + 1)..Len(Line') /\ k \in (Len(wire) + 1)..Len(Line)
            /\ k - Len(wire) = (k - Len(wire')) + 1
        BY <1>3, <2>4, <2>5, <3>3
      <4>2. k - Len(wire') \in 1..Len(workQueue') /\ Line'[k] = workQueue'[k - Len(wire')]
        BY <1>5, <4>1
      <4>3. Line[k] = workQueue[(k - Len(wire')) + 1]
        BY <1>3, <4>1
      <4>. QED
        BY <1>2, <4>2, <4>3
    <3>. QED
      BY <1>3, <2>5, <3>1, <3>2, <3>3
  <2>8. Remains(f)
    BY <2>5, <2>6, <2>7 DEF Remains
  <2>9. \A k \in 1..Len(Line) : \E j \in 1..Len(Line') : f[j] = k
    BY <2>5, <2>6
  <2>. QED
    BY <1>1, <2>1, <2>8, <2>9, RemainsKeeps
<1>. QED
  BY <1>6, <1>7

\* The controller takes the head of the line: a request may start its task,
\* which no stop under way is to end before; a stop ends one for good.
LEMMA ControllerTakesKeeps ==
  ASSUME LineInv, TypeOK', ControllerTakes
  PROVE  LineInv'
<1> DEFINE m == Head(wire)
           f == [k \in 1..Len(Line') |-> k + 1]
<1>1. /\ wire \in Seq(Sent) /\ wire # <<>> /\ workQueue \in Seq(Message) /\ TypeOK
      /\ wire' = Tail(wire) /\ UNCHANGED <<calls, workQueue, abandoned>>
  BY DEF LineInv, TypeOK, ControllerTakes
<1>2. /\ Len(wire) \in Nat /\ Len(wire) > 0 /\ Len(wire') = Len(wire) - 1
      /\ m = wire[1] /\ \A k \in 1..Len(wire') : wire'[k] = wire[k + 1]
      /\ Len(workQueue) \in Nat
  BY <1>1
<1>3. Len(Line) \in Nat /\ Len(Line') \in Nat /\ Len(Line') = Len(Line) - 1 /\ 1 \in 1..Len(Line)
  BY <1>1, <1>2, LineFacts, NextLineFacts
<1>4. ASSUME NEW k \in 1..Len(Line') PROVE k + 1 \in 1..Len(Line) /\ Line'[k] = Line[k + 1]
  <2>1. k \in Nat /\ k + 1 \in 1..Len(Line)
    BY <1>3
  <2>2. CASE k \in 1..Len(wire')
    <3>1. k + 1 \in 1..Len(wire)
      BY <1>2, <2>2
    <3>. QED
      BY <1>1, <1>2, <2>1, <2>2, <3>1, LineFacts, NextLineFacts
  <2>3. CASE k \in (Len(wire') + 1)..Len(Line')
    <3>1. k + 1 \in (Len(wire) + 1)..Len(Line) /\ k + 1 - Len(wire) = k - Len(wire')
      BY <1>2, <1>3, <2>3
    <3>2. Line[k + 1] = workQueue[k + 1 - Len(wire)]
      BY <1>1, <3>1, LineFacts
    <3>3. Line'[k] = workQueue[k - Len(wire')]
      BY <1>1, <2>3, NextLineFacts
    <3>. QED
      BY <2>1, <3>1, <3>2, <3>3
  <2>. QED
    BY <1>2, <1>3, <2>1, <2>2, <2>3
<1>5. Line[1] = m
  BY <1>1, <1>2, LineFacts
<1>6. m.req \in Requests /\ tasks \in [Requests -> {"none", "running", "ended"}]
  BY <1>1, <1>3, <1>5, LineFacts DEF TypeOK
<1>7. /\ m.kind = "request" \/ m.kind = "stop"
      /\ m.kind = "request" => tasks' \in {tasks, [tasks EXCEPT ![m.req] = "running"]}
      /\ m.kind = "stop" => tasks' = [tasks EXCEPT ![m.req] = "ended"]
  <2>1. \/ /\ m.kind = "request"
           /\ \E a \in Answers : tasks' = [tasks EXCEPT ![m.req] = IF a = "rejected" THEN @ ELSE "running"]
        \/ m.kind = "stop" /\ tasks' = [tasks EXCEPT ![m.req] = "ended"]
    BY DEF ControllerTakes
  <2>2. [tasks EXCEPT ![m.req] = tasks[m.req]] = tasks
    BY <1>6
  <2>. QED
    BY <2>1, <2>2
<1> HIDE DEF m
<1>8. \A k \in 1..Len(Line') : f[k] = k + 1
  OBVIOUS
<1> HIDE DEF f
<1>9. Remains(f)
  <2>1. ASSUME NEW j \in 1..Len(Line'), NEW k \in 1..Len(Line') PROVE j < k <=> f[j] < f[k]
    BY <1>3, <1>8
  <2>. QED
    BY <1>4, <1>8, <2>1 DEF Remains
<1> DEFINE gone == IF m.kind = "stop" THEN {m.req} ELSE {}
<1>10. ASSUME NEW k \in 1..Len(Line), Line[k].kind = "stop"
       PROVE  Line[k].req \in gone \/ \E j \in 1..Len(Line') : f[j] = k
  <2>1. CASE k = 1
    BY <1>5, <1>10, <2>1
  <2>2. CASE k # 1
    <3>1. k - 1 \in 1..Len(Line') /\ k - 1 + 1 = k
      BY <1>3, <2>2
    <3>. QED
      BY <1>8, <3>1
  <2>. QED
    BY <2>1, <2>2
<1> HIDE DEF gone
<1>11. /\ RequestsFirst'
       /\ \A r : StopUnderWay(r)' => StopUnderWay(r)
       /\ \A r : StopUnderWay(r) => StopUnderWay(r)' \/ r \in gone
       /\ \A r : (\A k \in 1..Len(Line) : Line[k].req # r)
                   => \A k \in 1..Len(Line') : Line'[k].req # r
       /\ \A r : (\E k \in 1..Len(Line') : At(k, "request", r)')
                   => \E k \in 1..Len(Line) : At(k, "request", r)
       /\ \A r, s : EndsBefore(r, s) /\ r \notin gone /\ tasks'[s] # "running"
                      => EndsBefore(r, s)'
  BY <1>9, <1>10, RemainsFacts
<1>12. UNCHANGED <<pc, req, nextReq, abandoned>>
  BY <1>1 DEF calls
<1>13. ASSUME NEW r \in Requests, Quiet(r) PROVE Quiet(r)'
  <2>1. r # m.req
    BY <1>3, <1>5, <1>13 DEF Quiet
  <2>2. tasks'[r] = tasks[r]
    BY <1>6, <1>7, <2>1
  <2>. QED
    BY <1>11, <1>13, <2>2 DEF Quiet
<1>14. ASSUME NEW r \in Requests, Live(r)' PROVE Live(r) /\ r \notin gone
  <2> USE DEF gone
  <2>1. CASE r # m.req
    BY <1>6, <1>7, <1>11, <1>14, <2>1 DEF Live
  <2>2. CASE r = m.req /\ m.kind = "request"
    BY <1>3, <1>5, <2>2 DEF Live, At
  <2>3. CASE r = m.req /\ m.kind = "stop"
    <3>1. PICK k \in 1..Len(Line') : At(k, "request", r)'
      BY <1>6, <1>7, <1>14, <2>3 DEF Live
    <3>2. k + 1 \in 1..Len(Line) /\ Line[k + 1].kind = "request" /\ Line[k + 1].req = r
      BY <1>4, <3>1 DEF At
    <3>3. k + 1 < 1
      BY <1>3, <1>5, <2>3, <3>2 DEF LineInv, RequestsFirst
    <3>. QED
      BY <1>3, <3>3
  <2>. QED
    BY <1>7, <2>1, <2>2, <2>3
<1>15. ASSUME NEW r \in Requests, NEW s \in Requests, EndsBefore(r, s), r \notin gone
       PROVE  EndsBefore(r, s)'
  <2>1. tasks[s] # "running"
    BY <1>15 DEF EndsBefore
  <2>2. CASE s # m.req \/ m.kind = "stop"
    <3>1. tasks'[s] # "running"
      BY <1>6, <1>7, <2>1, <2>2
    <3>. QED
      BY <1>11, <1>15, <3>1
  <2>3. CASE s = m.req /\ m.kind = "request"
    <3>1. PICK j \in 1..Len(Line) : \A k \in 1..Len(Line) : At(k, "request", s) => j < k
      BY <1>15 DEF EndsBefore
    <3>2. j < 1
      BY <1>3, <1>5, <2>3, <3>1 DEF At
    <3>. QED
      BY <1>3, <3>2
  <2>. QED
    BY <1>7, <2>2, <2>3
<1>16. IdsFresh' /\ CallsFresh'
  <2>1. \A w \in Workers : pc[w] \in {"mutex", "exchange", "enqueue"} => req[w] \in Requests
    BY <1>1 DEF TypeOK
  <2>. QED
    BY <1>11, <1>12, <1>13, <2>1 DEF LineInv, IdsFresh, CallsFresh
<1>17. LiveAccounted'
  BY <1>11, <1>12, <1>14 DEF LineInv, LiveAccounted, InCall
<1>18. InTurn'
  BY <1>12, <1>14, <1>15 DEF LineInv, InTurn
<1>. QED
  BY <1>11, <1>16, <1>17, <1>18 DEF LineInv

\* A task whose duration is over is not live any more.
LEMMA TaskExpiresKeeps ==
  ASSUME LineInv, TypeOK', NEW q \in Requests, TaskExpires(q)
  PROVE  LineInv'
<1>1. /\ tasks[q] = "running" /\ tasks' = [tasks EXCEPT ![q] = "ended"]
      /\ UNCHANGED <<pc, req, nextReq, abandoned>> /\ Line' = Line
      /\ tasks \in [Requests -> {"none", "running", "ended"}]
  BY DEF TaskExpires, LineInv, TypeOK, calls, Line
<1>2. \A r : /\ StopUnderWay(r)' <=> StopUnderWay(r)
             /\ Live(r)' => Live(r)
             /\ Quiet(r) => Quiet(r)'
  BY <1>1 DEF StopUnderWay, Live, Quiet, At
<1>3. \A r, s \in Requests : EndsBefore(r, s) => EndsBefore(r, s)'
  BY <1>1 DEF EndsBefore, At
<1>4. RequestsFirst'
  BY <1>1 DEF LineInv, RequestsFirst
<1>5. IdsFresh' /\ CallsFresh'
  BY <1>1, <1>2 DEF LineInv, IdsFresh, CallsFresh
<1>6. LiveAccounted'
  BY <1>1, <1>2 DEF LineInv, LiveAccounted, InCall
<1>7. InTurn'
  BY <1>1, <1>2, <1>3 DEF LineInv, InTurn
<1>. QED
  BY <1>4, <1>5, <1>6, <1>7 DEF LineInv

\* What is injected comes to the end of the line.
LEMMA AppendFacts ==
  ASSUME TypeOK, TypeOK', NEW m \in Message, UNCHANGED wire, workQueue' = Append(workQueue, m)
  PROVE  /\ Len(Line) \in Nat /\ Len(Line') = Len(Line) + 1 /\ Len(Line) + 1 \in 1..Len(Line')
         /\ Line'[Len(Line) + 1] = m
         /\ \A k \in 1..Len(Line) : k \in 1..Len(Line') /\ Line'[k] = Line[k]
         /\ \A k \in 1..Len(Line') : k \in 1..Len(Line) \/ k = Len(Line) + 1
<1>0. \A k \in (Len(wire) + 1)..Len(Line') : Line'[k] = workQueue'[k - Len(wire)]
  <2>1. wire' = wire
    OBVIOUS
  <2>. QED
    BY <2>1, NextLineFacts
<1>1. /\ Len(wire) \in Nat /\ Len(workQueue) \in Nat /\ Len(workQueue') = Len(workQueue) + 1
      /\ Len(Line) = Len(wire) + Len(workQueue) /\ Len(Line') = Len(wire) + Len(workQueue')
      /\ workQueue'[Len(workQueue) + 1] = m
      /\ \A k \in 1..Len(workQueue) : workQueue'[k] = workQueue[k]
  BY LineFacts, NextLineFacts DEF TypeOK
<1>2. Line'[Len(Line) + 1] = m
  <2>1. Len(Line) + 1 \in (Len(wire) + 1)..Len(Line')
        /\ Len(Line) + 1 - Len(wire) = Len(workQueue) + 1
    BY <1>1
  <2>2. Line'[Len(Line) + 1] = workQueue'[Len(Line) + 1 - Len(wire)]
    BY <1>0, <2>1
  <2>. QED
    BY <1>1, <2>1, <2>2
<1>3. ASSUME NEW k \in 1..Len(Line) PROVE Line'[k] = Line[k]
  <2>1. CASE k \in 1..Len(wire)
    BY <2>1, LineFacts, NextLineFacts
  <2>2. CASE k \in (Len(wire) + 1)..Len(Line)
    <3>1. k \in (Len(wire) + 1)..Len(Line')
      BY <1>1, <2>2
    <3>2. Line'[k] = workQueue'[k - Len(wire)]
      BY <3>1, NextLineFacts
    <3>3. k - Len(wire) \in 1..Len(workQueue) /\ Line[k] = workQueue[k - Len(wire)]
      BY <2>2, LineFacts
    <3>. QED
      BY <1>1, <3>2, <3>3
  <2>. QED
    BY <1>1, <2>1, <2>2
<1>. QED
  BY <1>1, <1>2, <1>3

\* The id of a call belongs to it alone, and no other call is inside collect().
LEMMA CallOwns ==
  ASSUME LineInv, NEW w \in Workers, pc[w] \in InCollect
  PROVE  /\ req[w] \in Requests /\ req[w] < nextReq
         /\ \A v \in Workers : v # w => pc[v] \notin InCollect /\ req[v] # req[w]
<1>1. TypeOK /\ IdsFresh /\ pc[w] # "idle"
  BY DEF LineInv, InCollect
<1>2. req[w] \in Requests /\ req[w] # 0 /\ collectMu = w
  BY <1>1 DEF TypeOK
<1>3. \A v \in Workers : v # w => pc[v] \notin InCollect
  BY <1>1, <1>2 DEF TypeOK
<1>. QED
  BY <1>1, <1>2, <1>3 DEF IdsFresh

\* A request joins the line behind the stop of every earlier call whose task is
\* live and not abandoned.
LEMMA ExchangeEnqueueKeeps ==
  ASSUME LineInv, TypeOK', NEW w \in Workers, ExchangeEnqueue(w)
  PROVE  LineInv'
<1>0. PICK q : q = req[w]
  OBVIOUS
<1> DEFINE m == [kind |-> "request", req |-> q]
<1>1. /\ pc[w] = "enqueue" /\ pc' = [pc EXCEPT ![w] = "wait"] /\ workQueue' = Append(workQueue, m)
      /\ UNCHANGED <<req, nextReq, wire, tasks, abandoned>>
      /\ TypeOK /\ pc[w] \in InCollect
      /\ pc \in [Workers -> InCollect \cup {"idle", "mutex", "returned", "analyze"}]
  BY <1>0 DEF ExchangeEnqueue, LineInv, TypeOK, outside, InCollect
<1>2. /\ q \in Requests /\ q < nextReq
      /\ \A v \in Workers : v # w => pc[v] \notin InCollect /\ req[v] # q
  BY <1>0, <1>1, CallOwns
<1>3. Quiet(q)
  BY <1>0, <1>1 DEF LineInv, CallsFresh
<1>4. m \in Message /\ m.kind = "request" /\ m.req = q
  BY <1>2 DEF Message
<1> HIDE DEF m
<1>5. /\ Len(Line) \in Nat /\ Len(Line') = Len(Line) + 1 /\ Len(Line) + 1 \in 1..Len(Line')
      /\ Line'[Len(Line) + 1] = m
      /\ \A k \in 1..Len(Line) : k \in 1..Len(Line') /\ Line'[k] = Line[k]
      /\ \A k \in 1..Len(Line') : k \in 1..Len(Line) \/ k = Len(Line) + 1
  BY <1>1, <1>4, AppendFacts
<1>6. \A k \in 1..Len(Line) : Line[k].req # q
  BY <1>3 DEF Quiet
<1>7. RequestsFirst'
  <2> SUFFICES ASSUME NEW j \in 1..Len(Line'), NEW k \in 1..Len(Line'),
                      Line'[j].kind = "request", Line'[k].kind = "stop",
                      Line'[j].req = Line'[k].req
               PROVE  j < k
    BY DEF RequestsFirst
  <2>1. k \in 1..Len(Line) /\ Line'[k] = Line[k]
    BY <1>4, <1>5
  <2>2. j \in 1..Len(Line) /\ Line'[j] = Line[j]
    BY <1>4, <1>5, <1>6, <2>1
  <2>. QED
    BY <2>1, <2>2 DEF LineInv, RequestsFirst
<1>8. \A r : StopUnderWay(r)' <=> StopUnderWay(r)
  BY <1>4, <1>5 DEF StopUnderWay, At
<1>9. \A r : r # q => (Live(r)' <=> Live(r)) /\ (Quiet(r) => Quiet(r)')
  BY <1>1, <1>4, <1>5 DEF Live, Quiet, At
<1>10. IdsFresh'
  <2>1. \A r \in Requests : r >= nextReq => r # q
    BY <1>2 DEF Requests, LineInv, TypeOK
  <2>. QED
    BY <1>1, <1>9, <2>1 DEF LineInv, IdsFresh
<1>11. CallsFresh'
  <2> SUFFICES ASSUME NEW v \in Workers
               PROVE  /\ pc'[v] \in {"mutex", "exchange", "enqueue"} => Quiet(req[v])'
                      /\ pc'[v] \in {"wait", "reply", "receive", "stop"} => ~StopUnderWay(req[v])'
    BY <1>1 DEF CallsFresh
  <2>1. CASE v = w
    <3>1. ~StopUnderWay(q)
      BY <1>6 DEF StopUnderWay, At
    <3>. QED
      BY <1>0, <1>1, <1>8, <2>1, <3>1
  <2>2. CASE v # w
    BY <1>1, <1>2, <1>8, <1>9, <2>2 DEF LineInv, CallsFresh
  <2>. QED
    BY <2>1, <2>2
<1>12. \A r : InCall(r)' <=> InCall(r)
  BY <1>1 DEF InCall, InCollect
<1>13. InCall(q)
  BY <1>0, <1>1 DEF InCall
<1>14. LiveAccounted'
  BY <1>1, <1>8, <1>9, <1>12, <1>13 DEF LineInv, LiveAccounted
<1>15. ASSUME NEW r \in Requests \ abandoned, r # q, Live(r) PROVE EndsBefore(r, q)'
  <2>1. ~InCall(r)
    BY <1>0, <1>1, <1>2, <1>15 DEF InCall
  <2>2. StopUnderWay(r)
    BY <1>15, <2>1 DEF LineInv, LiveAccounted
  <2>3. PICK k \in 1..Len(Line) : At(k, "stop", r)
    BY <2>2 DEF StopUnderWay
  <2>4. k \in 1..Len(Line') /\ At(k, "stop", r)'
    BY <1>5, <2>3 DEF At
  <2>5. ASSUME NEW i \in 1..Len(Line'), At(i, "request", q)' PROVE k < i
    <3>1. i = Len(Line) + 1
      BY <1>5, <1>6, <2>5 DEF At
    <3>. QED
      BY <1>5, <2>3, <3>1
  <2>6. tasks'[q] # "running"
    BY <1>1, <1>3 DEF Quiet
  <2>. QED
    BY <2>4, <2>5, <2>6 DEF EndsBefore
<1>16. ASSUME NEW r, NEW s, s # q, EndsBefore(r, s) PROVE EndsBefore(r, s)'
  <2>1. PICK k \in 1..Len(Line) :
            At(k, "stop", r) /\ \A i \in 1..Len(Line) : At(i, "request", s) => k < i
    BY <1>16 DEF EndsBefore
  <2>2. k \in 1..Len(Line') /\ At(k, "stop", r)'
    BY <1>5, <2>1 DEF At
  <2>3. \A i \in 1..Len(Line') : At(i, "request", s)' => i \in 1..Len(Line) /\ At(i, "request", s)
    BY <1>4, <1>5, <1>16 DEF At
  <2>. QED
    BY <1>1, <1>16, <2>1, <2>2, <2>3 DEF EndsBefore
<1>17. InTurn'
  <2> SUFFICES ASSUME NEW r \in Requests \ abandoned, NEW s \in Requests \ abandoned,
                      r # s, Live(r)', Live(s)'
               PROVE  EndsBefore(r, s)' \/ EndsBefore(s, r)'
    BY <1>1 DEF InTurn
  <2>1. CASE r # q /\ s # q
    BY <1>9, <1>16, <2>1 DEF LineInv, InTurn
  <2>2. CASE r = q \/ s = q
    BY <1>9, <1>15, <2>2
  <2>. QED
    BY <2>1, <2>2
<1>. QED
  BY <1>7, <1>10, <1>11, <1>14, <1>17 DEF LineInv

\* TASK_STOP joins the line behind everything else that concerns its task.
LEMMA SendStopKeeps ==
  ASSUME LineInv, TypeOK', NEW w \in Workers, SendStop(w), CanStop(w)
  PROVE  LineInv'
<1>0. PICK q : q = req[w]
  OBVIOUS
<1> DEFINE m == [kind |-> "stop", req |-> q]
<1>1. /\ pc[w] = "stop" /\ pc' = [pc EXCEPT ![w] = "returned"] /\ workQueue' = Append(workQueue, m)
      /\ UNCHANGED <<req, nextReq, wire, tasks, abandoned>>
      /\ TypeOK /\ pc[w] \in InCollect
      /\ pc \in [Workers -> InCollect \cup {"idle", "mutex", "returned", "analyze"}]
  BY <1>0 DEF SendStop, LineInv, TypeOK, outside, InCollect
<1>2. /\ q \in Requests /\ q < nextReq
      /\ \A v \in Workers : v # w => pc[v] \notin InCollect /\ req[v] # q
  BY <1>0, <1>1, CallOwns
<1>4. m \in Message /\ m.kind = "stop" /\ m.req = q
  BY <1>2 DEF Message
<1> HIDE DEF m
<1>5. /\ Len(Line) \in Nat /\ Len(Line') = Len(Line) + 1 /\ Len(Line) + 1 \in 1..Len(Line')
      /\ Line'[Len(Line) + 1] = m
      /\ \A k \in 1..Len(Line) : k \in 1..Len(Line') /\ Line'[k] = Line[k]
      /\ \A k \in 1..Len(Line') : k \in 1..Len(Line) \/ k = Len(Line) + 1
  BY <1>1, <1>4, AppendFacts
<1>7. RequestsFirst'
  <2> SUFFICES ASSUME NEW j \in 1..Len(Line'), NEW k \in 1..Len(Line'),
                      Line'[j].kind = "request", Line'[k].kind = "stop",
                      Line'[j].req = Line'[k].req
               PROVE  j < k
    BY DEF RequestsFirst
  <2>1. j \in 1..Len(Line) /\ Line'[j] = Line[j]
    BY <1>4, <1>5
  <2>2. CASE k \in 1..Len(Line)
    BY <1>5, <2>1, <2>2 DEF LineInv, RequestsFirst
  <2>3. CASE k = Len(Line) + 1
    BY <1>5, <2>1, <2>3
  <2>. QED
    BY <1>5, <2>2, <2>3
<1>8. \A r : /\ StopUnderWay(r) => StopUnderWay(r)'
             /\ r # q => (StopUnderWay(r)' => StopUnderWay(r))
  BY <1>4, <1>5 DEF StopUnderWay, At
<1>9. \A r : /\ Live(r)' => Live(r)
             /\ r # q => (Quiet(r) => Quiet(r)')
  BY <1>1, <1>4, <1>5 DEF Live, Quiet, At
<1>10. StopUnderWay(q)'
  BY <1>4, <1>5 DEF StopUnderWay, At
<1>11. IdsFresh'
  <2>1. \A r \in Requests : r >= nextReq => r # q
    BY <1>2 DEF Requests, LineInv, TypeOK
  <2>. QED
    BY <1>1, <1>9, <2>1 DEF LineInv, IdsFresh
<1>12. CallsFresh'
  BY <1>0, <1>1, <1>2, <1>8, <1>9 DEF LineInv, CallsFresh
<1>13. \A r : InCall(r) => r = q \/ InCall(r)'
  BY <1>0, <1>1 DEF InCall
<1>14. LiveAccounted'
  BY <1>1, <1>8, <1>9, <1>10, <1>13 DEF LineInv, LiveAccounted
<1>15. ASSUME NEW r, NEW s, EndsBefore(r, s) PROVE EndsBefore(r, s)'
  <2>1. PICK k \in 1..Len(Line) :
            At(k, "stop", r) /\ \A i \in 1..Len(Line) : At(i, "request", s) => k < i
    BY <1>15 DEF EndsBefore
  <2>2. k \in 1..Len(Line') /\ At(k, "stop", r)'
    BY <1>5, <2>1 DEF At
  <2>3. \A i \in 1..Len(Line') : At(i, "request", s)' => i \in 1..Len(Line) /\ At(i, "request", s)
    BY <1>4, <1>5 DEF At
  <2>. QED
    BY <1>1, <1>15, <2>1, <2>2, <2>3 DEF EndsBefore
<1>16. InTurn'
  BY <1>1, <1>9, <1>15 DEF LineInv, InTurn
<1>. QED
  BY <1>7, <1>11, <1>12, <1>14, <1>16 DEF LineInv

LEMMA LineInvariant == Spec => []LineInv
<1>1. LineInv /\ TypeOK' /\ [Next]_vars => LineInv'
  <2> SUFFICES ASSUME LineInv, TypeOK', [Next]_vars PROVE LineInv'
    OBVIOUS
  <2>1. CASE \/ CtorReturns \/ ConnectionOpen \/ ReceiverOpen \/ UNCHANGED vars
             \/ \E m \in Response : OnMessage(m)
    <3>1. UNCHANGED <<calls, wire, workQueue, tasks, abandoned>>
      BY <2>1 DEF CtorReturns, ConnectionOpen, ReceiverOpen, OnMessage, vars, calls, outside
    <3>. QED
      BY <3>1, OutsideKeeps
  <2>2. CASE Destroy
    <3>1. /\ ConnectionLost /\ UNCHANGED <<calls, tasks>>
          /\ constructed' = "destroyed" /\ workQueue' = <<>>
      BY <2>2 DEF Destroy
    <3>. QED
      BY <3>1, ConnectionLostKeeps
  <2>3. CASE TransportError
    <3>1. ConnectionLost /\ UNCHANGED <<calls, tasks>> /\ UNCHANGED workQueue
      BY <2>3 DEF TransportError
    <3>. QED
      BY <3>1, ConnectionLostKeeps
  <2>4. CASE RunWork
    BY <2>4, RunWorkKeeps
  <2>5. CASE ControllerTakes
    BY <2>5, ControllerTakesKeeps
  <2>6. CASE \E r \in Requests : TaskExpires(r)
    BY <2>6, TaskExpiresKeeps
  <2>7. ASSUME NEW w \in Workers, CallCollect(w) PROVE LineInv'
    BY <2>7, CallCollectKeeps
  <2>8. ASSUME NEW w \in Workers, WorkerStep(w) PROVE LineInv'
    BY <2>8, InsideKeeps, OverKeeps, ExchangeEnqueueKeeps, SendStopKeeps DEF WorkerStep
  <2>. QED
    BY <2>1, <2>2, <2>3, <2>4, <2>5, <2>6, <2>7, <2>8 DEF Next
<1>. QED
  BY <1>1, CollectorTypeOK, InitLineInv, PTL DEF Spec

\* A task runs on its own unless it was given up: of two requests that are not
\* abandoned, the first one's stop is before the other one in the line.
THEOREM OneTaskAtATime == Spec => []OneTaskUnlessAbandoned
<1>1. LineInv => OneTaskUnlessAbandoned
  BY DEF LineInv, InTurn, OneTaskUnlessAbandoned, Running, Live, EndsBefore
<1>. QED
  BY <1>1, LineInvariant, PTL

\* No task of ours is left running that nobody will stop: the call is still
\* inside collect(), the TASK_STOP is on its way, or the request is abandoned.
THEOREM TasksAreAccounted == Spec => []TasksAccounted
<1>1. ASSUME LineInv, NEW r, StopUnderWay(r) PROVE r \in Stops(workQueue) \cup Stops(wire)
  <2>1. PICK k \in 1..Len(Line) : At(k, "stop", r)
    BY <1>1 DEF StopUnderWay
  <2>2. TypeOK /\ wire \in Seq(Sent) /\ workQueue \in Seq(Message)
    BY <1>1 DEF LineInv, TypeOK
  <2>3. CASE k \in 1..Len(wire)
    <3>1. wire[k].kind = "stop" /\ wire[k].req = r
      BY <2>1, <2>2, <2>3, LineFacts DEF At
    <3>. QED
      BY <2>2, <2>3, <3>1, StopsFacts
  <2>4. CASE k \in (Len(wire) + 1)..Len(Line)
    <3>1. /\ k - Len(wire) \in 1..Len(workQueue)
          /\ workQueue[k - Len(wire)].kind = "stop" /\ workQueue[k - Len(wire)].req = r
      BY <2>1, <2>2, <2>4, LineFacts DEF At
    <3>. QED
      BY <2>2, <3>1, StopsFacts
  <2>. QED
    BY <2>2, <2>3, <2>4, LineFacts
<1>2. LineInv => TasksAccounted
  <2> SUFFICES ASSUME LineInv, NEW r \in Running, r \notin abandoned
               PROVE  r \in Stops(workQueue) \cup Stops(wire) \/ InCall(r)
    BY DEF TasksAccounted, InCall
  <2>1. r \in Requests /\ Live(r)
    BY DEF Running, Live
  <2>2. StopUnderWay(r) \/ InCall(r)
    BY <2>1 DEF LineInv, LiveAccounted
  <2>. QED
    BY <1>1, <2>2
<1>. QED
  BY <1>2, LineInvariant, PTL

=============================================================================
