---------------------- MODULE ServicePublisher_proofs ----------------------
(***************************************************************************)
(* Theorems about ServicePublisher for every number of workers, buckets,   *)
(* handlers and messages.                                                  *)
(***************************************************************************)
EXTENDS ServicePublisher, TLAPS

-----------------------------------------------------------------------------
(* Type correctness. *)

LEMMA InitTypeOK == Init => TypeOK
<1> SUFFICES ASSUME Init PROVE TypeOK
  OBVIOUS
<1> USE PublisherAssumption DEF PublisherAssumption, Init
<1>1. workQueue \in [Handlers -> Seq(Item)] /\ published \in Seq(Item)
  OBVIOUS
<1>2. nextResult + detections = received + 1 /\ detections \in 0..received
  OBVIOUS
<1>. QED
  BY <1>1, <1>2 DEF TypeOK

LEMMA NextTypeOK == TypeOK /\ [Next]_vars => TypeOK'
<1> SUFFICES ASSUME TypeOK, [Next]_vars PROVE TypeOK'
  OBVIOUS
<1> USE PublisherAssumption
    DEF PublisherAssumption, subVars, senderVars, amqpVars, intakeVars, workerVars, demodVars
<1>1. CASE SubCreate
  BY <1>1 DEF SubCreate, TypeOK, Handlers
<1>2. CASE RunReturns
  <2>1. handler \in Handlers
    BY <1>2 DEF RunReturns, InRun, TypeOK, Handlers
  <2>2. Range(workQueue[handler]) \subseteq Item
    BY <2>1 DEF TypeOK, Range
  <2>. QED
    BY <1>2, <2>1, <2>2 DEF RunReturns, InRun, TypeOK
<1>3. CASE ClearWorkQueue
  BY <1>3 DEF ClearWorkQueue, InRun, TypeOK
<1>4. CASE ConnectionOpen
  BY <1>4 DEF ConnectionOpen, InRun, TypeOK
<1>5. CASE PubSenderOpen
  BY <1>5 DEF PubSenderOpen, InRun, TypeOK
<1>6. CASE DemodSenderOpen
  BY <1>6 DEF DemodSenderOpen, InRun, TypeOK
<1>7. CASE TransportError
  BY <1>7 DEF TransportError, InRun, TypeOK
<1>8. CASE RunWork
  <2>1. handler \in Handlers /\ workQueue[handler] \in Seq(Item)
    BY <1>8 DEF RunWork, InRun, TypeOK, Handlers
  <2>2. Head(workQueue[handler]) \in Item /\ Tail(workQueue[handler]) \in Seq(Item)
    BY <1>8, <2>1 DEF RunWork
  <2>3. workQueue' \in [Handlers -> Seq(Item)]
    BY <1>8, <2>1, <2>2 DEF RunWork, TypeOK
  <2>4. published' \in Seq(Item)
    <3>1. published \in Seq(Item)
      BY DEF TypeOK
    <3>2. published' = published \/ published' = Append(published, Head(workQueue[handler]))
      BY <1>8 DEF RunWork
    <3>. QED
      BY <2>2, <3>1, <3>2
  <2>5. lost' \subseteq Item
    BY <1>8, <2>2 DEF RunWork, TypeOK
  <2>. QED
    BY <1>8, <2>3, <2>4, <2>5 DEF RunWork, InRun, TypeOK
<1>9. CASE DetectionArrives
  BY <1>9 DEF DetectionArrives, InRun, TypeOK
<1>10. CASE CommandArrives
  <2>1. nextCommand' \in 1..(MaxCommands + 1)
    BY <1>10 DEF CommandArrives, TypeOK, Commands
  <2>2. command' \in Demod \cup {None}
    BY <1>10 DEF CommandArrives, Demod
  <2>. QED
    BY <1>10, <2>1, <2>2 DEF CommandArrives, InRun, TypeOK
<1>11. CASE ForwardDemod
  <2>1. command \in Item
    BY <1>11 DEF ForwardDemod, TypeOK, Item
  <2>2. Append(workQueue[handler], command) \in Seq(Item) \/ ~workQueueSet[handler]
    <3>1. handler \in Handlers
      BY <1>11 DEF ForwardDemod, TypeOK, Handlers
    <3>. QED
      BY <2>1, <3>1 DEF TypeOK
  <2>3. workQueue' \in [Handlers -> Seq(Item)] /\ silent' \subseteq Item
    BY <1>11, <2>1, <2>2 DEF ForwardDemod, TypeOK
  <2>. QED
    BY <1>11, <2>3 DEF ForwardDemod, TypeOK
<1>12. ASSUME NEW w \in Workers, TakeDetection(w) PROVE TypeOK'
  <2>1. /\ nextResult \in 1..MaxResults /\ nextResult' = nextResult + 1
        /\ detections' = detections - 1 /\ detections' \in 0..received
    BY <1>12 DEF TakeDetection, TypeOK
  <2>2. job' \in [Workers -> 0..(nextResult' - 1)]
    BY <1>12, <2>1 DEF TakeDetection, TypeOK
  <2>. QED
    BY <1>12, <2>1, <2>2 DEF TakeDetection, TypeOK
<1>13. ASSUME NEW w \in Workers, CacheResult(w) PROVE TypeOK'
  <2>1. job[w] \in Results
    BY <1>13 DEF CacheResult, TypeOK, Results
  <2>. QED
    BY <1>13, <2>1 DEF CacheResult, TypeOK
<1>14. ASSUME NEW w \in Workers, CopyHandler(w) PROVE TypeOK'
  <2>1. handler > 0
    BY <1>14 DEF CopyHandler, TypeOK
  <2>. QED
    BY <1>14, <2>1 DEF CopyHandler, TypeOK
<1>15. ASSUME NEW w \in Workers, PublishReady(w) PROVE TypeOK'
  <2> DEFINE item == [kind |-> "result", n |-> job[w]]
  <2>1. job[w] \in Results /\ held[w] \in Handlers
    BY <1>15 DEF PublishReady, TypeOK, Results, Handlers
  <2>2. item \in Item
    BY <2>1 DEF Item
  <2> HIDE DEF item
  <2>3. Append(workQueue[held[w]], item) \in Seq(Item)
    BY <2>1, <2>2 DEF TypeOK
  <2>4. workQueue' \in [Handlers -> Seq(Item)] /\ silent' \subseteq Item
    <3>1. \/ /\ workQueue' = [workQueue EXCEPT ![held[w]] = Append(@, item)]
             /\ silent' = silent
          \/ workQueue' = workQueue /\ silent' = silent \cup {item}
      BY <1>15 DEF PublishReady, item
    <3>2. workQueue \in [Handlers -> Seq(Item)] /\ silent \subseteq Item
      BY DEF TypeOK
    <3>. QED
      BY <2>2, <2>3, <3>1, <3>2
  <2>. QED
    BY <1>15, <2>4 DEF PublishReady, Done, TypeOK
<1>16. ASSUME NEW w \in Workers, PublishTimeout(w) PROVE TypeOK'
  <2>1. job[w] \in Results
    BY <1>16 DEF PublishTimeout, TypeOK, Results
  <2>. QED
    BY <1>16, <2>1 DEF PublishTimeout, Done, TypeOK
<1>17. CASE UNCHANGED vars
  BY <1>17 DEF vars, TypeOK
<1>. QED
  BY <1>1, <1>2, <1>3, <1>4, <1>5, <1>6, <1>7, <1>8, <1>9, <1>10, <1>11, <1>12, <1>13,
     <1>14, <1>15, <1>16, <1>17
  DEF Next, SubStep, WorkerStep

\* Every reachable state of the publisher is well typed; in particular a worker
\* holds a handler, one that was created, exactly while it publishes.
THEOREM PublisherTypeOK == Spec => []TypeOK
<1>1. Init => TypeOK
  BY InitTypeOK
<1>2. TypeOK /\ [Next]_vars => TypeOK'
  BY NextTypeOK
<1>. QED
  BY <1>1, <1>2, PTL DEF Spec

-----------------------------------------------------------------------------
(* Readiness and work queue of every handler. *)

\* Handlers not created yet have neither.
Untouched == \A g \in Handlers : g > handler => ~pubReady[g] /\ ~workQueueSet[g]

ReadyMeansQueue == \A g \in Handlers : pubReady[g] => workQueueSet[g]
OnlyDemodSilent == \A item \in silent : item.kind = "demod"
SenderInv == TypeOK /\ ReadyMeansQueue /\ OnlyDemodSilent /\ ClearedIsClean /\ Untouched

LEMMA InitSenderInv == Init => SenderInv
<1> SUFFICES ASSUME Init PROVE SenderInv
  OBVIOUS
<1>1. TypeOK
  BY InitTypeOK
<1>. QED
  BY <1>1 DEF Init, SenderInv, ReadyMeansQueue, OnlyDemodSilent, ClearedIsClean, Untouched

LEMMA NextSenderInv == SenderInv /\ [Next]_vars => SenderInv'
<1> SUFFICES ASSUME SenderInv, [Next]_vars
             PROVE  ReadyMeansQueue' /\ OnlyDemodSilent' /\ ClearedIsClean' /\ Untouched'
  BY NextTypeOK DEF SenderInv
<1> USE DEF SenderInv, ReadyMeansQueue, OnlyDemodSilent, ClearedIsClean, Untouched, Cleared
<1>1. CASE UNCHANGED <<subVars, senderVars, silent>>
  BY <1>1 DEF subVars, senderVars
<1>2. CASE SubCreate
  BY <1>2 DEF SubCreate, senderVars, TypeOK, Handlers
<1>3. CASE RunReturns
  BY <1>3 DEF RunReturns, InRun, senderVars, TypeOK
<1>4. CASE ClearWorkQueue
  BY <1>4 DEF ClearWorkQueue, TypeOK
<1>5. CASE PubSenderOpen \/ DemodSenderOpen
  <2>1. subPc = "run" /\ UNCHANGED <<subVars, silent>>
    BY <1>5 DEF PubSenderOpen, DemodSenderOpen, InRun
  <2>2. /\ workQueueSet' = [workQueueSet EXCEPT ![handler] = TRUE]
        /\ pubReady' \in {pubReady, [pubReady EXCEPT ![handler] = TRUE]}
    BY <1>5 DEF PubSenderOpen, DemodSenderOpen
  <2>3. \A g \in Handlers : g # handler =>
            workQueueSet'[g] = workQueueSet[g] /\ pubReady'[g] = pubReady[g]
    BY <2>2 DEF TypeOK
  <2>4. handler \in Handlers /\ workQueueSet'[handler]
    BY <2>1, <2>2, PublisherAssumption DEF TypeOK, Handlers, PublisherAssumption
  <2>5. \A g \in Handlers : Cleared(g)' => g < handler
    BY <2>1 DEF subVars
  <2>6. ReadyMeansQueue'
    BY <2>3, <2>4
  <2>7. ClearedIsClean' /\ Untouched'
    BY <2>1, <2>3, <2>5 DEF subVars, TypeOK, Handlers
  <2>. QED
    BY <2>1, <2>6, <2>7
<1>6. CASE ForwardDemod
  <2>1. UNCHANGED <<subVars, senderVars>>
    BY <1>6 DEF ForwardDemod
  <2>2. command.kind = "demod"
    BY <1>6 DEF ForwardDemod, TypeOK, Demod
  <2>. QED
    BY <1>6, <2>1, <2>2 DEF ForwardDemod, subVars, senderVars
<1>7. ASSUME NEW w \in Workers, PublishReady(w)
      PROVE  ReadyMeansQueue' /\ OnlyDemodSilent' /\ ClearedIsClean' /\ Untouched'
  <2>1. held[w] \in Handlers
    BY <1>7, PublisherAssumption DEF PublishReady, TypeOK, Handlers, PublisherAssumption
  <2>2. UNCHANGED silent
    BY <1>7, <2>1 DEF PublishReady
  <2>. QED
    BY <1>1, <1>7, <2>2 DEF PublishReady
<1>8. ASSUME NEW w \in Workers,
             TakeDetection(w) \/ CacheResult(w) \/ CopyHandler(w) \/ PublishTimeout(w)
      PROVE  UNCHANGED <<subVars, senderVars, silent>>
  BY <1>8 DEF TakeDetection, CacheResult, CopyHandler, PublishTimeout
<1>9. CASE \/ ConnectionOpen \/ TransportError \/ RunWork \/ DetectionArrives \/ CommandArrives
           \/ UNCHANGED vars
  BY <1>1, <1>9 DEF ConnectionOpen, TransportError, RunWork, DetectionArrives, CommandArrives, vars
<1>. QED
  BY <1>1, <1>2, <1>3, <1>4, <1>5, <1>6, <1>7, <1>8, <1>9 DEF Next, SubStep, WorkerStep

LEMMA SenderInvariant == Spec => []SenderInv
<1>1. Init => SenderInv
  BY InitSenderInv
<1>2. SenderInv /\ [Next]_vars => SenderInv'
  BY NextSenderInv
<1>. QED
  BY <1>1, <1>2, PTL DEF Spec

\* publish() never passes its wait without a work queue, so no result is
\* dropped without a word, over every reconnection and handler.
THEOREM ResultsNeverSilent == Spec => []NoResultDroppedSilently
<1>1. SenderInv => NoResultDroppedSilently
  BY DEF SenderInv, ReadyMeansQueue, OnlyDemodSilent, NoResultDroppedSilently
<1>. QED
  BY <1>1, SenderInvariant, PTL

\* A worker that still holds the handler of an ended container injects nothing
\* into it once the subscription thread has cleared it.
THEOREM ClearedQueuesRest == Spec => NothingAddedToCleared
<1> DEFINE Rests == \A g \in Handlers : Cleared(g) => workQueue'[g] = workQueue[g]
<1>1. SenderInv /\ [Next]_vars => [Rests]_vars
  <2> SUFFICES ASSUME SenderInv, Next, NEW g \in Handlers, Cleared(g)
               PROVE  workQueue'[g] = workQueue[g]
    OBVIOUS
  <2> USE DEF SenderInv, ClearedIsClean
  <2>1. ~pubReady[g] /\ (g = handler => subPc \in {"create", "over"})
    BY DEF Cleared, TypeOK, Handlers
  <2>2. CASE RunReturns \/ RunWork
    BY <2>1, <2>2 DEF RunReturns, RunWork, InRun, TypeOK
  <2>3. CASE ForwardDemod
    BY <2>1, <2>3 DEF ForwardDemod, TypeOK
  <2>4. ASSUME NEW w \in Workers, PublishReady(w) PROVE workQueue'[g] = workQueue[g]
    BY <2>1, <2>4 DEF PublishReady, TypeOK
  <2>5. ASSUME NEW w \in Workers,
               TakeDetection(w) \/ CacheResult(w) \/ CopyHandler(w) \/ PublishTimeout(w)
        PROVE  UNCHANGED workQueue
    BY <2>5 DEF TakeDetection, CacheResult, CopyHandler, PublishTimeout
  <2>6. CASE \/ SubCreate \/ ClearWorkQueue \/ ConnectionOpen \/ PubSenderOpen \/ DemodSenderOpen
             \/ TransportError \/ DetectionArrives \/ CommandArrives
    BY <2>6 DEF SubCreate, ClearWorkQueue, ConnectionOpen, PubSenderOpen, DemodSenderOpen,
                TransportError, DetectionArrives, CommandArrives
  <2>. QED
    BY <2>2, <2>3, <2>4, <2>5, <2>6 DEF Next, SubStep, WorkerStep
<1>2. Spec => [][Rests]_vars
  BY <1>1, SenderInvariant, PTL DEF Spec
<1>. QED
  BY <1>2 DEF NothingAddedToCleared

-----------------------------------------------------------------------------
(* What becomes of a result. *)

LEMMA RangeAppend ==
  ASSUME NEW S, NEW s \in Seq(S), NEW x \in S
  PROVE  Range(Append(s, x)) = Range(s) \cup {x}
<1>1. /\ Len(s) \in Nat /\ DOMAIN s = 1..Len(s) /\ DOMAIN Append(s, x) = 1..(Len(s) + 1)
      /\ Append(s, x)[Len(s) + 1] = x
      /\ \A i \in 1..Len(s) : Append(s, x)[i] = s[i]
  OBVIOUS
<1>2. \A i : i \in 1..(Len(s) + 1) <=> i \in 1..Len(s) \/ i = Len(s) + 1
  BY <1>1
<1>. QED
  BY <1>1, <1>2 DEF Range

LEMMA RangeTail ==
  ASSUME NEW S, NEW s \in Seq(S), s # <<>>
  PROVE  Range(s) = {Head(s)} \cup Range(Tail(s))
<1>1. /\ Len(s) \in Nat \ {0} /\ DOMAIN s = 1..Len(s) /\ Len(Tail(s)) = Len(s) - 1
      /\ Tail(s) \in Seq(S) /\ Head(s) = s[1] /\ \A i \in 1..(Len(s) - 1) : Tail(s)[i] = s[i + 1]
  OBVIOUS
<1>2. DOMAIN Tail(s) = 1..(Len(s) - 1)
  BY <1>1
<1>3. \A i \in 1..Len(s) : i = 1 \/ (i - 1 \in 1..(Len(s) - 1) /\ (i - 1) + 1 = i)
  BY <1>1
<1>4. 1 \in 1..Len(s) /\ \A i \in 1..(Len(s) - 1) : i + 1 \in 1..Len(s)
  BY <1>1
<1>5. \A x \in Range(s) : x \in {Head(s)} \cup Range(Tail(s))
  <2> SUFFICES ASSUME NEW i \in 1..Len(s) PROVE s[i] \in {Head(s)} \cup Range(Tail(s))
    BY <1>1 DEF Range
  <2>1. CASE i = 1
    BY <1>1, <2>1
  <2>2. CASE i - 1 \in 1..(Len(s) - 1) /\ (i - 1) + 1 = i
    <3>1. Tail(s)[i - 1] = s[i]
      BY <1>1, <2>2
    <3>. QED
      BY <1>2, <2>2, <3>1 DEF Range
  <2>. QED
    BY <1>3, <2>1, <2>2
<1>6. \A x \in {Head(s)} \cup Range(Tail(s)) : x \in Range(s)
  BY <1>1, <1>2, <1>4 DEF Range
<1>. QED
  BY <1>5, <1>6

LEMMA InHandedOver ==
  /\ \A y : y \in HandedOver <=> \/ \E h \in Handlers : y \in Range(workQueue[h])
                                \/ y \in Range(published) \cup lost
  /\ \A y : y \in HandedOver' <=> \/ \E h \in Handlers : y \in Range(workQueue'[h])
                                 \/ y \in Range(published') \cup lost'
  BY DEF HandedOver

\* Which step changes what has been handed over: the two that inject add one
\* item, and running the work or the end of run() only moves items.
LEMMA HandedOverNext ==
  ASSUME SenderInv
  PROVE  /\ ForwardDemod => HandedOver' \in {HandedOver, HandedOver \cup {command}}
         /\ \A w \in Workers : PublishReady(w) =>
                HandedOver' = HandedOver \cup {[kind |-> "result", n |-> job[w]]}
         /\ RunReturns \/ RunWork => HandedOver' = HandedOver
         /\ UNCHANGED <<workQueue, published, lost>> => HandedOver' = HandedOver
<1> USE PublisherAssumption DEF PublisherAssumption
<1>0. TypeOK /\ workQueue \in [Handlers -> Seq(Item)] /\ published \in Seq(Item)
  BY DEF SenderInv, TypeOK
<1>1. ASSUME UNCHANGED <<workQueue, published, lost>> PROVE HandedOver' = HandedOver
  <2>1. workQueue' = workQueue /\ published' = published /\ lost' = lost
    BY <1>1
  <2>2. \A y : y \in HandedOver' <=> y \in HandedOver
    BY InHandedOver, <2>1
  <2>. QED
    BY <2>2
<1>2. ASSUME NEW g \in Handlers, NEW x \in Item, UNCHANGED <<published, lost>>,
             workQueue' = [workQueue EXCEPT ![g] = Append(@, x)]
      PROVE  HandedOver' = HandedOver \cup {x}
  <2>1. Range(workQueue'[g]) = Range(workQueue[g]) \cup {x}
    BY <1>0, <1>2, RangeAppend
  <2>2. \A h \in Handlers : h # g => workQueue'[h] = workQueue[h]
    BY <1>0, <1>2
  <2>3. \A y : (\E h \in Handlers : y \in Range(workQueue'[h])) <=>
                   y = x \/ \E h \in Handlers : y \in Range(workQueue[h])
    BY <2>1, <2>2
  <2>4. published' = published /\ lost' = lost
    BY <1>2
  <2>5. \A y : y \in HandedOver' <=> y \in HandedOver \/ y = x
    BY InHandedOver, <2>3, <2>4
  <2>. QED
    BY <2>5
<1>3. ASSUME RunReturns PROVE HandedOver' = HandedOver
  <2>1. handler \in Handlers
    BY <1>0, <1>3 DEF RunReturns, InRun, TypeOK, Handlers
  <2>2. /\ \A h \in Handlers : h # handler => workQueue'[h] = workQueue[h]
        /\ workQueue'[handler] = <<>> /\ lost' = lost \cup Range(workQueue[handler])
        /\ published' = published
    BY <1>0, <1>3, <2>1 DEF RunReturns
  <2>3. Range(workQueue'[handler]) = {}
    BY <2>2 DEF Range
  <2>4. \A y : \/ y \in lost'
               \/ \E h \in Handlers : y \in Range(workQueue'[h])
               <=>
               \/ y \in lost
               \/ \E h \in Handlers : y \in Range(workQueue[h])
    BY <2>1, <2>2, <2>3
  <2>5. \A y : y \in HandedOver' <=> y \in HandedOver
    BY InHandedOver, <2>2, <2>4
  <2>. QED
    BY <2>5
<1>4. ASSUME RunWork PROVE HandedOver' = HandedOver
  <2>1. handler \in Handlers /\ workQueue[handler] \in Seq(Item) /\ workQueue[handler] # <<>>
    BY <1>0, <1>4 DEF RunWork, InRun, TypeOK, Handlers
  <2> DEFINE x == Head(workQueue[handler])
  <2>2. x \in Item
    BY <2>1
  <2>3. Range(workQueue[handler]) = {x} \cup Range(workQueue'[handler])
    <3>1. workQueue'[handler] = Tail(workQueue[handler])
      BY <1>0, <1>4, <2>1 DEF RunWork
    <3>. QED
      BY <2>1, <3>1, RangeTail
  <2>4. Range(published') \cup lost' = Range(published) \cup lost \cup {x}
    <3>1. CASE link = "open"
      <4>1. published' = Append(published, x) /\ lost' = lost
        BY <1>4, <3>1 DEF RunWork
      <4>2. Range(published') = Range(published) \cup {x}
        BY <1>0, <2>2, <4>1, RangeAppend
      <4>. QED
        BY <4>1, <4>2
    <3>2. CASE link # "open"
      BY <1>4, <3>2 DEF RunWork
    <3>. QED
      BY <3>1, <3>2
  <2>5. \A h \in Handlers : h # handler => workQueue'[h] = workQueue[h]
    BY <1>0, <1>4 DEF RunWork
  <2> HIDE DEF x
  <2>6. \A y : \/ y \in Range(published') \cup lost'
               \/ \E h \in Handlers : y \in Range(workQueue'[h])
               <=>
               \/ y \in Range(published) \cup lost
               \/ \E h \in Handlers : y \in Range(workQueue[h])
    BY <2>1, <2>3, <2>4, <2>5
  <2>7. \A y : y \in HandedOver' <=> y \in HandedOver
    BY InHandedOver, <2>6
  <2>. QED
    BY <2>7
<1>5. ASSUME ForwardDemod PROVE HandedOver' = HandedOver \/ HandedOver' = HandedOver \cup {command}
  <2>1. command \in Item /\ handler \in Handlers
    BY <1>0, <1>5 DEF ForwardDemod, TypeOK, Item, Handlers
  <2>2. CASE workQueueSet[handler]
    <3>1. /\ UNCHANGED <<published, lost>>
          /\ workQueue' = [workQueue EXCEPT ![handler] = Append(@, command)]
      BY <1>5, <2>2 DEF ForwardDemod
    <3>2. HandedOver' = HandedOver \cup {command}
      BY <1>2, <2>1, <3>1
    <3>. QED
      BY <3>2
  <2>3. CASE ~workQueueSet[handler]
    BY <1>1, <1>5, <2>3 DEF ForwardDemod
  <2>. QED
    BY <1>5, <2>1, <2>2, <2>3
<1>6. ASSUME NEW w \in Workers, PublishReady(w)
      PROVE  HandedOver' = HandedOver \cup {[kind |-> "result", n |-> job[w]]}
  <2> DEFINE x == [kind |-> "result", n |-> job[w]]
  <2>1. held[w] \in Handlers /\ job[w] \in Results /\ workQueueSet[held[w]]
    BY <1>0, <1>6 DEF PublishReady, TypeOK, Handlers, Results, SenderInv, ReadyMeansQueue
  <2>2. x \in Item
    BY <2>1 DEF Item
  <2>. QED
    BY <1>2, <1>6, <2>1, <2>2 DEF PublishReady
<1>. QED
  BY <1>1, <1>3, <1>4, <1>5, <1>6

\* Whatever was injected or dropped has been taken up before.
AccountInv ==
    SenderInv /\ ResultsAccounted /\ Injected \cup dropped \subseteq 1..(nextResult - 1)

LEMMA InitAccountInv == Init => AccountInv
<1> SUFFICES ASSUME Init PROVE AccountInv
  OBVIOUS
<1>1. HandedOver = {}
  BY DEF Init, HandedOver, Range
<1>2. Injected = {} /\ dropped = {} /\ nextResult = 1 /\ \A w \in Workers : job[w] = 0
  BY <1>1 DEF Injected, Init
<1>. QED
  BY <1>2, InitSenderInv DEF AccountInv, ResultsAccounted

LEMMA NextAccountInv == AccountInv /\ [Next]_vars => AccountInv'
<1> SUFFICES ASSUME AccountInv, [Next]_vars
             PROVE  ResultsAccounted' /\ (Injected \cup dropped \subseteq 1..(nextResult - 1))'
  BY NextSenderInv DEF AccountInv
<1> USE DEF ResultsAccounted
<1>0. /\ SenderInv /\ TypeOK /\ ResultsAccounted
      /\ Injected \cup dropped \subseteq 1..(nextResult - 1)
      /\ nextResult \in Nat /\ nextResult > 0 /\ job \in [Workers -> 0..(nextResult - 1)]
  BY DEF AccountInv, SenderInv, TypeOK
<1>1. ASSUME UNCHANGED <<Injected, job, nextResult, dropped>>
      PROVE  ResultsAccounted' /\ (Injected \cup dropped \subseteq 1..(nextResult - 1))'
  BY <1>0, <1>1
<1>2. HandedOver' = HandedOver => Injected' = Injected
  BY DEF Injected
<1>3. CASE ForwardDemod
  <2>1. command.kind = "demod"
    BY <1>0, <1>3 DEF ForwardDemod, TypeOK, Demod
  <2>2. HandedOver' = HandedOver \/ HandedOver' = HandedOver \cup {command}
    BY <1>0, <1>3, HandedOverNext
  <2>3. Injected' = Injected
    BY <1>2, <2>1, <2>2 DEF Injected
  <2>. QED
    BY <1>1, <1>3, <2>3 DEF ForwardDemod, workerVars
<1>4. ASSUME NEW w \in Workers, PublishReady(w)
      PROVE  ResultsAccounted' /\ (Injected \cup dropped \subseteq 1..(nextResult - 1))'
  <2>1. /\ job' = [job EXCEPT ![w] = 0] /\ UNCHANGED <<nextResult, dropped>>
        /\ job[w] \in 1..(nextResult - 1)
    BY <1>0, <1>4 DEF PublishReady, Done, TypeOK
  <2> DEFINE item == [kind |-> "result", n |-> job[w]]
  <2>2. HandedOver' = HandedOver \cup {item}
    BY <1>0, <1>4, HandedOverNext
  <2>3. item.kind = "result" /\ item.n = job[w]
    OBVIOUS
  <2> HIDE DEF item
  <2>4. Injected' = Injected \cup {job[w]}
    BY <2>2, <2>3 DEF Injected
  <2>5. \A v \in Workers : v # w => job'[v] = job[v] /\ job[v] # job[w]
    BY <1>0, <2>1
  <2>6. job'[w] = 0
    BY <1>0, <2>1
  <2>7. 1..(nextResult' - 1) \subseteq (Injected \cup dropped \cup {job[v] : v \in Workers})'
    <3> SUFFICES ASSUME NEW r \in 1..(nextResult - 1), r \notin Injected \cup dropped, r # job[w]
                 PROVE  \E v \in Workers : job'[v] = r
      BY <2>1, <2>4
    <3>1. PICK v \in Workers : job[v] = r
      BY <1>0
    <3>. QED
      BY <2>5, <3>1
  <2>. QED
    BY <1>0, <2>1, <2>4, <2>5, <2>6, <2>7
<1>5. ASSUME NEW w \in Workers, PublishTimeout(w)
      PROVE  ResultsAccounted' /\ (Injected \cup dropped \subseteq 1..(nextResult - 1))'
  <2>1. /\ job' = [job EXCEPT ![w] = 0] /\ dropped' = dropped \cup {job[w]}
        /\ UNCHANGED <<nextResult, workQueue, published, lost>>
        /\ job[w] \in 1..(nextResult - 1)
    BY <1>0, <1>5 DEF PublishTimeout, Done, TypeOK
  <2>2. Injected' = Injected
    BY <1>0, <1>2, <2>1, HandedOverNext
  <2>5. \A v \in Workers : v # w => job'[v] = job[v] /\ job[v] # job[w]
    BY <1>0, <2>1
  <2>6. job'[w] = 0
    BY <1>0, <2>1
  <2>7. 1..(nextResult' - 1) \subseteq (Injected \cup dropped \cup {job[v] : v \in Workers})'
    <3> SUFFICES ASSUME NEW r \in 1..(nextResult - 1), r \notin Injected \cup dropped, r # job[w]
                 PROVE  \E v \in Workers : job'[v] = r
      BY <2>1, <2>2
    <3>1. PICK v \in Workers : job[v] = r
      BY <1>0
    <3>. QED
      BY <2>5, <3>1
  <2>. QED
    BY <1>0, <2>1, <2>2, <2>5, <2>6, <2>7
<1>6. ASSUME NEW w \in Workers, TakeDetection(w)
      PROVE  ResultsAccounted' /\ (Injected \cup dropped \subseteq 1..(nextResult - 1))'
  <2>1. /\ job' = [job EXCEPT ![w] = nextResult] /\ nextResult' = nextResult + 1
        /\ UNCHANGED <<dropped, workQueue, published, lost>>
        /\ job[w] = 0
    BY <1>0, <1>6 DEF TakeDetection, TypeOK
  <2>2. Injected' = Injected
    BY <1>0, <1>2, <2>1, HandedOverNext
  <2>3. \A v \in Workers : job'[v] = IF v = w THEN nextResult ELSE job[v]
    BY <1>0, <2>1
  <2>4. nextResult \notin Injected \cup dropped /\ \A v \in Workers : job[v] # nextResult
    BY <1>0
  <2>5. 1..(nextResult' - 1) \subseteq (Injected \cup dropped \cup {job[v] : v \in Workers})'
    <3> SUFFICES ASSUME NEW r \in 1..(nextResult' - 1), r \notin Injected \cup dropped
                 PROVE  \E v \in Workers : job'[v] = r
      BY <2>1, <2>2
    <3>1. CASE r = nextResult
      BY <2>3, <3>1
    <3>2. CASE r \in 1..(nextResult - 1)
      <4>1. PICK v \in Workers : job[v] = r
        BY <1>0, <3>2
      <4>2. r # 0
        BY <3>2
      <4>. QED
        BY <2>1, <2>3, <4>1, <4>2
    <3>. QED
      BY <1>0, <2>1, <3>1, <3>2
  <2>6. Injected' \cup dropped' \subseteq 1..(nextResult' - 1)
    BY <1>0, <2>1, <2>2
  <2>. QED
    BY <1>0, <2>1, <2>2, <2>3, <2>4, <2>5, <2>6
<1>7. CASE RunReturns \/ RunWork
  <2>1. Injected' = Injected
    BY <1>0, <1>2, <1>7, HandedOverNext
  <2>. QED
    BY <1>1, <1>7, <2>1 DEF RunReturns, RunWork, workerVars
<1>8. CASE UNCHANGED <<workQueue, published, lost, job, nextResult, dropped>>
  <2>1. Injected' = Injected
    BY <1>0, <1>2, <1>8, HandedOverNext
  <2>. QED
    BY <1>1, <1>8, <2>1
<1>9. ASSUME NEW w \in Workers, CacheResult(w) \/ CopyHandler(w)
      PROVE  UNCHANGED <<workQueue, published, lost, job, nextResult, dropped>>
  BY <1>9 DEF CacheResult, CopyHandler
<1>10. CASE \/ SubCreate \/ ClearWorkQueue \/ ConnectionOpen \/ PubSenderOpen \/ DemodSenderOpen
            \/ TransportError \/ DetectionArrives \/ CommandArrives \/ UNCHANGED vars
  BY <1>8, <1>10 DEF SubCreate, ClearWorkQueue, ConnectionOpen, PubSenderOpen, DemodSenderOpen,
                     TransportError, DetectionArrives, CommandArrives, vars, workerVars
<1>. QED
  BY <1>3, <1>4, <1>5, <1>6, <1>7, <1>8, <1>9, <1>10 DEF Next, SubStep, WorkerStep

\* A result that was taken up is with exactly one worker, was injected once, or
\* was dropped and reported so, over every replacement of the handler.
THEOREM ResultsAreAccounted == Spec => []ResultsAccounted
<1>1. Init => AccountInv
  BY InitAccountInv
<1>2. AccountInv /\ [Next]_vars => AccountInv'
  BY NextAccountInv
<1>3. AccountInv => ResultsAccounted
  BY DEF AccountInv
<1>. QED
  BY <1>1, <1>2, <1>3, PTL DEF Spec

-----------------------------------------------------------------------------
(* The order of the requests to the demodulator. *)

Ascending(s) ==
    \A i, j \in 1..Len(s) :
        i < j /\ s[i].kind = "demod" /\ s[j].kind = "demod" => s[i].n < s[j].n
Below(s, n) == \A i \in 1..Len(s) : s[i].kind = "demod" => s[i].n < n

LEMMA AppendInOrder ==
  ASSUME NEW s \in Seq(Item), NEW x \in Item, Ascending(s), x.kind = "demod" => Below(s, x.n)
  PROVE  Ascending(Append(s, x))
<1>1. /\ Len(s) \in Nat /\ Len(Append(s, x)) = Len(s) + 1 /\ Append(s, x)[Len(s) + 1] = x
      /\ \A i \in 1..Len(s) : Append(s, x)[i] = s[i]
  OBVIOUS
<1> DEFINE t == Append(s, x)
<1> HIDE DEF t
<1> SUFFICES ASSUME NEW i \in 1..Len(t), NEW j \in 1..Len(t),
                    i < j, t[i].kind = "demod", t[j].kind = "demod"
             PROVE  t[i].n < t[j].n
  BY DEF Ascending, t
<1>2. i \in 1..Len(s) /\ t[i] = s[i]
  BY <1>1 DEF t
<1>3. CASE j \in 1..Len(s)
  BY <1>1, <1>2, <1>3 DEF Ascending, t
<1>4. CASE j = Len(s) + 1
  BY <1>1, <1>2, <1>4 DEF Below, t
<1>. QED
  BY <1>1, <1>3, <1>4 DEF t

LEMMA AppendBelow ==
  ASSUME NEW s \in Seq(Item), NEW x \in Item, NEW n, Below(s, n), x.kind = "demod" => x.n < n
  PROVE  Below(Append(s, x), n)
<1>1. /\ Len(s) \in Nat /\ Len(Append(s, x)) = Len(s) + 1 /\ Append(s, x)[Len(s) + 1] = x
      /\ \A i \in 1..Len(s) : Append(s, x)[i] = s[i]
  OBVIOUS
<1> SUFFICES ASSUME NEW i \in 1..Len(Append(s, x)), Append(s, x)[i].kind = "demod"
             PROVE  Append(s, x)[i].n < n
  BY DEF Below
<1>2. CASE i \in 1..Len(s)
  BY <1>1, <1>2 DEF Below
<1>3. CASE i = Len(s) + 1
  BY <1>1, <1>3
<1>. QED
  BY <1>1, <1>2, <1>3

LEMMA StaysBelow ==
  ASSUME NEW s \in Seq(Item), NEW m \in Nat, NEW n \in Nat, m <= n, Below(s, m)
  PROVE  Below(s, n)
<1> SUFFICES ASSUME NEW i \in 1..Len(s), s[i].kind = "demod"
             PROVE  s[i].n < n
  BY DEF Below
<1>1. s[i] \in Item /\ s[i].n < m
  BY DEF Below
<1>2. s[i].n \in Nat
  BY <1>1 DEF Item, Demod, Results, Commands
<1>. QED
  BY <1>1, <1>2

\* What the head of a queue leaves behind is above it.
LEMMA HeadInOrder ==
  ASSUME NEW s \in Seq(Item), s # <<>>, Ascending(s), NEW n, Below(s, n)
  PROVE  /\ Ascending(Tail(s)) /\ Below(Tail(s), n)
         /\ \A i \in 1..Len(Tail(s)) : i + 1 \in 1..Len(s) /\ Tail(s)[i] = s[i + 1]
         /\ Head(s).kind = "demod" =>
               /\ Head(s).n < n
               /\ \A i \in 1..Len(Tail(s)) : Tail(s)[i].kind = "demod" => Head(s).n < Tail(s)[i].n
<1>1. /\ Len(s) \in Nat \ {0} /\ Len(Tail(s)) = Len(s) - 1 /\ Head(s) = s[1]
      /\ \A i \in 1..(Len(s) - 1) : Tail(s)[i] = s[i + 1]
  OBVIOUS
<1> DEFINE t == Tail(s)
<1>2. /\ Len(t) = Len(s) - 1
      /\ \A i \in 1..Len(t) : i + 1 \in 1..Len(s) /\ 1 < i + 1 /\ t[i] = s[i + 1]
  BY <1>1
<1> HIDE DEF t
<1>3. \A i, j \in 1..Len(t) : i < j => i + 1 < j + 1
  BY <1>1, <1>2
<1>4. Ascending(t)
  BY <1>2, <1>3 DEF Ascending
<1>5. Below(t, n)
  BY <1>2 DEF Below
<1>6. 1 \in 1..Len(s)
  BY <1>1
<1>7. Head(s).kind = "demod" => /\ Head(s).n < n
                                /\ \A i \in 1..Len(t) : t[i].kind = "demod" => Head(s).n < t[i].n
  BY <1>1, <1>2, <1>6 DEF Ascending, Below
<1>. QED
  BY <1>2, <1>4, <1>5, <1>7 DEF t

\* Requests are numbered by their commands: the ones sent, the ones injected
\* into the queue of the running container, and the one being prepared ascend.
NextNumber == IF command = None THEN nextCommand ELSE command.n
QueueInOrder(g) ==
    /\ Ascending(workQueue[g]) /\ Below(workQueue[g], NextNumber)
    /\ \A i \in 1..Len(workQueue[g]) :
          workQueue[g][i].kind = "demod" =>
              g = handler /\ subPc = "run" /\ Below(published, workQueue[g][i].n)
OrderInv ==
    /\ TypeOK
    /\ Ascending(published) /\ Below(published, NextNumber)
    /\ command # None => command.n < nextCommand
    /\ \A g \in Handlers : QueueInOrder(g)

LEMMA InitOrderInv == Init => OrderInv
<1> SUFFICES ASSUME Init PROVE OrderInv
  OBVIOUS
<1>1. Len(published) = 0 /\ \A g \in Handlers : Len(workQueue[g]) = 0
  BY DEF Init
<1>2. \A i : i \notin 1..0
  OBVIOUS
<1>3. Ascending(published) /\ Below(published, NextNumber) /\ \A g \in Handlers : QueueInOrder(g)
  BY <1>1, <1>2 DEF Ascending, Below, QueueInOrder
<1>. QED
  BY <1>3, InitTypeOK DEF OrderInv, Init

\* Only RunWork sends, and only while the container runs.
LEMMA NextOrderInv == OrderInv /\ [Next]_vars => OrderInv'
<1> SUFFICES ASSUME OrderInv, [Next]_vars
             PROVE  /\ Ascending(published)' /\ Below(published, NextNumber)'
                    /\ command' # None => command'.n < nextCommand'
                    /\ \A g \in Handlers : QueueInOrder(g)'
  BY NextTypeOK DEF OrderInv
<1> DEFINE Goal == /\ Ascending(published)' /\ Below(published, NextNumber)'
                   /\ command' # None => command'.n < nextCommand'
                   /\ \A g \in Handlers : QueueInOrder(g)'
<1> HIDE DEF Goal
<1> SUFFICES Goal
  BY DEF Goal
<1> USE PublisherAssumption DEF PublisherAssumption
<1>0. /\ TypeOK /\ workQueue \in [Handlers -> Seq(Item)] /\ published \in Seq(Item)
      /\ nextCommand \in Nat /\ command \in Demod \cup {None}
  BY DEF OrderInv, TypeOK
<1>1. NextNumber \in Nat /\ NextNumber <= nextCommand
  BY <1>0 DEF NextNumber, OrderInv, Demod, Commands
<1>2. ASSUME UNCHANGED <<published, demodVars>>
      PROVE  /\ Ascending(published)' /\ Below(published, NextNumber)'
             /\ command' # None => command'.n < nextCommand'
             /\ NextNumber' = NextNumber
  <2>1. UNCHANGED <<published, nextCommand, command>>
    BY <1>2 DEF demodVars
  <2>. QED
    BY <2>1 DEF OrderInv, NextNumber, Ascending, Below
<1>3. ASSUME NEW g \in Handlers, UNCHANGED <<published, demodVars>>, workQueue'[g] = workQueue[g],
             UNCHANGED subVars \/ \A i \in 1..Len(workQueue[g]) : workQueue[g][i].kind # "demod"
      PROVE  QueueInOrder(g)'
  <2>1. NextNumber' = NextNumber /\ published' = published
    BY <1>2, <1>3
  <2>2. QueueInOrder(g)
    BY DEF OrderInv
  <2>3. Ascending(workQueue[g])' /\ Below(workQueue[g], NextNumber)'
    BY <1>3, <2>1, <2>2 DEF QueueInOrder, Ascending, Below
  <2>4. ASSUME NEW i \in 1..Len(workQueue'[g]), workQueue'[g][i].kind = "demod"
        PROVE  g = handler' /\ subPc' = "run" /\ Below(published', workQueue'[g][i].n)
    BY <1>3, <2>1, <2>2, <2>4 DEF QueueInOrder, subVars
  <2>. QED
    BY <2>3, <2>4 DEF QueueInOrder
<1>4. CASE UNCHANGED <<published, workQueue, demodVars, subVars>>
  BY <1>2, <1>3, <1>4 DEF Goal
<1>5. CASE SubCreate \/ ClearWorkQueue
  <2>1. subPc # "run" /\ UNCHANGED <<published, workQueue, demodVars>>
    BY <1>5 DEF SubCreate, ClearWorkQueue
  <2>2. \A g \in Handlers : \A i \in 1..Len(workQueue[g]) : workQueue[g][i].kind # "demod"
    BY <2>1 DEF OrderInv, QueueInOrder
  <2>. QED
    BY <1>2, <1>3, <2>1, <2>2 DEF Goal
<1>6. ASSUME NEW g \in Handlers, g # handler
      PROVE  \A i \in 1..Len(workQueue[g]) : workQueue[g][i].kind # "demod"
  BY <1>6 DEF OrderInv, QueueInOrder
<1>7. PICK h : h = handler
  OBVIOUS
<1>8. CASE RunReturns
  <2>1. /\ UNCHANGED <<published, demodVars, handler>> /\ h \in Handlers
        /\ workQueue' = [workQueue EXCEPT ![h] = <<>>]
    BY <1>0, <1>7, <1>8 DEF RunReturns, InRun, TypeOK, Handlers
  <2>2. Len(workQueue'[h]) = 0
    BY <1>0, <2>1
  <2>3. \A i : i \notin 1..0
    OBVIOUS
  <2>4. QueueInOrder(h)'
    BY <2>2, <2>3 DEF QueueInOrder, Ascending, Below
  <2>5. \A g \in Handlers : g # h => workQueue'[g] = workQueue[g]
    BY <1>0, <2>1
  <2>. QED
    BY <1>2, <1>3, <1>6, <1>7, <2>1, <2>4, <2>5 DEF Goal
<1>9. CASE RunWork
  <2>1. /\ h \in Handlers /\ workQueue[h] \in Seq(Item) /\ workQueue[h] # <<>>
        /\ workQueue' = [workQueue EXCEPT ![h] = Tail(workQueue[h])]
        /\ UNCHANGED <<subVars, demodVars>>
        /\ published' \in {published, Append(published, Head(workQueue[h]))}
    BY <1>0, <1>7, <1>9 DEF RunWork, InRun, TypeOK, Handlers
  <2> DEFINE m == Head(workQueue[h])
             q == workQueue[h]
             t == Tail(workQueue[h])
  <2>2. m \in Item /\ Ascending(q) /\ Below(q, NextNumber) /\ q \in Seq(Item) /\ q # <<>>
    BY <2>1 DEF OrderInv, QueueInOrder
  <2>3. workQueue'[h] = t /\ \A g \in Handlers : g # h => workQueue'[g] = workQueue[g]
    BY <1>0, <2>1
  <2>4. /\ Ascending(t) /\ Below(t, NextNumber)
        /\ \A i \in 1..Len(t) : i + 1 \in 1..Len(q) /\ t[i] = q[i + 1]
        /\ m.kind = "demod" =>
              m.n < NextNumber /\ \A i \in 1..Len(t) : t[i].kind = "demod" => m.n < t[i].n
    BY <2>2, HeadInOrder
  <2>5. m.kind = "demod" => Below(published, m.n)
    <3>1. 1 \in 1..Len(q) /\ m = q[1]
      BY <2>2
    <3>. QED
      BY <2>1, <3>1 DEF OrderInv, QueueInOrder
  <2>6. NextNumber' = NextNumber /\ nextCommand' = nextCommand /\ command' = command
        /\ subPc' = subPc /\ handler' = handler
    BY <2>1 DEF demodVars, subVars, NextNumber
  <2>7. Ascending(published) /\ Below(published, NextNumber)
    BY DEF OrderInv
  <2> HIDE DEF m, t
  <2>8. Ascending(published')
    BY <1>0, <2>1, <2>2, <2>5, <2>7, AppendInOrder DEF m
  <2>9. Below(published', NextNumber)
    BY <1>0, <2>1, <2>2, <2>4, <2>7, AppendBelow DEF m
  <2>10. ASSUME NEW i \in 1..Len(t), t[i].kind = "demod"
         PROVE  h = handler /\ subPc = "run" /\ Below(published', t[i].n)
    <3>1. i + 1 \in 1..Len(q) /\ t[i] = q[i + 1]
      BY <2>4
    <3>2. h = handler /\ subPc = "run" /\ Below(published, t[i].n)
      BY <2>1, <2>10, <3>1 DEF OrderInv, QueueInOrder
    <3>3. m.kind = "demod" => m.n < t[i].n
      BY <2>4, <2>10
    <3>4. Below(published', t[i].n)
      BY <1>0, <2>1, <2>2, <3>2, <3>3, AppendBelow DEF m
    <3>. QED
      BY <3>2, <3>4
  <2>11. QueueInOrder(h)'
    BY <2>3, <2>4, <2>6, <2>10 DEF QueueInOrder, Ascending, Below
  <2>12. ASSUME NEW g \in Handlers, g # h PROVE QueueInOrder(g)'
    <3>1. workQueue'[g] = workQueue[g] /\ \A i \in 1..Len(workQueue[g]) : workQueue[g][i].kind # "demod"
      BY <1>6, <1>7, <2>3, <2>12
    <3>. QED
      BY <2>6, <3>1 DEF QueueInOrder, Ascending, Below
  <2>13. Ascending(published)' /\ Below(published, NextNumber)'
    BY <2>6, <2>8, <2>9 DEF Ascending, Below
  <2>14. command' # None => command'.n < nextCommand'
    BY <2>6 DEF OrderInv
  <2>. QED
    BY <2>11, <2>12, <2>13, <2>14 DEF Goal
<1>10. ASSUME UNCHANGED published, NextNumber' \in Nat, NextNumber <= NextNumber'
       PROVE  /\ Ascending(published)' /\ Below(published, NextNumber)'
              /\ \A g \in Handlers : workQueue'[g] = workQueue[g] /\ UNCHANGED subVars
                                        => QueueInOrder(g)'
  <2>1. Ascending(published) /\ Below(published, NextNumber)
    BY DEF OrderInv
  <2>2. Below(published, NextNumber')
    BY <1>0, <1>1, <1>10, <2>1, StaysBelow
  <2>3. ASSUME NEW g \in Handlers, workQueue'[g] = workQueue[g], UNCHANGED subVars
        PROVE  QueueInOrder(g)'
    <3>1. QueueInOrder(g) /\ workQueue[g] \in Seq(Item)
      BY <1>0 DEF OrderInv
    <3>2. Below(workQueue[g], NextNumber')
      BY <1>1, <1>10, <3>1, StaysBelow DEF QueueInOrder
    <3>. QED
      BY <1>10, <2>3, <3>1, <3>2 DEF QueueInOrder, Ascending, Below, subVars
  <2>. QED
    BY <1>10, <2>1, <2>2, <2>3 DEF Ascending, Below
<1>11. CASE CommandArrives
  <2>1. /\ UNCHANGED <<published, workQueue, subVars>> /\ command = None
        /\ nextCommand' = nextCommand + 1
        /\ command' # None => command'.n = nextCommand
    BY <1>11 DEF CommandArrives, InRun
  <2>2. NextNumber = nextCommand /\ NextNumber' \in {nextCommand, nextCommand + 1}
    BY <2>1 DEF NextNumber
  <2>3. NextNumber' \in Nat /\ NextNumber <= NextNumber'
    BY <1>0, <2>2
  <2>4. command' # None => command'.n < nextCommand'
    BY <1>0, <2>1
  <2>. QED
    BY <1>10, <2>1, <2>3, <2>4 DEF Goal
<1>12. CASE ForwardDemod
  <2>1. /\ command # None /\ command' = None /\ UNCHANGED <<published, nextCommand, subVars>>
        /\ h \in Handlers /\ subPc = "run"
        /\ workQueue' \in {workQueue, [workQueue EXCEPT ![h] = Append(workQueue[h], command)]}
    BY <1>0, <1>7, <1>12 DEF ForwardDemod, TypeOK, Handlers
  <2>2. PICK c \in Demod : c = command
    BY <1>0, <2>1
  <2>3. NextNumber = c.n /\ NextNumber' = nextCommand /\ c.n < nextCommand /\ c.kind = "demod"
        /\ c \in Item
    BY <2>1, <2>2 DEF NextNumber, OrderInv, Demod, Item
  <2>4. NextNumber' \in Nat /\ NextNumber <= NextNumber'
    BY <1>0, <1>1, <2>3
  <2>5. \A g \in Handlers : g # h => workQueue'[g] = workQueue[g]
    BY <1>0, <2>1
  <2>6. QueueInOrder(h)'
    <3>1. CASE workQueue'[h] = workQueue[h]
      BY <1>10, <2>1, <2>4, <3>1
    <3>2. CASE workQueue'[h] = Append(workQueue[h], c)
      <4> DEFINE q == workQueue[h]
      <4>1. q \in Seq(Item) /\ Ascending(q) /\ Below(q, c.n)
        BY <1>0, <2>1, <2>3 DEF OrderInv, QueueInOrder
      <4>2. Ascending(Append(q, c))
        BY <2>3, <4>1, AppendInOrder
      <4>3. Below(q, nextCommand)
        BY <1>0, <1>1, <2>3, <2>4, <4>1, StaysBelow
      <4>4. Below(Append(q, c), nextCommand)
        BY <2>3, <4>1, <4>3, AppendBelow
      <4>5. ASSUME NEW i \in 1..Len(Append(q, c)), Append(q, c)[i].kind = "demod"
            PROVE  h = handler' /\ subPc' = "run" /\ Below(published', Append(q, c)[i].n)
        <5>1. h = handler' /\ subPc' = "run" /\ published' = published
          BY <1>7, <2>1 DEF subVars
        <5>2. \/ i \in 1..Len(q) /\ Append(q, c)[i] = q[i]
              \/ Append(q, c)[i] = c
          BY <2>3, <4>1
        <5>3. Below(published, c.n)
          BY <2>3 DEF OrderInv
        <5>. QED
          BY <2>1, <4>5, <5>1, <5>2, <5>3 DEF OrderInv, QueueInOrder
      <4> HIDE DEF q
      <4>6. workQueue'[h] = Append(q, c)
        BY <3>2 DEF q
      <4>. QED
        BY <2>3, <4>2, <4>4, <4>5, <4>6 DEF QueueInOrder, Ascending, Below
    <3>. QED
      BY <1>0, <2>1, <2>2, <3>1, <3>2
  <2>7. \A g \in Handlers : g # h => QueueInOrder(g)'
    BY <1>10, <2>1, <2>4, <2>5
  <2>8. Ascending(published)' /\ Below(published, NextNumber)'
    BY <1>10, <2>1, <2>4
  <2>. QED
    BY <2>1, <2>6, <2>7, <2>8 DEF Goal
<1>13. ASSUME NEW w \in Workers, PublishReady(w) PROVE Goal
  <2>1. /\ UNCHANGED <<published, demodVars, subVars>> /\ held[w] \in Handlers /\ job[w] \in Results
    BY <1>0, <1>13 DEF PublishReady, TypeOK, Handlers, Results
  <2>2. PICK g \in Handlers, x \in Item :
            /\ x.kind = "result"
            /\ workQueue' \in {workQueue, [workQueue EXCEPT ![g] = Append(workQueue[g], x)]}
    <3> DEFINE x == [kind |-> "result", n |-> job[w]]
    <3>1. x \in Item /\ x.kind = "result"
      BY <2>1 DEF Item
    <3>2. workQueue' \in {workQueue, [workQueue EXCEPT ![held[w]] = Append(workQueue[held[w]], x)]}
      BY <1>13 DEF PublishReady
    <3> HIDE DEF x
    <3>. QED
      BY <2>1, <3>1, <3>2
  <2>3. \A k \in Handlers : k # g => workQueue'[k] = workQueue[k]
    BY <1>0, <2>2
  <2>4. NextNumber' = NextNumber /\ published' = published /\ handler' = handler /\ subPc' = subPc
    BY <2>1 DEF NextNumber, demodVars, subVars
  <2>5. QueueInOrder(g)'
    <3>1. CASE workQueue'[g] = workQueue[g]
      BY <1>3, <2>1, <3>1
    <3>2. CASE workQueue'[g] = Append(workQueue[g], x)
      <4> DEFINE q == workQueue[g]
      <4>1. q \in Seq(Item) /\ Ascending(q) /\ Below(q, NextNumber)
        BY <1>0 DEF OrderInv, QueueInOrder
      <4>2. Ascending(Append(q, x)) /\ Below(Append(q, x), NextNumber)
        BY <2>2, <4>1, AppendInOrder, AppendBelow
      <4>3. ASSUME NEW i \in 1..Len(Append(q, x)), Append(q, x)[i].kind = "demod"
            PROVE  g = handler /\ subPc = "run" /\ Below(published, Append(q, x)[i].n)
        <5>1. \/ i \in 1..Len(q) /\ Append(q, x)[i] = q[i]
              \/ Append(q, x)[i] = x
          BY <2>2, <4>1
        <5>. QED
          BY <2>2, <4>3, <5>1 DEF OrderInv, QueueInOrder
      <4> HIDE DEF q
      <4>4. workQueue'[g] = Append(q, x)
        BY <3>2 DEF q
      <4>. QED
        BY <2>4, <4>2, <4>3, <4>4 DEF QueueInOrder, Ascending, Below
    <3>. QED
      BY <1>0, <2>2, <3>1, <3>2
  <2>. QED
    BY <1>2, <1>3, <2>1, <2>3, <2>5 DEF Goal
<1>14. ASSUME NEW w \in Workers,
              TakeDetection(w) \/ CacheResult(w) \/ CopyHandler(w) \/ PublishTimeout(w)
       PROVE  UNCHANGED <<published, workQueue, demodVars, subVars>>
  BY <1>14 DEF TakeDetection, CacheResult, CopyHandler, PublishTimeout
<1>15. CASE \/ ConnectionOpen \/ PubSenderOpen \/ DemodSenderOpen \/ TransportError
            \/ DetectionArrives \/ UNCHANGED vars
  BY <1>4, <1>15 DEF ConnectionOpen, PubSenderOpen, DemodSenderOpen, TransportError,
                     DetectionArrives, vars
<1>. QED
  BY <1>4, <1>5, <1>8, <1>9, <1>11, <1>12, <1>13, <1>14, <1>15 DEF Next, SubStep, WorkerStep

\* The demodulator never gets a request before one of an earlier command, and
\* none twice, whatever connections and containers come and go.
THEOREM DemodKeepsOrder == Spec => []DemodInOrder
<1>1. Init => OrderInv
  BY InitOrderInv
<1>2. OrderInv /\ [Next]_vars => OrderInv'
  BY NextOrderInv
<1>3. OrderInv => DemodInOrder
  <2> SUFFICES ASSUME OrderInv PROVE DemodInOrder
    OBVIOUS
  <2>1. DOMAIN published = 1..Len(published)
    BY DEF OrderInv, TypeOK
  <2>. QED
    BY <2>1 DEF OrderInv, Ascending, DemodInOrder
<1>. QED
  BY <1>1, <1>2, <1>3, PTL DEF Spec

=============================================================================
