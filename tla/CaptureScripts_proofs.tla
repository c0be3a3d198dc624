------------------------ MODULE CaptureScripts_proofs ------------------------
(***************************************************************************)
(* Proofs about the capture scripts: type correctness, that a capture      *)
(* serves the request it made, that no task runs unaccounted for, and that *)
(* quotas hold and every saved window carries the label of its target, for *)
(* every list of targets, quota and number of samples.                     *)
(*                                                                         *)
(* The argument is the life of one request.  Until it is made nothing in   *)
(* the session, the broker or the controller is about it (Fresh).  It      *)
(* leaves the outbox once, so it is decided once, so it has one answer,    *)
(* which is in one place (OneAnswer): that is why a box that says accepted *)
(* keeps saying so while its samples are received.                         *)
(*                                                                         *)
(* For the labels LabelInv says what a row of the session is: a place in   *)
(* the list of labels, each of which is there once and has a row; the      *)
(* sorted buckets of capture_rtl.py renumber them by counting.             *)
(***************************************************************************)
EXTENDS CaptureScripts, FiniteSetTheorems, TLAPS

Asking == pc \in {"wait", "collect"}

\* Nothing has been heard of the request for target t.
Unheard(t) ==
    /\ box[t] = None
    /\ \A a \in answers : a.of # t
    /\ rx # None => rx.of # t

\* The request for target t has not been made.
Fresh(t) ==
    /\ task[t] = "none"
    /\ \A k \in 1..Len(outbox) : outbox[k].of # t
    /\ t \notin gaveUp /\ t \notin lost /\ t \notin raised

FreshAhead == \A t \in Indices : t > i \/ (t = i /\ ~Asking /\ pc # "failed") => Fresh(t)

\* A request is in the outbox once, before the controller knows of it.
Pending(t) == (t = i /\ pc = "wait") \/ t \in gaveUp
SentOnce ==
    /\ \A k \in 1..Len(outbox) :
          outbox[k].type = "request" => task[outbox[k].of] = "none" /\ Pending(outbox[k].of)
    /\ \A j, k \in 1..Len(outbox) :
          outbox[j].type = "request" /\ outbox[k].type = "request" /\ outbox[j].of = outbox[k].of
          => j = k

OneAnswer ==
    /\ \A t \in Indices : task[t] \in {"none", "requested"} => Unheard(t)
    /\ \A a \in answers : box[a.of] = None /\ (rx # None => rx.of # a.of)
    /\ \A a, b \in answers : a.of = b.of => a = b
    /\ rx # None => box[rx.of] = None

\* A rejected task never ran.
RejectedRest ==
    /\ \A t \in Indices : box[t] = "rejected" => task[t] = "ended"
    /\ \A a \in answers : a.status = "rejected" => task[a.of] = "ended"
    /\ rx # None /\ rx.status = "rejected" => task[rx.of] = "ended"

Undecided == \A t \in Indices : task[t] = "requested" => Pending(t)
NothingLostYet == pc \notin {"closed", "saved", "failed"} => lost = {}
Collecting == pc = "collect" => box[i] = "accepted"

Accounted(t) ==
    \/ t = i /\ Asking
    \/ t \in gaveUp \union lost \union raised
    \/ \E k \in 1..Len(outbox) : outbox[k].type = "stop" /\ outbox[k].of = t
RunningAccounted == \A t \in Indices : task[t] = "running" => Accounted(t)

\* An exception is the last thing that happens, in the turn of an accepted task.
RaisedLast ==
    raised # {} => pc = "failed" /\ raised = {i} /\ i \in Indices /\ task[i] \in {"running", "ended"}

Bound ==
    /\ ~Asking => ~socket
    /\ script = "real" /\ Asking => socket

CaptureInv ==
    /\ TypeOK
    /\ FreshAhead /\ SentOnce /\ OneAnswer /\ RejectedRest /\ Undecided
    /\ NothingLostYet /\ RaisedLast /\ Collecting /\ RunningAccounted /\ Bound

-----------------------------------------------------------------------------
(* Types. *)

\* Targets have a label and a bound; the indices are their places in the list.
LEMMA TargetsTyped ==
    ASSUME script \in Scripts
    PROVE  /\ Targets \in Seq([label : Labels, max : Nat])
           /\ Indices = 1..Len(Targets) /\ Len(Targets) \in Nat
           /\ \A t \in Indices : Targets[t].label \in Labels /\ Targets[t].max \in Nat
<1>. DEFINE Target == [label : Labels, max : Nat]
<1>1. Targets \in Seq(Target)
  BY TargetsListed DEF TargetsListed, Targets
<1>2. \A S : \A s \in Seq(S) : Len(s) \in Nat /\ \A t \in 1..Len(s) : s[t] \in S
  OBVIOUS
<1>. HIDE DEF Target
<1>3. Len(Targets) \in Nat /\ \A t \in 1..Len(Targets) : Targets[t] \in Target
  BY <1>1, <1>2
<1>. QED
  BY <1>1, <1>3 DEF Indices, Target

\* The messages of the outbox, one by one.
LEMMA OutboxTyped ==
    ASSUME NEW s \in Seq(Messages)
    PROVE  Len(s) \in Nat /\ \A k \in 1..Len(s) :
              s[k].of \in Indices /\ s[k].type \in {"request", "stop"}
<1>1. Len(s) \in Nat /\ \A k \in 1..Len(s) : s[k] \in Messages
  OBVIOUS
<1>. QED
  BY <1>1 DEF Messages

\* A message is handed to the sender behind those that wait.
LEMMA Appended ==
    ASSUME NEW s \in Seq(Messages), NEW m \in Messages
    PROVE  /\ Append(s, m) \in Seq(Messages) /\ Len(Append(s, m)) = Len(s) + 1
           /\ Append(s, m)[Len(s) + 1] = m
           /\ \A k \in 1..Len(s) : k \in 1..Len(Append(s, m)) /\ Append(s, m)[k] = s[k]
           /\ \A k \in 1..Len(Append(s, m)) : k = Len(s) + 1 \/ k \in 1..Len(s)
  OBVIOUS

\* What a reader's range of windows can be: a number up to the quota.
LEMMA KeptBounded ==
    ASSUME NEW starts, IsFiniteSet(starts), NEW quota \in Int, NEW k \in Kept(starts, quota)
    PROVE  k \in Nat /\ k <= quota
<1>1. Cardinality(starts) \in Nat
  BY FS_CardinalityType
<1>. QED
  BY <1>1 DEF Kept, Least

\* The starts of the windows of n samples are finitely many.
LEMMA StartsFinite ==
    ASSUME NEW n \in Nat
    PROVE  IsFiniteSet(Starts(n)) /\ IsFiniteSet(RtlStarts(n))
<1>1. IsFiniteSet(0..n)
  BY FS_Interval
<1>. QED
  BY <1>1, FS_Subset DEF Starts, RtlStarts

\* Harvesting adds a number of windows to one class.
LEMMA HarvestCounts ==
    ASSUME CaptureInv, NEW label \in Labels, NEW k \in Nat, Harvest(label, k)
    PROVE  /\ counts' \in [Labels -> Nat]
           /\ counts'[label] = counts[label] + k
           /\ \A l \in Labels : l # label => counts'[l] = counts[l]
<1>1. counts \in [Labels -> Nat]
  BY DEF CaptureInv, TypeOK
<1>2. CASE k = 0
  BY <1>1, <1>2 DEF Harvest, data
<1>3. CASE k # 0
  <2>1. counts' = [counts EXCEPT ![label] = @ + k]
    BY <1>3 DEF Harvest, Add
  <2>. QED
    BY <1>1, <2>1
<1>. QED
  BY <1>2, <1>3

LEMMA InitCapture == Init => CaptureInv
<1>. SUFFICES ASSUME Init PROVE CaptureInv
  OBVIOUS
<1>. USE DEF Init
<1>1. TypeOK
  <2>1. pc \in {"connect", "next"} /\ outbox \in Seq(Messages)
    OBVIOUS
  <2>2. /\ box \in [Indices -> Statuses \union {None}]
        /\ task \in [Indices -> {"none", "requested", "running", "ended"}]
        /\ counts \in [Labels -> Nat]
    OBVIOUS
  <2>3. i \in Nat \ {0}
    BY SMT
  <2>4. /\ script \in Scripts /\ ready \in BOOLEAN /\ socket \in BOOLEAN
        /\ pending \subseteq Indices /\ gaveUp \subseteq Indices /\ lost \subseteq Indices
        /\ raised \subseteq Indices /\ rx \in Answers \union {None} /\ answers \subseteq Answers
    BY Zenon
  <2>. QED
    BY <2>1, <2>2, <2>3, <2>4 DEF TypeOK
<1>2. FreshAhead /\ SentOnce /\ OneAnswer
  BY DEF FreshAhead, Fresh, SentOnce, OneAnswer, Unheard
<1>3. RejectedRest /\ Undecided
  BY NoneApart DEF RejectedRest, Undecided, NoneApart, Statuses
<1>4. NothingLostYet /\ RaisedLast /\ Collecting /\ RunningAccounted /\ Bound
  BY DEF NothingLostYet, RaisedLast, Collecting, RunningAccounted, Bound, Asking
<1>. QED
  BY <1>1, <1>2, <1>3, <1>4 DEF CaptureInv

-----------------------------------------------------------------------------
(* The reactor and the controller. *)

LEMMA LinkedKeeps == CaptureInv /\ Linked => CaptureInv'
<1>. SUFFICES ASSUME CaptureInv, Linked PROVE CaptureInv'
  OBVIOUS
<1>. USE DEF Linked, CaptureInv, data, track, Targets, Indices
<1>1. TypeOK'
  BY DEF TypeOK, Answers, Messages
<1>2. FreshAhead' /\ SentOnce' /\ OneAnswer'
  BY DEF FreshAhead, Fresh, SentOnce, Pending, OneAnswer, Unheard, Asking
<1>3. RejectedRest' /\ Undecided'
  BY DEF RejectedRest, Undecided, Pending
<1>4. NothingLostYet' /\ RaisedLast' /\ Collecting' /\ RunningAccounted' /\ Bound'
  BY DEF NothingLostYet, RaisedLast, Collecting, RunningAccounted, Accounted, Bound, Asking
<1>. QED
  BY <1>1, <1>2, <1>3, <1>4

\* A message that leaves the outbox is not in what remains of it.
LEMMA FlushKeeps == CaptureInv /\ Flush => CaptureInv'
<1>. SUFFICES ASSUME CaptureInv, Flush PROVE CaptureInv'
  OBVIOUS
<1>. DEFINE msg == Head(outbox)
<1>0. /\ outbox \in Seq(Messages) /\ Len(outbox) \in Nat /\ Len(outbox) > 0
      /\ msg = outbox[1] /\ msg \in Messages /\ msg.of \in Indices
      /\ \A k \in 1..Len(outbox) : outbox[k].of \in Indices
      /\ outbox' \in Seq(Messages) /\ Len(outbox') = Len(outbox) - 1
      /\ \A k \in 1..Len(outbox') : k + 1 \in 1..Len(outbox) /\ outbox'[k] = outbox[k + 1]
      /\ \A k \in 1..Len(outbox) : k # 1 => k - 1 \in 1..Len(outbox') /\ outbox'[k - 1] = outbox[k]
  <2>1. outbox \in Seq(Messages) /\ outbox # <<>> /\ outbox' = Tail(outbox)
    BY DEF Flush, CaptureInv, TypeOK
  <2>2. Len(outbox) \in Nat /\ Len(outbox) > 0 /\ msg = outbox[1] /\ msg \in Messages
    BY <2>1
  <2>3. outbox' \in Seq(Messages) /\ Len(outbox') = Len(outbox) - 1
    BY <2>1, <2>2
  <2>4. \A k \in 1..Len(outbox') : outbox'[k] = outbox[k + 1]
    BY <2>1, <2>2, <2>3
  <2>5. msg.of \in Indices
    BY <2>2 DEF Messages
  <2>6. \A k \in 1..Len(outbox) : outbox[k].of \in Indices
    BY <2>1, OutboxTyped
  <2>. QED
    BY <2>1, <2>2, <2>3, <2>4, <2>5, <2>6
<1>01. /\ task \in [Indices -> {"none", "requested", "running", "ended"}]
       /\ msg.type \in {"request", "stop"}
       /\ \A t \in Indices : t # msg.of => task'[t] = task[t]
       /\ msg.type = "request" => task'[msg.of] = "requested" /\ task[msg.of] = "none"
       /\ msg.type = "stop" => task'[msg.of] = IF task[msg.of] = "running" THEN "ended" ELSE task[msg.of]
  BY <1>0 DEF Flush, CaptureInv, TypeOK, SentOnce, Messages
<1>02. /\ UNCHANGED <<script, pc, i, ready, pending, box, rx, answers, gaveUp, lost, raised, socket, counts>>
       /\ Indices' = Indices
  BY DEF Flush, data, track, Targets, Indices
<1>. HIDE DEF msg
<1>1. TypeOK'
  BY <1>0, <1>01, <1>02 DEF CaptureInv, Flush, TypeOK, Answers, Messages, Targets, Indices
<1>2. FreshAhead'
  <2>. SUFFICES ASSUME NEW t \in Indices, t > i \/ (t = i /\ ~Asking /\ pc # "failed")
                PROVE  Fresh(t)'
    BY <1>02 DEF FreshAhead, Asking
  <2>1. Fresh(t)
    BY DEF CaptureInv, FreshAhead
  <2>2. msg.of # t
    BY <1>0, <2>1 DEF Fresh
  <2>3. \A k \in 1..Len(outbox') : outbox'[k].of # t
    BY <1>0, <2>1 DEF Fresh
  <2>. QED
    BY <1>01, <1>02, <2>1, <2>2, <2>3 DEF Fresh
<1>3. SentOnce'
  <2>1. ASSUME NEW k \in 1..Len(outbox'), outbox'[k].type = "request"
        PROVE  /\ task'[outbox'[k].of] = "none"
               /\ (outbox'[k].of = i' /\ pc' = "wait") \/ outbox'[k].of \in gaveUp'
    <3>. DEFINE m == outbox'[k]
    <3>1. k + 1 \in 1..Len(outbox) /\ m = outbox[k + 1] /\ k + 1 # 1 /\ 1 \in 1..Len(outbox)
      BY <1>0
    <3>2. task[m.of] = "none" /\ Pending(m.of) /\ m.of \in Indices
      BY <3>1, <2>1, <1>0 DEF CaptureInv, SentOnce
    <3>3. msg.type = "request" => m.of # msg.of
      BY <3>1, <2>1, <1>0 DEF CaptureInv, SentOnce
    <3>4. task'[m.of] = "none"
      BY <3>2, <3>3, <1>01
    <3>5. (m.of = i' /\ pc' = "wait") \/ m.of \in gaveUp'
      BY <3>2, <1>02 DEF Pending
    <3>. QED
      BY <3>4, <3>5
  <2>2. ASSUME NEW j \in 1..Len(outbox'), NEW k \in 1..Len(outbox'),
               outbox'[j].type = "request", outbox'[k].type = "request",
               outbox'[j].of = outbox'[k].of
        PROVE  j = k
    <3>1. j + 1 \in 1..Len(outbox) /\ k + 1 \in 1..Len(outbox)
          /\ outbox'[j] = outbox[j + 1] /\ outbox'[k] = outbox[k + 1]
      BY <1>0
    <3>2. j + 1 = k + 1
      BY <3>1, <2>2 DEF CaptureInv, SentOnce
    <3>. QED
      BY <3>2, <1>0
  <2>. QED
    BY <2>1, <2>2 DEF SentOnce, Pending
<1>4. OneAnswer'
  BY <1>0, <1>01, <1>02 DEF CaptureInv, OneAnswer, Unheard
<1>5. RejectedRest'
  BY <1>0, <1>01, <1>02 DEF CaptureInv, RejectedRest, TypeOK, Answers
<1>6. Undecided'
  BY <1>0, <1>01, <1>02 DEF CaptureInv, Undecided, SentOnce, Pending
<1>7. NothingLostYet' /\ RaisedLast' /\ Collecting' /\ Bound'
  BY <1>02 DEF Flush, ReactorRuns, Ended, CaptureInv, NothingLostYet, RaisedLast, Collecting, Bound, Asking
<1>8. RunningAccounted'
  <2>. SUFFICES ASSUME NEW t \in Indices, task'[t] = "running" PROVE Accounted(t)'
    BY <1>02 DEF RunningAccounted
  <2>1. task[t] = "running" /\ ~(msg.type = "stop" /\ msg.of = t)
    BY <1>0, <1>01
  <2>2. Accounted(t)
    BY <2>1 DEF CaptureInv, RunningAccounted
  <2>3. CASE \E k \in 1..Len(outbox) : outbox[k].type = "stop" /\ outbox[k].of = t
    <3>1. PICK k \in 1..Len(outbox) : outbox[k].type = "stop" /\ outbox[k].of = t
      BY <2>3
    <3>2. k # 1
      BY <3>1, <2>1, <1>0
    <3>3. k - 1 \in 1..Len(outbox') /\ outbox'[k - 1] = outbox[k]
      BY <3>1, <3>2, <1>0
    <3>. QED
      BY <3>1, <3>3 DEF Accounted
  <2>4. CASE (t = i /\ Asking) \/ t \in gaveUp \union lost \union raised
    BY <2>4, <1>02 DEF Accounted, Asking
  <2>. QED
    BY <2>2, <2>3, <2>4 DEF Accounted
<1>. QED
  BY <1>1, <1>2, <1>3, <1>4, <1>5, <1>6, <1>7, <1>8 DEF CaptureInv
\* An answer that is looked up is in rx or nowhere.
LEMMA LookUpKeeps == CaptureInv /\ LookUp => CaptureInv'
<1>. SUFFICES ASSUME CaptureInv, LookUp PROVE CaptureInv'
  OBVIOUS
<1>. USE DEF LookUp, CaptureInv, data, track, session, Targets, Indices, ReactorRuns, Remote, Ended
<1>1. TypeOK'
  BY DEF TypeOK, Answers, Messages
<1>2. FreshAhead'
  BY DEF FreshAhead, Fresh, Asking, TypeOK
<1>3. SentOnce'
  BY DEF SentOnce, Pending, TypeOK
<1>4. OneAnswer'
  BY NoneApart DEF OneAnswer, Unheard, TypeOK, Answers, NoneApart, Statuses
<1>5. RejectedRest' /\ Undecided'
  BY NoneApart DEF RejectedRest, Undecided, Pending, OneAnswer, Unheard, TypeOK, Answers, NoneApart, Statuses
<1>6. NothingLostYet' /\ RaisedLast' /\ Collecting' /\ Bound'
  BY DEF NothingLostYet, RaisedLast, Collecting, Bound, Asking
<1>7. RunningAccounted'
  BY DEF RunningAccounted, Accounted, Asking, TypeOK, Undecided, Pending
<1>. QED
  BY <1>1, <1>2, <1>3, <1>4, <1>5, <1>6, <1>7
\* The box of an answer was empty, for a request has one answer.
LEMMA Append2BoxKeeps == CaptureInv /\ Append2Box => CaptureInv'
<1>. SUFFICES ASSUME CaptureInv, Append2Box PROVE CaptureInv'
  OBVIOUS
<1>. USE DEF Append2Box, CaptureInv, data, track, session, Targets, Indices, ReactorRuns, Remote, Ended
<1>1. TypeOK'
  BY DEF TypeOK, Answers, Messages
<1>2. FreshAhead'
  BY DEF FreshAhead, Fresh, Asking, TypeOK
<1>3. SentOnce'
  BY DEF SentOnce, Pending, TypeOK
<1>4. OneAnswer'
  BY NoneApart DEF OneAnswer, Unheard, TypeOK, Answers, NoneApart, Statuses
<1>5. RejectedRest' /\ Undecided'
  BY NoneApart DEF RejectedRest, Undecided, Pending, OneAnswer, Unheard, TypeOK, Answers, NoneApart, Statuses
<1>6. NothingLostYet' /\ RaisedLast' /\ Collecting' /\ Bound'
  BY NoneApart DEF NoneApart, Statuses, OneAnswer, TypeOK, Answers, NothingLostYet, RaisedLast, Collecting, Bound, Asking
<1>7. RunningAccounted'
  BY DEF RunningAccounted, Accounted, Asking, TypeOK, Undecided, Pending
<1>. QED
  BY <1>1, <1>2, <1>3, <1>4, <1>5, <1>6, <1>7
\* Nothing has been heard of a request that is decided.
LEMMA DecideKeeps == CaptureInv /\ Decide => CaptureInv'
<1>. SUFFICES ASSUME CaptureInv, Decide PROVE CaptureInv'
  OBVIOUS
<1>. USE DEF Decide, CaptureInv, data, track, session, Targets, Indices, ReactorRuns, Remote, Ended
<1>1. TypeOK'
  BY DEF TypeOK, Answers, Messages
<1>2. FreshAhead'
  BY DEF FreshAhead, Fresh, Asking, TypeOK
<1>3. SentOnce'
  BY DEF SentOnce, Pending, TypeOK
<1>4. OneAnswer'
  BY NoneApart DEF OneAnswer, Unheard, TypeOK, Answers, NoneApart, Statuses
<1>5. RejectedRest' /\ Undecided'
  BY NoneApart DEF RejectedRest, Undecided, Pending, OneAnswer, Unheard, TypeOK, Answers, NoneApart, Statuses
<1>6. NothingLostYet' /\ RaisedLast' /\ Collecting' /\ Bound'
  BY DEF NothingLostYet, RaisedLast, Collecting, Bound, Asking
<1>7. RunningAccounted'
  BY DEF RunningAccounted, Accounted, Asking, TypeOK, Undecided, Pending
<1>. QED
  BY <1>1, <1>2, <1>3, <1>4, <1>5, <1>6, <1>7
\* A task that ends needs no account.
LEMMA ExpireKeeps == CaptureInv /\ Expire => CaptureInv'
<1>. SUFFICES ASSUME CaptureInv, Expire PROVE CaptureInv'
  OBVIOUS
<1>. USE DEF Expire, CaptureInv, data, track, session, Targets, Indices, ReactorRuns, Remote, Ended
<1>1. TypeOK'
  BY DEF TypeOK, Answers, Messages
<1>2. FreshAhead'
  BY DEF FreshAhead, Fresh, Asking, TypeOK
<1>3. SentOnce'
  BY DEF SentOnce, Pending, TypeOK
<1>4. OneAnswer'
  BY NoneApart DEF OneAnswer, Unheard, TypeOK, Answers, NoneApart, Statuses
<1>5. RejectedRest' /\ Undecided'
  BY NoneApart DEF RejectedRest, Undecided, Pending, OneAnswer, Unheard, TypeOK, Answers, NoneApart, Statuses
<1>6. NothingLostYet' /\ RaisedLast' /\ Collecting' /\ Bound'
  BY DEF NothingLostYet, RaisedLast, Collecting, Bound, Asking
<1>7. RunningAccounted'
  BY DEF RunningAccounted, Accounted, Asking, TypeOK, Undecided, Pending
<1>. QED
  BY <1>1, <1>2, <1>3, <1>4, <1>5, <1>6, <1>7
\* The other client takes an answer away.
LEMMA TakenByOtherKeeps == CaptureInv /\ TakenByOther => CaptureInv'
<1>. SUFFICES ASSUME CaptureInv, TakenByOther PROVE CaptureInv'
  OBVIOUS
<1>. USE DEF TakenByOther, CaptureInv, data, track, session, Targets, Indices, ReactorRuns, Remote, Ended
<1>1. TypeOK'
  BY DEF TypeOK, Answers, Messages
<1>2. FreshAhead'
  BY DEF FreshAhead, Fresh, Asking, TypeOK
<1>3. SentOnce'
  BY DEF SentOnce, Pending, TypeOK
<1>4. OneAnswer'
  BY NoneApart DEF OneAnswer, Unheard, TypeOK, Answers, NoneApart, Statuses
<1>5. RejectedRest' /\ Undecided'
  BY NoneApart DEF RejectedRest, Undecided, Pending, OneAnswer, Unheard, TypeOK, Answers, NoneApart, Statuses
<1>6. NothingLostYet' /\ RaisedLast' /\ Collecting' /\ Bound'
  BY DEF NothingLostYet, RaisedLast, Collecting, Bound, Asking
<1>7. RunningAccounted'
  BY DEF RunningAccounted, Accounted, Asking, TypeOK, Undecided, Pending
<1>. QED
  BY <1>1, <1>2, <1>3, <1>4, <1>5, <1>6, <1>7
-----------------------------------------------------------------------------
(* The main thread. *)
\* Session.__init__ asks for nothing.
LEMMA ConnectedKeeps == CaptureInv /\ Connected => CaptureInv'
<1>. SUFFICES ASSUME CaptureInv, Connected PROVE CaptureInv'
  OBVIOUS
<1>. USE DEF Connected, CaptureInv, data, track, session, Targets, Indices, ReactorRuns, Remote, Ended
<1>1. TypeOK'
  BY DEF TypeOK, Answers, Messages
<1>2. FreshAhead'
  BY DEF FreshAhead, Fresh, Asking, TypeOK
<1>3. SentOnce'
  BY DEF SentOnce, Pending, TypeOK
<1>4. OneAnswer'
  BY NoneApart DEF OneAnswer, Unheard, TypeOK, Answers, NoneApart, Statuses
<1>5. RejectedRest' /\ Undecided'
  BY NoneApart DEF RejectedRest, Undecided, Pending, OneAnswer, Unheard, TypeOK, Answers, NoneApart, Statuses
<1>6. NothingLostYet' /\ RaisedLast' /\ Collecting' /\ Bound'
  BY DEF NothingLostYet, RaisedLast, Collecting, Bound, Asking
<1>7. RunningAccounted'
  BY DEF RunningAccounted, Accounted, Asking, TypeOK, Undecided, Pending
<1>. QED
  BY <1>1, <1>2, <1>3, <1>4, <1>5, <1>6, <1>7
\* The loop over the targets ends.
LEMMA EndOfTargetsKeeps == CaptureInv /\ EndOfTargets => CaptureInv'
<1>. SUFFICES ASSUME CaptureInv, EndOfTargets PROVE CaptureInv'
  OBVIOUS
<1>. USE DEF EndOfTargets, CaptureInv, data, track, session, Targets, Indices, ReactorRuns, Remote, Ended
<1>1. TypeOK'
  BY DEF TypeOK, Answers, Messages
<1>2. FreshAhead'
  BY DEF FreshAhead, Fresh, Asking, TypeOK
<1>3. SentOnce'
  BY DEF SentOnce, Pending, TypeOK
<1>4. OneAnswer'
  BY NoneApart DEF OneAnswer, Unheard, TypeOK, Answers, NoneApart, Statuses
<1>5. RejectedRest' /\ Undecided'
  BY NoneApart DEF RejectedRest, Undecided, Pending, OneAnswer, Unheard, TypeOK, Answers, NoneApart, Statuses
<1>6. NothingLostYet' /\ RaisedLast' /\ Collecting' /\ Bound'
  BY DEF NothingLostYet, RaisedLast, Collecting, Bound, Asking
<1>7. RunningAccounted'
  BY DEF RunningAccounted, Accounted, Asking, TypeOK, Undecided, Pending
<1>. QED
  BY <1>1, <1>2, <1>3, <1>4, <1>5, <1>6, <1>7
\* A full class is passed over.
LEMMA SkipFullKeeps == CaptureInv /\ SkipFull => CaptureInv'
<1>. SUFFICES ASSUME CaptureInv, SkipFull PROVE CaptureInv'
  OBVIOUS
<1>. USE DEF SkipFull, CaptureInv, data, track, session, Targets, Indices, ReactorRuns, Remote, Ended
<1>1. TypeOK'
  BY DEF TypeOK, Answers, Messages
<1>2. FreshAhead'
  BY DEF FreshAhead, Fresh, Asking, TypeOK
<1>3. SentOnce'
  BY DEF SentOnce, Pending, TypeOK
<1>4. OneAnswer'
  BY NoneApart DEF OneAnswer, Unheard, TypeOK, Answers, NoneApart, Statuses
<1>5. RejectedRest' /\ Undecided'
  BY NoneApart DEF RejectedRest, Undecided, Pending, OneAnswer, Unheard, TypeOK, Answers, NoneApart, Statuses
<1>6. NothingLostYet' /\ RaisedLast' /\ Collecting' /\ Bound'
  BY DEF NothingLostYet, RaisedLast, Collecting, Bound, Asking
<1>7. RunningAccounted'
  BY DEF RunningAccounted, Accounted, Asking, TypeOK, Undecided, Pending
<1>. QED
  BY <1>1, <1>2, <1>3, <1>4, <1>5, <1>6, <1>7
\* capture_rtl.py asks no controller.
LEMMA RtlCaptureKeeps == CaptureInv /\ RtlCapture => CaptureInv'
<1>. SUFFICES ASSUME CaptureInv, RtlCapture PROVE CaptureInv'
  OBVIOUS
<1>. USE DEF RtlCapture, CaptureInv, data, track, session, Targets, Indices, ReactorRuns, Remote, Ended
<1>0. counts' \in [Labels -> Nat]
  <2>1. CASE UNCHANGED data
    BY <2>1 DEF TypeOK
  <2>2. CASE \E n \in Lengths \union {0} : RtlHarvest(n)
    <3>1. PICK n \in Lengths \union {0} : RtlHarvest(n)
      BY <2>2
    <3>2. i \in 1..Len(Targets)
      BY TargetsTyped DEF TypeOK
    <3>3. Targets[i].label \in Labels /\ RtlQuota \in Int
      BY <3>2, TargetsTyped, QuotasNatural DEF TypeOK, RtlQuota, Least, QuotasNatural
    <3>4. n \in Nat /\ IsFiniteSet(RtlStarts(n))
      BY QuotasNatural, StartsFinite DEF QuotasNatural
    <3>5. PICK k \in Kept(RtlStarts(n), RtlQuota) : Harvest(Targets[i].label, k)
      BY <3>1 DEF RtlHarvest
    <3>6. k \in Nat
      BY <3>3, <3>4, <3>5, KeptBounded
    <3>. QED
      BY <3>3, <3>5, <3>6, HarvestCounts
  <2>. QED
    BY <2>1, <2>2
<1>1. TypeOK'
  BY <1>0 DEF TypeOK, Answers, Messages
<1>2. FreshAhead'
  BY DEF FreshAhead, Fresh, Asking, TypeOK
<1>3. SentOnce'
  BY DEF SentOnce, Pending, TypeOK
<1>4. OneAnswer'
  BY NoneApart DEF OneAnswer, Unheard, TypeOK, Answers, NoneApart, Statuses
<1>5. RejectedRest' /\ Undecided'
  BY NoneApart DEF RejectedRest, Undecided, Pending, OneAnswer, Unheard, TypeOK, Answers, NoneApart, Statuses
<1>6. NothingLostYet' /\ RaisedLast' /\ Collecting' /\ Bound'
  BY DEF NothingLostYet, RaisedLast, Collecting, Bound, Asking
<1>7. RunningAccounted'
  BY DEF RunningAccounted, Accounted, Asking, TypeOK, Undecided, Pending
<1>. QED
  BY <1>1, <1>2, <1>3, <1>4, <1>5, <1>6, <1>7
\* The file is written when nothing is asked any more.
LEMMA SaveKeeps == CaptureInv /\ Save => CaptureInv'
<1>. SUFFICES ASSUME CaptureInv, Save PROVE CaptureInv'
  OBVIOUS
<1>. USE DEF Save, CaptureInv, data, track, session, Targets, Indices, ReactorRuns, Remote, Ended
<1>1. TypeOK'
  BY DEF TypeOK, Answers, Messages
<1>2. FreshAhead'
  BY DEF FreshAhead, Fresh, Asking, TypeOK
<1>3. SentOnce'
  BY DEF SentOnce, Pending, TypeOK
<1>4. OneAnswer'
  BY NoneApart DEF OneAnswer, Unheard, TypeOK, Answers, NoneApart, Statuses
<1>5. RejectedRest' /\ Undecided'
  BY NoneApart DEF RejectedRest, Undecided, Pending, OneAnswer, Unheard, TypeOK, Answers, NoneApart, Statuses
<1>6. NothingLostYet' /\ RaisedLast' /\ Collecting' /\ Bound'
  BY DEF NothingLostYet, RaisedLast, Collecting, Bound, Asking
<1>7. RunningAccounted'
  BY DEF RunningAccounted, Accounted, Asking, TypeOK, Undecided, Pending
<1>. QED
  BY <1>1, <1>2, <1>3, <1>4, <1>5, <1>6, <1>7
\* A request is appended to the outbox while nothing in it is about its target.
LEMMA AskForKeeps ==
    ASSUME CaptureInv, AskFor(i), pc = "next", i \in Indices,
           UNCHANGED <<script, i, ready, box, rx, answers, task, gaveUp, lost, raised, data, file>>,
           socket' \in BOOLEAN, script = "real" => socket'
    PROVE  CaptureInv'
<1>. DEFINE msg == [type |-> "request", of |-> i]
<1>0. /\ outbox \in Seq(Messages) /\ Len(outbox) \in Nat
      /\ \A k \in 1..Len(outbox) : outbox[k].of \in Indices
      /\ outbox' \in Seq(Messages) /\ Len(outbox') = Len(outbox) + 1
      /\ outbox'[Len(outbox) + 1] = msg
      /\ \A k \in 1..Len(outbox) : k \in 1..Len(outbox') /\ outbox'[k] = outbox[k]
      /\ \A k \in 1..Len(outbox') : k = Len(outbox) + 1 \/ k \in 1..Len(outbox)
  <2>1. outbox \in Seq(Messages) /\ msg \in Messages /\ outbox' = Append(outbox, msg)
    BY DEF CaptureInv, TypeOK, AskFor, Messages
  <2>. HIDE DEF msg
  <2>. QED
    BY <2>1, OutboxTyped, Appended
<1>1. /\ pc' = "wait" /\ pending' = {i} /\ Indices' = Indices /\ i \in Nat
      /\ UNCHANGED <<script, i, ready, box, rx, answers, task, gaveUp, lost, raised, counts>>
  BY DEF AskFor, data, Indices, Targets, CaptureInv, TypeOK
<1>2. Fresh(i)
  BY DEF CaptureInv, FreshAhead, Asking
<1>3. TypeOK'
  BY <1>0, <1>1 DEF CaptureInv, TypeOK, Answers, Messages, Targets, Indices
<1>4. FreshAhead'
  <2>. SUFFICES ASSUME NEW t \in Indices, t > i PROVE Fresh(t)'
    BY <1>1 DEF FreshAhead, Asking
  <2>1. Fresh(t) /\ t # i
    BY <1>1 DEF CaptureInv, FreshAhead
  <2>2. \A k \in 1..Len(outbox') : outbox'[k].of # t
    BY <1>0, <2>1 DEF Fresh
  <2>. QED
    BY <1>1, <2>1, <2>2 DEF Fresh
<1>5. SentOnce'
  <2>1. ASSUME NEW k \in 1..Len(outbox'), outbox'[k].type = "request"
        PROVE  /\ task'[outbox'[k].of] = "none"
               /\ (outbox'[k].of = i' /\ pc' = "wait") \/ outbox'[k].of \in gaveUp'
    <3>1. CASE k = Len(outbox) + 1
      BY <3>1, <1>0, <1>1, <1>2 DEF Fresh
    <3>2. CASE k \in 1..Len(outbox)
      BY <3>2, <2>1, <1>0, <1>1 DEF CaptureInv, SentOnce, Pending
    <3>. QED
      BY <3>1, <3>2, <1>0
  <2>2. ASSUME NEW j \in 1..Len(outbox'), NEW k \in 1..Len(outbox'),
               outbox'[j].type = "request", outbox'[k].type = "request",
               outbox'[j].of = outbox'[k].of
        PROVE  j = k
    <3>1. CASE j \in 1..Len(outbox) /\ k \in 1..Len(outbox)
      BY <3>1, <2>2, <1>0 DEF CaptureInv, SentOnce
    <3>2. CASE j = Len(outbox) + 1 \/ k = Len(outbox) + 1
      BY <3>2, <2>2, <1>0, <1>2 DEF Fresh
    <3>. QED
      BY <3>1, <3>2, <1>0
  <2>. QED
    BY <2>1, <2>2 DEF SentOnce, Pending
<1>6. OneAnswer' /\ RejectedRest'
  BY <1>1 DEF CaptureInv, OneAnswer, Unheard, RejectedRest
<1>7. Undecided' /\ NothingLostYet' /\ RaisedLast' /\ Collecting' /\ Bound'
  BY <1>1 DEF CaptureInv, Undecided, Pending, NothingLostYet, RaisedLast, Collecting, Bound, Asking
<1>8. RunningAccounted'
  <2>. SUFFICES ASSUME NEW t \in Indices, task[t] = "running" PROVE Accounted(t)'
    BY <1>1 DEF RunningAccounted
  <2>1. t # i /\ Accounted(t)
    BY <1>2 DEF Fresh, CaptureInv, RunningAccounted
  <2>. QED
    BY <1>0, <1>1, <2>1 DEF Accounted
<1>. QED
  BY <1>3, <1>4, <1>5, <1>6, <1>7, <1>8 DEF CaptureInv

LEMMA RealAskKeeps == CaptureInv /\ RealAsk => CaptureInv'
<1>. SUFFICES ASSUME CaptureInv, RealAsk PROVE CaptureInv'
  OBVIOUS
<1>1. i \in Indices
  BY TargetsTyped DEF RealAsk, CaptureInv, TypeOK
<1>. QED
  BY <1>1, AskForKeeps DEF RealAsk, track, data

LEMMA NoiseAskKeeps == CaptureInv /\ NoiseAsk => CaptureInv'
<1>. SUFFICES ASSUME CaptureInv, NoiseAsk PROVE CaptureInv'
  OBVIOUS
<1>1. i \in Indices
  BY TargetsTyped DEF NoiseAsk, CaptureInv, TypeOK
<1>2. socket' \in BOOLEAN
  BY DEF NoiseAsk, CaptureInv, TypeOK
<1>. QED
  BY <1>1, <1>2, AskForKeeps DEF NoiseAsk, track, data

\* The targets whose stop has not left the outbox.
LEMMA StopsOf ==
    ASSUME NEW s, NEW t
    PROVE  t \in StopsIn(s) <=> \E k \in 1..Len(s) : s[k].type = "stop" /\ s[k].of = t
BY DEF StopsIn

\* An exception in the turn of an accepted task: the task joins those accounted
\* for, and so does every stop the reactor had not sent.
LEMMA RaiseKeeps ==
    ASSUME CaptureInv, Asking, Raise, i \in Indices, task[i] \notin {"none", "requested"},
           pending' \subseteq Indices,
           UNCHANGED <<script, i, ready, box, rx, answers, task, gaveUp, data, file>>
    PROVE  CaptureInv'
<1>0. /\ pc # "failed" /\ pc' = "failed" /\ outbox' = <<>> /\ socket' = FALSE /\ Indices' = Indices
      /\ lost' = lost \union StopsIn(outbox) /\ raised' = raised \union {i}
      /\ i \in Nat /\ UNCHANGED counts
  BY DEF Raise, data, Indices, Targets, Asking, CaptureInv, TypeOK
<1>1. raised = {} /\ raised' = {i}
  BY <1>0 DEF CaptureInv, RaisedLast
<1>2. task[i] \in {"running", "ended"}
  BY DEF CaptureInv, TypeOK
<1>3. \A k \in 1..Len(outbox) : outbox[k].of \in Indices
  BY OutboxTyped DEF CaptureInv, TypeOK
<1>4. lost' \subseteq Indices
  <2>1. StopsIn(outbox) \subseteq Indices
    BY <1>3, StopsOf
  <2>. QED
    BY <1>0, <2>1 DEF CaptureInv, TypeOK
<1>5. outbox' \in Seq(Messages) /\ Len(outbox') = 0
  BY <1>0
<1>6. TypeOK'
  BY <1>0, <1>1, <1>4, <1>5 DEF CaptureInv, TypeOK, Answers, Messages
<1>7. FreshAhead'
  <2>. SUFFICES ASSUME NEW t \in Indices, t > i PROVE Fresh(t)'
    BY <1>0 DEF FreshAhead
  <2>1. Fresh(t) /\ t # i
    BY <1>0 DEF CaptureInv, FreshAhead
  <2>2. t \notin lost' /\ t \notin raised'
    BY <1>0, <1>1, <2>1, StopsOf DEF Fresh
  <2>. QED
    BY <1>5, <2>1, <2>2 DEF Fresh
<1>8. SentOnce' /\ OneAnswer' /\ RejectedRest'
  BY <1>0, <1>5 DEF CaptureInv, SentOnce, OneAnswer, Unheard, RejectedRest
<1>9. Undecided' /\ NothingLostYet' /\ RaisedLast' /\ Collecting' /\ Bound'
  BY <1>0, <1>1, <1>2 DEF CaptureInv, Undecided, Pending, NothingLostYet, RaisedLast, Collecting, Bound, Asking
<1>10. RunningAccounted'
  <2>. SUFFICES ASSUME NEW t \in Indices, task[t] = "running" PROVE Accounted(t)'
    BY <1>0 DEF RunningAccounted
  <2>1. Accounted(t)
    BY DEF CaptureInv, RunningAccounted
  <2>2. (\E k \in 1..Len(outbox) : outbox[k].type = "stop" /\ outbox[k].of = t) => t \in lost'
    BY <1>0, StopsOf
  <2>3. t = i => t \in raised'
    BY <1>1
  <2>. QED
    BY <1>0, <2>1, <2>2, <2>3 DEF Accounted
<1>. QED
  BY <1>6, <1>7, <1>8, <1>9, <1>10 DEF CaptureInv

\* Whatever the box says: a request that is given up may still run its task.
LEMMA RpcReturnsKeeps == CaptureInv /\ RpcReturns => CaptureInv'
<1>. SUFFICES ASSUME CaptureInv, RpcReturns PROVE CaptureInv'
  OBVIOUS
<1>0. /\ Indices' = Indices /\ i \in Indices /\ i \in Nat
      /\ box[i] \in Statuses \union {None}
      /\ UNCHANGED <<script, ready, box, rx, answers, task, counts>>
  BY DEF RpcReturns, data, Targets, Indices, CaptureInv, TypeOK
<1>1. CASE box[i] = "accepted"
  <2>1. /\ pc = "wait" /\ pc' = "collect" /\ i' = i /\ socket' = TRUE
        /\ UNCHANGED <<outbox, lost, raised>>
    BY <1>1, NoneApart DEF RpcReturns, NoneApart, Statuses
  <2>2. gaveUp' = gaveUp /\ pending' = {}
    BY <1>1, NoneApart DEF RpcReturns, NoneApart, Statuses
  <2>3. TypeOK'
    BY <1>0, <2>1, <2>2 DEF CaptureInv, TypeOK, Answers, Messages, Targets, Indices
  <2>4. FreshAhead'
    BY <1>0, <2>1, <2>2 DEF CaptureInv, FreshAhead, Fresh, Asking
  <2>5. task[i] \notin {"none", "requested"}
    BY <1>0, <1>1, NoneApart DEF CaptureInv, OneAnswer, Unheard, NoneApart, Statuses
  <2>6. SentOnce' /\ Undecided'
    BY <1>0, <2>1, <2>2, <2>5 DEF CaptureInv, SentOnce, Undecided, Pending
  <2>7. OneAnswer' /\ RejectedRest'
    BY <1>0, <2>1, <2>2 DEF CaptureInv, OneAnswer, Unheard, RejectedRest
  <2>8. NothingLostYet' /\ RaisedLast' /\ Collecting' /\ Bound'
    BY <1>0, <1>1, <2>1, <2>2 DEF CaptureInv, NothingLostYet, RaisedLast, Collecting, Bound, Asking
  <2>9. RunningAccounted'
    BY <1>0, <2>1, <2>2 DEF CaptureInv, RunningAccounted, Accounted, Asking
  <2>. QED
    BY <2>3, <2>4, <2>6, <2>7, <2>8, <2>9 DEF CaptureInv
<1>2. CASE box[i] \in {"rejected", None}
  <2>1. /\ pc = "wait" /\ pc' = "next" /\ i' = i + 1 /\ socket' = FALSE /\ pending' = {}
        /\ UNCHANGED <<outbox, lost, raised>>
    BY <1>2, NoneApart DEF RpcReturns, NoneApart, Statuses
  <2>2. gaveUp' = gaveUp \union {i} \/ (gaveUp' = gaveUp /\ task[i] = "ended")
    <3>1. CASE box[i] = None
      BY <3>1 DEF RpcReturns
    <3>2. CASE box[i] # None
      <4>1. box[i] = "rejected"
        BY <1>2, <3>2
      <4>. QED
        BY <1>0, <3>2, <4>1 DEF CaptureInv, RejectedRest, RpcReturns
    <3>. QED
      BY <3>1, <3>2
  <2>3. TypeOK'
    <3>1. gaveUp' \subseteq Indices
      BY <1>0, <2>2 DEF CaptureInv, TypeOK
    <3>2. i' \in Nat \ {0}
      BY <1>0, <2>1 DEF CaptureInv, TypeOK
    <3>3. pc' = "next" /\ socket' \in BOOLEAN /\ pending' = {}
      BY <2>1
    <3>. QED
      BY <1>0, <2>1, <3>1, <3>2, <3>3 DEF CaptureInv, TypeOK, Answers, Messages
  <2>4. FreshAhead'
    <3>. SUFFICES ASSUME NEW t \in Indices, t > i + 1 \/ t = i + 1 PROVE Fresh(t)'
      BY <1>0, <2>1 DEF FreshAhead
    <3>1. t > i /\ t # i
      BY <1>0, TargetsTyped DEF CaptureInv, TypeOK
    <3>2. Fresh(t)
      BY <3>1 DEF CaptureInv, FreshAhead
    <3>. QED
      BY <1>0, <2>1, <2>2, <3>1, <3>2 DEF Fresh
  <2>5. SentOnce'
    BY <1>0, <2>1, <2>2 DEF CaptureInv, SentOnce, Pending
  <2>6. OneAnswer' /\ RejectedRest'
    BY <1>0, <2>1, <2>2 DEF CaptureInv, OneAnswer, Unheard, RejectedRest
  <2>7. Undecided'
    BY <1>0, <2>1, <2>2 DEF CaptureInv, Undecided, Pending
  <2>8. NothingLostYet' /\ RaisedLast' /\ Collecting' /\ Bound'
    BY <1>0, <2>1, <2>2 DEF CaptureInv, NothingLostYet, RaisedLast, Collecting, Bound, Asking
  <2>9. RunningAccounted'
    BY <1>0, <2>1, <2>2 DEF CaptureInv, RunningAccounted, Accounted, Asking
  <2>. QED
    BY <2>3, <2>4, <2>5, <2>6, <2>7, <2>8, <2>9 DEF CaptureInv
<1>3. CASE box[i] = "bare"
  <2>1. pc = "wait" /\ pending' = {} /\ Raise /\ i' = i /\ gaveUp' = gaveUp
    BY <1>3, NoneApart DEF RpcReturns, NoneApart, Statuses
  <2>2. task[i] \notin {"none", "requested"}
    BY <1>0, <1>3, NoneApart DEF CaptureInv, OneAnswer, Unheard, NoneApart, Statuses
  <2>. QED
    BY <1>0, <2>1, <2>2, RaiseKeeps DEF Asking, RpcReturns
<1>. QED
  BY <1>0, <1>1, <1>2, <1>3 DEF Statuses

\* A capture is cut short by an exception: its task has been accepted.
LEMMA CollectRaisesKeeps == CaptureInv /\ CollectRaises => CaptureInv'
<1>. SUFFICES ASSUME CaptureInv, CollectRaises PROVE CaptureInv'
  OBVIOUS
<1>1. /\ pc = "collect" /\ Raise /\ i \in Indices /\ box[i] = "accepted" /\ pending' \subseteq Indices
      /\ UNCHANGED <<script, i, ready, box, rx, answers, task, gaveUp, data, file>>
  BY DEF CollectRaises, CaptureInv, Collecting, TypeOK
<1>2. task[i] \notin {"none", "requested"}
  BY <1>1, NoneApart DEF CaptureInv, OneAnswer, Unheard, NoneApart, Statuses
<1>. QED
  BY <1>1, <1>2, RaiseKeeps DEF Asking

\* The stop of the task that was captured takes over its account.
LEMMA CollectKeeps ==
    ASSUME CaptureInv, pc = "collect", CollectIq, i' = i + 1, pc' = "next",
           outbox' = Append(outbox, [type |-> "stop", of |-> i]), counts' \in [Labels -> Nat],
           UNCHANGED <<script, ready, pending, box, rx, answers, task, gaveUp, lost, raised, file>>
    PROVE  CaptureInv'
<1>. DEFINE msg == [type |-> "stop", of |-> i]
<1>0. /\ outbox \in Seq(Messages) /\ Len(outbox) \in Nat
      /\ \A k \in 1..Len(outbox) : outbox[k].of \in Indices
      /\ outbox' \in Seq(Messages) /\ Len(outbox') = Len(outbox) + 1
      /\ outbox'[Len(outbox) + 1] = msg
      /\ \A k \in 1..Len(outbox) : k \in 1..Len(outbox') /\ outbox'[k] = outbox[k]
      /\ \A k \in 1..Len(outbox') : k = Len(outbox) + 1 \/ k \in 1..Len(outbox)
  <2>1. outbox \in Seq(Messages) /\ msg \in Messages /\ outbox' = Append(outbox, msg)
    BY DEF CaptureInv, TypeOK, Messages
  <2>. HIDE DEF msg
  <2>. QED
    BY <2>1, OutboxTyped, Appended
<1>1. /\ i \in Indices /\ i \in Nat /\ Indices \subseteq Nat /\ Indices' = Indices /\ socket' = FALSE
      /\ msg.of = i /\ msg.type = "stop"
  BY TargetsTyped DEF CollectIq, Indices, Targets, CaptureInv, TypeOK
<1>. HIDE DEF msg
<1>2. task[i] \notin {"none", "requested"}
  BY <1>1, NoneApart DEF CaptureInv, Collecting, OneAnswer, Unheard, NoneApart, Statuses
<1>3. TypeOK'
  <2>1. i' \in Nat \ {0}
    BY <1>1
  <2>2. socket' \in BOOLEAN /\ pc' = "next"
    BY <1>1
  <2>. QED
    BY <1>0, <1>1, <2>1, <2>2 DEF CaptureInv, TypeOK, Answers, Messages
<1>4. FreshAhead'
  <2>. SUFFICES ASSUME NEW t \in Indices, t > i + 1 \/ t = i + 1 PROVE Fresh(t)'
    BY <1>1 DEF FreshAhead
  <2>1. Fresh(t) /\ t # i
    BY <1>1 DEF CaptureInv, FreshAhead
  <2>2. \A k \in 1..Len(outbox') : outbox'[k].of # t
    BY <1>0, <1>1, <2>1 DEF Fresh
  <2>. QED
    BY <2>1, <2>2 DEF Fresh
<1>5. SentOnce'
  <2>1. \A k \in 1..Len(outbox') :
            outbox'[k].type = "request" => k \in 1..Len(outbox) /\ outbox'[k] = outbox[k]
    BY <1>0, <1>1
  <2>. QED
    BY <2>1 DEF CaptureInv, SentOnce, Pending
<1>6. OneAnswer' /\ RejectedRest'
  BY <1>1 DEF CaptureInv, OneAnswer, Unheard, RejectedRest
<1>7. Undecided' /\ NothingLostYet' /\ RaisedLast' /\ Collecting' /\ Bound'
  BY <1>1 DEF CaptureInv, Undecided, Pending, NothingLostYet, RaisedLast, Collecting, Bound, Asking
<1>8. RunningAccounted'
  <2>. SUFFICES ASSUME NEW t \in Indices, task[t] = "running" PROVE Accounted(t)'
    BY <1>1 DEF RunningAccounted
  <2>1. Len(outbox) + 1 \in 1..Len(outbox')
    BY <1>0
  <2>2. CASE t = i
    BY <1>0, <1>1, <2>1, <2>2 DEF Accounted
  <2>3. CASE t # i
    BY <1>0, <2>3 DEF CaptureInv, RunningAccounted, Accounted
  <2>. QED
    BY <2>2, <2>3
<1>. QED
  BY <1>3, <1>4, <1>5, <1>6, <1>7, <1>8 DEF CaptureInv

LEMMA RealCollectKeeps == CaptureInv /\ RealCollect => CaptureInv'
<1>. SUFFICES ASSUME CaptureInv, RealCollect PROVE CaptureInv'
  OBVIOUS
<1>1. PICK n \in Lengths : RealHarvest(n)
  BY DEF RealCollect
<1>2. counts' \in [Labels -> Nat]
  <2>1. CASE UNCHANGED data
    BY <2>1 DEF CaptureInv, TypeOK, data
  <2>2. CASE ~UNCHANGED data
    <3>1. i \in Indices
      BY DEF RealCollect, CaptureInv, TypeOK
    <3>2. Targets[i].label \in Labels /\ RealQuota \in Int
      BY <3>1, TargetsTyped, QuotasNatural DEF CaptureInv, TypeOK, RealQuota, Least, QuotasNatural
    <3>3. n \in Nat /\ IsFiniteSet(Starts(n))
      BY QuotasNatural, StartsFinite DEF QuotasNatural
    <3>4. PICK k \in Kept(Starts(n), RealQuota) : Harvest(Targets[i].label, k)
      BY <1>1, <2>2 DEF RealHarvest
    <3>5. k \in Nat
      BY <3>2, <3>3, <3>4, KeptBounded
    <3>. QED
      BY <3>2, <3>4, <3>5, HarvestCounts
  <2>. QED
    BY <2>1, <2>2
<1>. QED
  BY <1>2, CollectKeeps DEF RealCollect, track

LEMMA NoiseCollectKeeps == CaptureInv /\ NoiseCollect => CaptureInv'
<1>. SUFFICES ASSUME CaptureInv, NoiseCollect PROVE CaptureInv'
  OBVIOUS
<1>1. PICK n \in Lengths : NoiseHarvest(n)
  BY DEF NoiseCollect
<1>2. counts' \in [Labels -> Nat]
  <2>1. CASE UNCHANGED data
    BY <2>1 DEF CaptureInv, TypeOK, data
  <2>2. CASE ~UNCHANGED data
    <3>1. "_NOISE" \in Labels /\ NoiseQuota \in Int
      BY TargetsListed, QuotasNatural DEF CaptureInv, TypeOK, NoiseQuota, Least, QuotasNatural, TargetsListed
    <3>2. n \in Nat /\ IsFiniteSet(Starts(n))
      BY QuotasNatural, StartsFinite DEF QuotasNatural
    <3>3. PICK k \in Kept(Starts(n), NoiseQuota) : Harvest("_NOISE", k)
      BY <1>1, <2>2 DEF NoiseHarvest
    <3>4. k \in Nat
      BY <3>1, <3>2, <3>3, KeptBounded
    <3>. QED
      BY <3>1, <3>3, <3>4, HarvestCounts
  <2>. QED
    BY <2>1, <2>2
<1>. QED
  BY <1>2, CollectKeeps DEF NoiseCollect, track

\* What close() drops is lost, and nothing was lost before.
LEMMA CloseKeeps == CaptureInv /\ Close => CaptureInv'
<1>. SUFFICES ASSUME CaptureInv, Close PROVE CaptureInv'
  OBVIOUS
<1>0. /\ pc = "close" /\ pc' = "closed" /\ outbox' = <<>> /\ Indices' = Indices
      /\ lost' = lost \union StopsIn(outbox)
      /\ UNCHANGED <<script, i, ready, pending, box, rx, answers, task, gaveUp, raised, socket, counts>>
  BY DEF Close, data, Indices, Targets
<1>1. \A k \in 1..Len(outbox) : outbox[k].of \in Indices
  BY OutboxTyped DEF CaptureInv, TypeOK
<1>2. lost = {} /\ lost' \subseteq Indices
  BY <1>0, <1>1, StopsOf DEF CaptureInv, NothingLostYet
<1>3. outbox' \in Seq(Messages) /\ Len(outbox') = 0
  BY <1>0
<1>4. TypeOK'
  BY <1>0, <1>2, <1>3 DEF CaptureInv, TypeOK, Answers, Messages
<1>5. FreshAhead'
  <2>. SUFFICES ASSUME NEW t \in Indices, t > i \/ t = i PROVE Fresh(t)'
    BY <1>0 DEF FreshAhead
  <2>1. Fresh(t)
    BY <1>0 DEF CaptureInv, FreshAhead, Asking
  <2>2. t \notin lost'
    BY <1>0, <2>1, StopsOf DEF Fresh
  <2>. QED
    BY <1>0, <1>3, <2>1, <2>2 DEF Fresh
<1>6. SentOnce' /\ OneAnswer'
  BY <1>0, <1>3 DEF CaptureInv, SentOnce, Pending, OneAnswer, Unheard
<1>7. RejectedRest' /\ Undecided' /\ NothingLostYet' /\ RaisedLast' /\ Collecting' /\ Bound'
  BY <1>0 DEF CaptureInv, RejectedRest, Undecided, Pending, NothingLostYet, RaisedLast, Collecting, Bound, Asking
<1>8. RunningAccounted'
  <2>. SUFFICES ASSUME NEW t \in Indices, task[t] = "running" PROVE Accounted(t)'
    BY <1>0 DEF RunningAccounted
  <2>1. Accounted(t)
    BY DEF CaptureInv, RunningAccounted
  <2>. QED
    BY <1>0, <1>2, <2>1, StopsOf DEF Accounted, Asking
<1>. QED
  BY <1>4, <1>5, <1>6, <1>7, <1>8 DEF CaptureInv

-----------------------------------------------------------------------------
(* The invariant and what follows from it. *)

LEMMA CaptureInvariant == Spec => []CaptureInv
<1>1. CaptureInv /\ [Next]_vars => CaptureInv'
  <2>. SUFFICES ASSUME CaptureInv, [Next]_vars PROVE CaptureInv'
    OBVIOUS
  <2>1. CASE Main
    BY <2>1, ConnectedKeeps, EndOfTargetsKeeps, SkipFullKeeps, RealAskKeeps, NoiseAskKeeps,
       RpcReturnsKeeps, CollectRaisesKeeps, RealCollectKeeps, NoiseCollectKeeps, RtlCaptureKeeps, CloseKeeps,
       SaveKeeps DEF Main
  <2>2. CASE Reactor
    BY <2>2, LinkedKeeps, FlushKeeps, LookUpKeeps, Append2BoxKeeps DEF Reactor
  <2>3. CASE Controller
    BY <2>3, DecideKeeps, ExpireKeeps, TakenByOtherKeeps DEF Controller
  <2>4. CASE UNCHANGED vars
    BY <2>4 DEF vars, session, track, data, CaptureInv, TypeOK, FreshAhead, Fresh, Asking, SentOnce, Pending,
       OneAnswer, Unheard, RejectedRest, Undecided, NothingLostYet, RaisedLast, Collecting, RunningAccounted,
       Accounted, Bound, Targets, Indices, Answers, Messages
  <2>. QED
    BY <2>1, <2>2, <2>3, <2>4 DEF Next
<1>. QED
  BY <1>1, InitCapture, PTL DEF Spec

\* Type correctness of the capture scripts, part of CaptureSound.
THEOREM CaptureTypeOK == Spec => []TypeOK
<1>1. CaptureInv => TypeOK
  BY DEF CaptureInv
<1>. QED
  BY <1>1, CaptureInvariant, PTL

\* A capture serves the request it was made for, into a socket that is bound for
\* it: late answers and answers of other requests cannot start a collection
\* (capture_real.py 298-343 and 387-442).
THEOREM CapturesAreSound == Spec => []CaptureSound
<1>1. CaptureInv => CaptureSound
  <2>. SUFFICES ASSUME CaptureInv PROVE CaptureSound
    OBVIOUS
  <2>1. CollectsOwnTask
    <3>1. \A t \in Indices : box[t] \in {"accepted", "bare"} => task[t] \in {"running", "ended"}
      BY NoneApart DEF CaptureInv, OneAnswer, Unheard, TypeOK, NoneApart, Statuses
    <3>. QED
      BY <3>1 DEF CaptureInv, Collecting, CollectsOwnTask
  <2>2. ListeningSocket
    <3>1. ~Asking /\ ~Ended /\ i \in Indices => task[i] = "none"
      BY DEF CaptureInv, FreshAhead, Fresh, Ended
    <3>. QED
      BY <3>1 DEF CaptureInv, Bound, Asking, ListeningSocket
  <2>. QED
    BY <2>1, <2>2 DEF CaptureInv, CaptureSound
<1>. QED
  BY <1>1, CaptureInvariant, PTL

\* A task that runs on the controller is the one being captured or about to be
\* stopped, or one of those the script loses: given up in rpc(), its stop dropped
\* at the end, or the one target whose turn an exception ended, before anything
\* was saved (capture_real.py 334-352 and 437-441, capture_noise.py 148 and 199).
THEOREM TasksAreAccounted == Spec => []TasksAccounted
<1>1. CaptureInv => TasksAccounted
  <2>. SUFFICES ASSUME CaptureInv, NEW t \in Indices, task[t] = "running", ~(t = i /\ Asking),
                       t \notin gaveUp \union lost \union raised
                PROVE  \E k \in DOMAIN outbox : outbox[k] = [type |-> "stop", of |-> t]
    BY DEF TasksAccounted, Asking, CaptureInv, RaisedLast
  <2>1. PICK k \in 1..Len(outbox) : outbox[k].type = "stop" /\ outbox[k].of = t
    BY DEF CaptureInv, RunningAccounted, Accounted
  <2>2. \A S : \A s \in Seq(S) : DOMAIN s = 1..Len(s) /\ \A j \in 1..Len(s) : s[j] \in S
    OBVIOUS
  <2>3. k \in DOMAIN outbox /\ outbox[k] \in Messages
    BY <2>1, <2>2 DEF CaptureInv, TypeOK
  <2>4. outbox[k] = [type |-> "stop", of |-> t]
    BY <2>1, <2>3 DEF Messages
  <2>. QED
    BY <2>3, <2>4
<1>. QED
  BY <1>1, CaptureInvariant, PTL
\* Quotas hold for the classes of capture_rtl.py, which several targets may feed, and
\* for all windows of capture_noise.py (capture_rtl.py 195-209, capture_noise.py 252-265).
THEOREM QuotasAreKept == Spec => []QuotaKept
<1>1. Init => QuotaKept
  BY QuotasNatural, TargetsListed DEF Init, QuotaKept, QuotasNatural, TargetsListed
<1>2. CaptureInv /\ QuotaKept /\ [Next]_vars => QuotaKept'
  <2>. SUFFICES ASSUME CaptureInv, QuotaKept, [Next]_vars PROVE QuotaKept'
    OBVIOUS
  <2>1. CASE RtlCapture
    <3>1. CASE UNCHANGED data
      BY <2>1, <3>1 DEF RtlCapture, QuotaKept, data
    <3>2. CASE ~UNCHANGED data
      <4>1. PICK n \in Lengths \union {0} : RtlHarvest(n)
        BY <2>1, <3>2 DEF RtlCapture, data
      <4>2. i \in 1..Len(Targets) /\ script = "rtl" /\ script' = script
        BY <2>1, TargetsTyped DEF RtlCapture, CaptureInv, TypeOK
      <4>3. Targets[i].label \in Labels /\ Targets[i].max \in Nat /\ counts[Targets[i].label] \in Nat
        BY <4>2, TargetsTyped DEF CaptureInv, TypeOK
      <4>4. RtlQuota \in Int /\ RtlQuota <= MaxPerClass - counts[Targets[i].label]
        BY <4>3, QuotasNatural DEF RtlQuota, Least, QuotasNatural
      <4>5. IsFiniteSet(RtlStarts(n))
        BY QuotasNatural, StartsFinite DEF QuotasNatural
      <4>6. PICK k \in Kept(RtlStarts(n), RtlQuota) : Harvest(Targets[i].label, k)
        BY <4>1 DEF RtlHarvest
      <4>7. k \in Nat /\ k <= RtlQuota
        BY <4>4, <4>5, <4>6, KeptBounded
      <4>8. /\ counts'[Targets[i].label] = counts[Targets[i].label] + k
            /\ \A l \in Labels : l # Targets[i].label => counts'[l] = counts[l]
        BY <4>3, <4>6, <4>7, HarvestCounts
      <4>9. counts'[Targets[i].label] <= MaxPerClass
        BY <4>3, <4>4, <4>7, <4>8, QuotasNatural DEF QuotasNatural
      <4>. QED
        BY <4>2, <4>8, <4>9 DEF QuotaKept
    <3>. QED
      BY <3>1, <3>2
  <2>2. CASE NoiseCollect
    <3>1. PICK n \in Lengths : NoiseHarvest(n)
      BY <2>2 DEF NoiseCollect
    <3>2. CASE UNCHANGED data
      BY <2>2, <3>2 DEF NoiseCollect, QuotaKept, data
    <3>3. CASE ~UNCHANGED data
      <4>1. "_NOISE" \in Labels /\ counts["_NOISE"] \in Nat /\ script = "noise" /\ script' = script
        BY <2>2, TargetsListed DEF NoiseCollect, CaptureInv, TypeOK, TargetsListed
      <4>2. NoiseQuota \in Int /\ NoiseQuota <= NWindows - counts["_NOISE"]
        BY <4>1, QuotasNatural DEF NoiseQuota, Least, QuotasNatural
      <4>3. IsFiniteSet(Starts(n))
        BY QuotasNatural, StartsFinite DEF QuotasNatural
      <4>4. PICK k \in Kept(Starts(n), NoiseQuota) : Harvest("_NOISE", k)
        BY <3>1, <3>3 DEF NoiseHarvest
      <4>5. k \in Nat /\ k <= NoiseQuota
        BY <4>2, <4>3, <4>4, KeptBounded
      <4>6. counts'["_NOISE"] = counts["_NOISE"] + k
        BY <4>1, <4>4, <4>5, HarvestCounts
      <4>7. counts'["_NOISE"] <= NWindows
        BY <4>1, <4>2, <4>5, <4>6, QuotasNatural DEF QuotasNatural
      <4>. QED
        BY <4>1, <4>7 DEF QuotaKept
    <3>. QED
      BY <3>2, <3>3
  <2>3. CASE RealCollect
    BY <2>3 DEF RealCollect, QuotaKept
  <2>4. CASE Reactor \/ Controller
    BY <2>4 DEF Reactor, Controller, Linked, Flush, LookUp, Append2Box, Decide, Expire, TakenByOther,
       data, QuotaKept
  <2>5. CASE Connected \/ EndOfTargets \/ SkipFull \/ RealAsk \/ NoiseAsk \/ RpcReturns
            \/ CollectRaises \/ Close \/ Save
    BY <2>5 DEF Connected, EndOfTargets, SkipFull, RealAsk, NoiseAsk, RpcReturns, CollectRaises, Close, Save,
       data, QuotaKept
  <2>6. CASE UNCHANGED vars
    BY <2>6 DEF vars, data, QuotaKept
  <2>. QED
    BY <2>1, <2>2, <2>3, <2>4, <2>5, <2>6 DEF Next, Main
<1>. QED
  BY <1>1, <1>2, CaptureInvariant, PTL DEF Spec

-----------------------------------------------------------------------------
(* Labels. *)

UpTo(S, rank, l) == Cardinality({m \in S : rank[m] <= rank[l]})

\* Counting those up to it gives every element of a finite set that is ranked
\* without ties a place of its own, and leaves no place free.
LEMMA PlacesFill ==
    ASSUME NEW S, IsFiniteSet(S), NEW rank \in [S -> Int],
           \A l, m \in S : rank[l] = rank[m] => l = m
    PROVE  /\ \A l \in S : UpTo(S, rank, l) \in 1..Cardinality(S)
           /\ \A l, m \in S : UpTo(S, rank, l) = UpTo(S, rank, m) => l = m
           /\ \A k \in 1..Cardinality(S) : \E l \in S : UpTo(S, rank, l) = k
<1>. DEFINE up(l) == {m \in S : rank[m] <= rank[l]}
            n == Cardinality(S)
            f == [l \in S |-> Cardinality(up(l))]
<1>1. n \in Nat
  BY FS_CardinalityType
<1>2. \A l \in S : IsFiniteSet(up(l)) /\ Cardinality(up(l)) \in Nat /\ Cardinality(up(l)) <= n
  <2>. SUFFICES ASSUME NEW l \in S
                PROVE  IsFiniteSet(up(l)) /\ Cardinality(up(l)) \in Nat /\ Cardinality(up(l)) <= n
    OBVIOUS
  <2>1. up(l) \in SUBSET S
    OBVIOUS
  <2>. HIDE DEF up
  <2>. QED
    BY <2>1, FS_Subset, FS_CardinalityType
<1>3. \A l \in S : Cardinality(up(l)) \in 1..n
  <2>. SUFFICES ASSUME NEW l \in S PROVE Cardinality(up(l)) \in 1..n
    OBVIOUS
  <2>1. l \in up(l)
    OBVIOUS
  <2>. HIDE DEF up
  <2>2. Cardinality(up(l)) # 0
    BY <1>2, <2>1, FS_EmptySet
  <2>. QED
    BY <1>1, <1>2, <2>2
<1>4. \A l, m \in S : rank[l] < rank[m] => Cardinality(up(l)) # Cardinality(up(m))
  <2>. SUFFICES ASSUME NEW l \in S, NEW m \in S, rank[l] < rank[m],
                       Cardinality(up(l)) = Cardinality(up(m))
                PROVE  FALSE
    OBVIOUS
  <2>1. up(l) \in SUBSET up(m) /\ m \in up(m) /\ m \notin up(l)
    OBVIOUS
  <2>. HIDE DEF up
  <2>2. up(l) = up(m)
    BY <1>2, <2>1, FS_Subset
  <2>. QED
    BY <2>1, <2>2
<1>5. \A l, m \in S : Cardinality(up(l)) = Cardinality(up(m)) => l = m
  BY <1>4
<1>. HIDE DEF up, n
<1>6. f \in Injection(S, 1..n)
  BY <1>3, <1>5 DEF Injection, IsInjective
<1>7. IsFiniteSet(1..n) /\ Cardinality(1..n) = n
  BY <1>1, FS_Interval
<1>8. f \in Surjection(S, 1..n)
  BY <1>6, <1>7, FS_Injection DEF n
<1>9. \A k \in 1..n : \E l \in S : Cardinality(up(l)) = k
  BY <1>8 DEF Surjection
<1>. QED
  BY <1>3, <1>5, <1>9 DEF up, n, UpTo

\* A label's index in the order of labels.
LEMMA LabelIndex ==
    ASSUME NEW l \in Labels
    PROVE  IndexIn(LabelOrder, l) \in 1..Len(LabelOrder) /\ LabelOrder[IndexIn(LabelOrder, l)] = l
<1>1. \E k \in 1..Len(LabelOrder) : LabelOrder[k] = l
  BY TargetsListed DEF Labels, TargetsListed
<1>. QED
  BY <1>1 DEF IndexIn

LEMMA IndexFound ==
    ASSUME NEW s, NEW l, InSeq(s, l)
    PROVE  IndexIn(s, l) \in 1..Len(s) /\ s[IndexIn(s, l)] = l
BY DEF InSeq, IndexIn

\* The sorted buckets are a list of every bucket, each once.
LEMMA BucketsSorted ==
    /\ SortedBuckets \in Seq(Buckets)
    /\ \A j, k \in 1..Len(SortedBuckets) : SortedBuckets[j] = SortedBuckets[k] => j = k
    /\ \A l \in Buckets : InSeq(SortedBuckets, l)
<1>. DEFINE rank == [l \in Buckets |-> IndexIn(LabelOrder, l)]
            n == Cardinality(Buckets)
<1>1. \A l \in Buckets : l \in Labels
  BY DEF Buckets
<1>2. \A l, m \in Buckets : IndexIn(LabelOrder, l) = IndexIn(LabelOrder, m) => l = m
  BY <1>1, LabelIndex
<1>3. Len(LabelOrder) \in Nat
  BY TargetsListed DEF TargetsListed
<1>4. IsFiniteSet(Buckets)
  <2>1. rank \in Injection(Buckets, 1..Len(LabelOrder))
    BY <1>1, <1>2, LabelIndex DEF Injection, IsInjective
  <2>2. IsFiniteSet(1..Len(LabelOrder))
    BY <1>3, FS_Interval
  <2>. QED
    BY <2>1, <2>2, FS_Injection
<1>5. n \in Nat
  BY <1>4, FS_CardinalityType
<1>6. rank \in [Buckets -> Int] /\ \A l, m \in Buckets : rank[l] = rank[m] => l = m
  BY <1>1, <1>2, LabelIndex
<1>7. \A l \in Buckets : Place(l) = UpTo(Buckets, rank, l)
  <2>. SUFFICES ASSUME NEW l \in Buckets PROVE Place(l) = UpTo(Buckets, rank, l)
    OBVIOUS
  <2>1. {m \in Buckets : rank[m] <= rank[l]}
          = {m \in Buckets : IndexIn(LabelOrder, m) <= IndexIn(LabelOrder, l)}
    OBVIOUS
  <2>. QED
    BY <2>1 DEF Place, UpTo
<1>. HIDE DEF rank
<1>8. /\ \A l \in Buckets : Place(l) \in 1..n
      /\ \A l, m \in Buckets : Place(l) = Place(m) => l = m
      /\ \A k \in 1..n : \E l \in Buckets : Place(l) = k
  BY <1>4, <1>6, <1>7, PlacesFill
<1>. HIDE DEF n
<1>9. SortedBuckets = [k \in 1..n |-> CHOOSE l \in Buckets : Place(l) = k]
  BY DEF SortedBuckets, n
<1>10. \A k \in 1..n : SortedBuckets[k] \in Buckets /\ Place(SortedBuckets[k]) = k
  BY <1>8, <1>9
<1>11. SortedBuckets \in [1..n -> Buckets]
  BY <1>9, <1>10
<1>12. SortedBuckets \in Seq(Buckets) /\ Len(SortedBuckets) = n
  BY <1>5, <1>11
<1>13. \A j, k \in 1..n : SortedBuckets[j] = SortedBuckets[k] => j = k
  BY <1>10
<1>14. \A l \in Buckets : InSeq(SortedBuckets, l)
  <2>. SUFFICES ASSUME NEW l \in Buckets PROVE SortedBuckets[Place(l)] = l
    BY <1>8, <1>12 DEF InSeq
  <2>. QED
    BY <1>8, <1>10
<1>. QED
  BY <1>12, <1>13, <1>14

Once(s) == \A j, k \in 1..Len(s) : s[j] = s[k] => j = k

\* The labels are those of the rows, each once; a row has the index of the label
\* of its target.
LabelInv ==
    /\ labels \in Seq(Labels)
    /\ Once(labels)
    /\ \A r \in rows : /\ r.of \in Indices
                       /\ r.y \in 0..Len(labels) - 1
                       /\ script # "noise" => labels[r.y + 1] = Targets[r.of].label
    /\ \A k \in 1..Len(labels) : \E r \in rows : r.y = k - 1

\* One more label at the end, when it is new: the indices of the others stay.
Named(s, l) == IF InSeq(s, l) THEN s ELSE Append(s, l)

LEMMA NamedOnce ==
    ASSUME NEW s \in Seq(Labels), Once(s),
           NEW l \in Labels, NEW t, t = Named(s, l)
    PROVE  /\ t \in Seq(Labels) /\ Len(t) \in Nat /\ Len(s) <= Len(t)
           /\ Once(t)
           /\ IndexIn(t, l) \in 1..Len(t) /\ t[IndexIn(t, l)] = l
           /\ \A k \in 1..Len(t) : k \in 1..Len(s) \/ k = IndexIn(t, l)
<1>1. CASE InSeq(s, l)
  <2>1. t = s
    BY <1>1 DEF Named
  <2>. QED
    BY <1>1, <2>1, IndexFound
<1>2. CASE ~InSeq(s, l)
  <2>1. /\ t \in Seq(Labels) /\ Len(t) = Len(s) + 1 /\ Len(s) \in Nat
        /\ t[Len(s) + 1] = l /\ \A k \in 1..Len(s) : t[k] = s[k]
    BY <1>2 DEF Named
  <2>2. \A k \in 1..Len(s) : s[k] # l
    BY <1>2 DEF InSeq
  <2>3. Once(t)
    <3>. SUFFICES ASSUME NEW j \in 1..Len(t), NEW k \in 1..Len(t), t[j] = t[k] PROVE j = k
      BY DEF Once
    <3>1. CASE j \in 1..Len(s) /\ k \in 1..Len(s)
      BY <2>1, <3>1 DEF Once
    <3>2. CASE j = Len(s) + 1 \/ k = Len(s) + 1
      BY <2>1, <2>2, <3>2
    <3>. QED
      BY <2>1, <3>1, <3>2
  <2>4. InSeq(t, l)
    BY <2>1 DEF InSeq
  <2>5. IndexIn(t, l) = Len(s) + 1
    <3>1. IndexIn(t, l) \in 1..Len(t) /\ t[IndexIn(t, l)] = l
      BY <2>4, IndexFound
    <3>2. IndexIn(t, l) \notin 1..Len(s)
      BY <2>1, <2>2, <3>1
    <3>. QED
      BY <2>1, <3>1, <3>2
  <2>. QED
    BY <2>1, <2>3, <2>5
<1>. QED
  BY <1>1, <1>2

LEMMA HarvestLabels ==
    ASSUME LabelInv, script' = script, NEW label \in Labels, NEW k, Harvest(label, k),
           i \in Indices, script # "noise" => label = Targets[i].label
    PROVE  LabelInv'
<1>1. Targets' = Targets /\ Indices' = Indices
  BY DEF Targets, Indices
<1>2. CASE UNCHANGED data
  BY <1>1, <1>2 DEF LabelInv, data
<1>3. CASE Add(label, k)
  <2>. DEFINE y == IndexIn(labels', label) - 1
              new == [of |-> i, y |-> y]
  <2>1. labels' = Named(labels, label)
    BY <1>3 DEF Add, Named
  <2>2. rows' = rows \union {new}
    BY <1>3 DEF Add
  <2>3. /\ labels \in Seq(Labels) /\ Len(labels) \in Nat
        /\ Once(labels)
    BY DEF LabelInv
  <2>4. /\ labels' \in Seq(Labels) /\ Len(labels') \in Nat /\ Len(labels) <= Len(labels')
        /\ Once(labels')
        /\ IndexIn(labels', label) \in 1..Len(labels') /\ labels'[IndexIn(labels', label)] = label
        /\ \A m \in 1..Len(labels) : labels'[m] = labels[m]
        /\ \A m \in 1..Len(labels') : m \in 1..Len(labels) \/ m = IndexIn(labels', label)
    <3>1. /\ labels' \in Seq(Labels) /\ Len(labels') \in Nat /\ Len(labels) <= Len(labels')
          /\ Once(labels')
          /\ IndexIn(labels', label) \in 1..Len(labels') /\ labels'[IndexIn(labels', label)] = label
          /\ \A m \in 1..Len(labels') : m \in 1..Len(labels) \/ m = IndexIn(labels', label)
      BY <2>1, <2>3, NamedOnce
    <3>2. \A m \in 1..Len(labels) : labels'[m] = labels[m]
      BY <2>1, <2>3 DEF Named
    <3>. QED
      BY <3>1, <3>2
  <2>5. y \in 0..Len(labels') - 1 /\ labels'[y + 1] = label
    BY <2>4
  <2>6. new.of = i /\ new.y = y
    OBVIOUS
  <2>. HIDE DEF y, new
  <2>7. ASSUME NEW r \in rows'
        PROVE  /\ r.of \in Indices
               /\ r.y \in 0..Len(labels') - 1
               /\ script # "noise" => labels'[r.y + 1] = Targets[r.of].label
    <3>1. CASE r = new
      BY <2>5, <2>6, <3>1
    <3>2. CASE r \in rows
      <4>1. /\ r.of \in Indices /\ r.y \in 0..Len(labels) - 1
            /\ script # "noise" => labels[r.y + 1] = Targets[r.of].label
        BY <3>2 DEF LabelInv
      <4>2. r.y + 1 \in 1..Len(labels)
        BY <2>3, <4>1
      <4>. QED
        BY <2>3, <2>4, <4>1, <4>2
    <3>. QED
      BY <2>2, <2>7, <3>1, <3>2
  <2>8. ASSUME NEW m \in 1..Len(labels') PROVE \E r \in rows' : r.y = m - 1
    <3>1. CASE m \in 1..Len(labels)
      BY <2>2, <3>1 DEF LabelInv
    <3>2. CASE m = IndexIn(labels', label)
      BY <2>2, <2>6, <3>2 DEF y
    <3>. QED
      BY <2>4, <3>1, <3>2
  <2>. QED
    BY <1>1, <2>4, <2>7, <2>8 DEF LabelInv
<1>. QED
  BY <1>2, <1>3 DEF Harvest

\* A turn of the loop over the targets.
LEMMA TurnLabels ==
    ASSUME CaptureInv, LabelInv, RealCollect \/ NoiseCollect \/ RtlCapture
    PROVE  LabelInv'
<1>1. script' = script
  BY DEF RealCollect, NoiseCollect, RtlCapture
<1>2. CASE UNCHANGED data
  BY <1>1, <1>2 DEF LabelInv, data, Targets, Indices
<1>3. CASE ~UNCHANGED data
  <2>1. i \in Indices
    BY <1>3, TargetsTyped DEF CaptureInv, TypeOK, RealCollect, NoiseCollect, RtlCapture
  <2>2. Targets[i].label \in Labels /\ "_NOISE" \in Labels
    BY <2>1, TargetsTyped, TargetsListed DEF CaptureInv, TypeOK, TargetsListed
  <2>3. CASE RealCollect
    <3>1. \E k : Harvest(Targets[i].label, k)
      BY <1>3, <2>3 DEF RealCollect, RealHarvest
    <3>. QED
      BY <1>1, <2>1, <2>2, <3>1, HarvestLabels
  <2>4. CASE NoiseCollect
    <3>1. script = "noise" /\ \E k : Harvest("_NOISE", k)
      BY <1>3, <2>4 DEF NoiseCollect, NoiseHarvest
    <3>. QED
      BY <1>1, <2>1, <2>2, <3>1, HarvestLabels
  <2>5. CASE RtlCapture
    <3>1. \E k : Harvest(Targets[i].label, k)
      BY <1>3, <2>5 DEF RtlCapture, RtlHarvest, data
    <3>. QED
      BY <1>1, <2>1, <2>2, <3>1, HarvestLabels
  <2>. QED
    BY <2>3, <2>4, <2>5
<1>. QED
  BY <1>2, <1>3

\* What is saved: the labels and rows as they are, or renumbered in sorted order.
LEMMA SavedLabels ==
    ASSUME LabelInv, script \in {"real", "rtl"}
    PROVE  /\ \A r \in Renumbered : /\ r.y \in 0..Len(Classes) - 1
                                    /\ Classes[r.y + 1] = Targets[r.of].label
           /\ \A k, l \in DOMAIN Classes : Classes[k] = Classes[l] => k = l
           /\ \A k \in DOMAIN Classes : \E r \in Renumbered : r.y = k - 1
<1>1. CASE script = "real"
  <2>1. Classes = labels /\ Renumbered = rows
    BY <1>1 DEF Classes, Renumbered
  <2>2. DOMAIN labels = 1..Len(labels)
    BY DEF LabelInv
  <2>. QED
    BY <1>1, <2>1, <2>2 DEF LabelInv, Once
<1>2. CASE script = "rtl"
  <2>. DEFINE index(r) == IndexIn(Classes, Targets[r.of].label)
  <2>1. /\ Classes = SortedBuckets
        /\ Renumbered = {[of |-> r.of, y |-> index(r) - 1] : r \in rows}
    BY <1>2 DEF Classes, Renumbered
  <2>2. Classes \in Seq(Buckets) /\ DOMAIN Classes = 1..Len(Classes) /\ Len(Classes) \in Nat
    BY <2>1, BucketsSorted
  <2>3. \A k, l \in 1..Len(Classes) : Classes[k] = Classes[l] => k = l
    BY <2>1, BucketsSorted
  <2>4. ASSUME NEW r \in rows
        PROVE  /\ index(r) \in 1..Len(Classes)
               /\ Classes[index(r)] = Targets[r.of].label
    <3>1. r.y \in 0..Len(labels) - 1 /\ labels[r.y + 1] = Targets[r.of].label
      BY <1>2 DEF LabelInv
    <3>2. Len(labels) \in Nat /\ r.y + 1 \in 1..Len(labels) /\ labels[r.y + 1] \in Labels
      BY <3>1 DEF LabelInv
    <3>3. Targets[r.of].label \in Buckets
      BY <3>1, <3>2 DEF Buckets, InSeq
    <3>. QED
      BY <2>1, <3>3, BucketsSorted, IndexFound
  <2>. HIDE DEF index
  <2>5. ASSUME NEW q \in Renumbered
        PROVE  q.y \in 0..Len(Classes) - 1 /\ Classes[q.y + 1] = Targets[q.of].label
    <3>1. PICK r \in rows : q = [of |-> r.of, y |-> index(r) - 1]
      BY <2>1
    <3>2. q.of = r.of /\ q.y = index(r) - 1
      BY <3>1
    <3>3. q.y + 1 = index(r)
      BY <2>4, <3>2
    <3>. QED
      BY <2>2, <2>4, <3>2, <3>3
  <2>6. ASSUME NEW k \in 1..Len(Classes) PROVE \E q \in Renumbered : q.y = k - 1
    <3>1. Classes[k] \in Buckets
      BY <2>2
    <3>2. PICK j \in 1..Len(labels) : labels[j] = Classes[k]
      BY <3>1 DEF Buckets, InSeq
    <3>3. PICK r \in rows : r.y = j - 1
      BY DEF LabelInv
    <3>4. Targets[r.of].label = Classes[k]
      <4>1. labels[r.y + 1] = Targets[r.of].label
        BY <1>2 DEF LabelInv
      <4>2. r.y + 1 = j
        BY <3>3 DEF LabelInv
      <4>. QED
        BY <3>2, <4>1, <4>2
    <3>5. index(r) = k
      BY <2>3, <2>4, <3>4
    <3>6. [of |-> r.of, y |-> index(r) - 1] \in Renumbered
      BY <2>1
    <3>. QED
      BY <3>5, <3>6
  <2>. QED
    BY <2>2, <2>3, <2>5, <2>6
<1>. QED
  BY <1>1, <1>2

\* In the file a script saves, every window has the label of the target it was
\* captured at, and every class is listed once and has a window: also when
\* several targets feed a class, and after capture_rtl.py has sorted its buckets
\* (capture_real.py 578-611, capture_rtl.py 204-230).
THEOREM FilesNameTargets == Spec => []LabelsNameTargets
<1>1. Init => LabelInv /\ LabelsNameTargets
  <2>. SUFFICES ASSUME Init PROVE LabelInv /\ LabelsNameTargets
    OBVIOUS
  <2>1. labels \in Seq(Labels) /\ Len(labels) = 0 /\ rows = {} /\ file = None
    BY DEF Init
  <2>. QED
    BY <2>1 DEF LabelInv, LabelsNameTargets, Once
<1>2. CaptureInv /\ LabelInv /\ LabelsNameTargets /\ [Next]_vars => LabelInv' /\ LabelsNameTargets'
  <2>. SUFFICES ASSUME CaptureInv, LabelInv, LabelsNameTargets, [Next]_vars
                PROVE  LabelInv' /\ LabelsNameTargets'
    OBVIOUS
  <2>1. script' = script /\ Targets' = Targets /\ Indices' = Indices
    BY DEF Next, Main, Reactor, Controller, Connected, EndOfTargets, SkipFull, RealAsk, NoiseAsk,
           RpcReturns, CollectRaises, RealCollect, NoiseCollect, RtlCapture, Close, Save, Linked, Flush, LookUp,
           Append2Box, Decide, Expire, TakenByOther, vars, Targets, Indices
  <2>2. ASSUME UNCHANGED <<labels, rows>> PROVE LabelInv'
    BY <2>1, <2>2 DEF LabelInv
  <2>3. ASSUME UNCHANGED file PROVE LabelsNameTargets'
    BY <2>1, <2>3 DEF LabelsNameTargets
  <2>4. CASE RealCollect \/ NoiseCollect \/ RtlCapture
    <3>1. UNCHANGED file
      BY <2>4 DEF RealCollect, NoiseCollect, RtlCapture
    <3>. QED
      BY <2>3, <2>4, <3>1, TurnLabels
  <2>5. CASE Save
    <3>1. UNCHANGED <<labels, rows>>
      BY <2>5 DEF Save, data
    <3>2. CASE UNCHANGED file
      BY <2>2, <2>3, <3>1, <3>2
    <3>3. CASE file' = [classes |-> Classes, rows |-> Renumbered]
      <4>1. file'.classes = Classes /\ file'.rows = Renumbered
        BY <3>3
      <4>2. script # "noise" => script \in {"real", "rtl"}
        BY DEF CaptureInv, TypeOK, Scripts
      <4>3. LabelsNameTargets'
        BY <2>1, <4>1, <4>2, SavedLabels DEF LabelsNameTargets
      <4>. QED
        BY <2>2, <3>1, <4>3
    <3>. QED
      BY <2>5, <3>2, <3>3 DEF Save
  <2>6. CASE ~(RealCollect \/ NoiseCollect \/ RtlCapture \/ Save)
    <3>1. UNCHANGED <<labels, rows, file>>
      BY <2>6 DEF Next, Main, Reactor, Controller, Connected, EndOfTargets, SkipFull, RealAsk, NoiseAsk,
           RpcReturns, CollectRaises, Close, Linked, Flush, LookUp, Append2Box, Decide, Expire, TakenByOther, vars, data
    <3>. QED
      BY <2>2, <2>3, <3>1
  <2>. QED
    BY <2>4, <2>5, <2>6
<1>. QED
  BY <1>1, <1>2, CaptureInvariant, PTL DEF Spec

\* Both together: what is saved is within the quotas and under its own labels.
THEOREM SavedWindowsAreSound == Spec => []WindowsSound
<1>1. QuotaKept /\ LabelsNameTargets => WindowsSound
  BY DEF WindowsSound
<1>. QED
  BY <1>1, QuotasAreKept, FilesNameTargets, PTL

=============================================================================
