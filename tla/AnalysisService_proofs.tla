----------------------- MODULE AnalysisService_proofs -----------------------
(***************************************************************************)
(* Theorems about AnalysisService for every number of workers, every set   *)
(* of frequencies and every bound.                                         *)
(***************************************************************************)
EXTENDS AnalysisService, TLAPS

-----------------------------------------------------------------------------
(* Type correctness. *)

LEMMA InitTypeOK == Init => TypeOK
<1> SUFFICES ASSUME Init PROVE TypeOK
  OBVIOUS
<1>1. queue \in Seq(Detection)
  BY DEF Init
<1>2. now \in 0..MaxTime /\ recentAnalyzed \in [Buckets -> 0..MaxTime \cup {None}]
  BY ServiceAssumption DEF ServiceAssumption, Init
<1>3. pc = [w \in Workers |-> "unborn"] /\ job = [w \in Workers |-> None] /\ qMu = None
  BY DEF Init
<1>. QED
  BY <1>1, <1>2, <1>3, ServiceAssumption DEF ServiceAssumption, Init, TypeOK

\* A worker's step that takes the mutex keeps the types.
LEMMA WorkerLockTypeOK ==
  ASSUME TypeOK, NEW w \in Workers, WorkerLock(w)
  PROVE  TypeOK'
<1> USE DEF WorkerLock, TypeOK, intake, outcomes, stopping
<1>1. CASE PrepareToWait(w)
  BY <1>1, ServiceAssumption DEF ServiceAssumption, PrepareToWait
<1>2. CASE Pop(w)
  <2>1. Head(queue) \in Detection /\ Tail(queue) \in Seq(Detection)
    BY <1>2 DEF Pop
  <2>. QED
    BY <1>2, <2>1, ServiceAssumption DEF ServiceAssumption, Pop
<1>3. CASE NothingToPop(w)
  BY <1>3 DEF NothingToPop
<1>. QED
  BY <1>1, <1>2, <1>3

LEMMA WorkerTimedOutTypeOK ==
  ASSUME TypeOK, NEW w \in Workers, WorkerTimedOut(w)
  PROVE  TypeOK'
<1> USE DEF WorkerTimedOut, TypeOK, intake, outcomes, stopping
<1>1. CASE Pop(w)
  <2>1. Head(queue) \in Detection /\ Tail(queue) \in Seq(Detection)
    BY <1>1 DEF Pop
  <2>. QED
    BY <1>1, <2>1, ServiceAssumption DEF ServiceAssumption, Pop
<1>2. CASE NothingToPop(w)
  BY <1>2 DEF NothingToPop
<1>. QED
  BY <1>1, <1>2

LEMMA DetectTypeOK ==
  ASSUME TypeOK, NEW f \in Freqs, Detect(f)
  PROVE  TypeOK'
<1> DEFINE d == [freq |-> f, at |-> now]
<1>1. d \in Detection /\ Bucket(f) \in Buckets
  BY DEF TypeOK, Detection, Buckets
<1>2. queue' \in Seq(Detection)
  BY <1>1 DEF TypeOK, Detect
<1>3. recentAnalyzed' \in [Buckets -> 0..MaxTime \cup {None}]
  BY <1>1 DEF TypeOK, Detect
<1>4. admitted' \subseteq Detection /\ dropped' \subseteq Detection
  BY <1>1 DEF TypeOK, Detect
<1>. QED
  BY <1>2, <1>3, <1>4 DEF TypeOK, Detect, workers, outcomes, stopping

\* Every step keeps the types: one case for each action.
LEMMA NextTypeOK == TypeOK /\ [Next]_vars => TypeOK'
<1> SUFFICES ASSUME TypeOK, [Next]_vars
             PROVE  TypeOK'
  OBVIOUS
<1> USE DEF intake, workers, outcomes, stopping
<1>1. CASE Start
  BY <1>1 DEF TypeOK, Start
<1>2. CASE StartSubscription
  BY <1>2 DEF TypeOK, StartSubscription
<1>3. CASE StopFlag
  BY <1>3 DEF TypeOK, StopFlag
<1>4. CASE StopNotify
  BY <1>4 DEF TypeOK, StopNotify, WakeAll
<1>5. CASE StopCopy
  BY <1>5 DEF TypeOK, StopCopy
<1>6. CASE StopContainer
  BY <1>6 DEF TypeOK, StopContainer
<1>7. CASE JoinSubscription
  BY <1>7 DEF TypeOK, JoinSubscription
<1>8. CASE JoinWorkers
  BY <1>8 DEF TypeOK, JoinWorkers
<1>9. CASE SubLoop
  BY <1>9 DEF TypeOK, SubLoop
<1>10. CASE SubCreate
  BY <1>10 DEF TypeOK, SubCreate
<1>11. CASE RunStopped
  BY <1>11 DEF TypeOK, RunStopped
<1>12. CASE RunFails
  BY <1>12 DEF TypeOK, RunFails
<1>13. CASE SubClear
  BY <1>13 DEF TypeOK, SubClear
<1>14. ASSUME NEW f \in Freqs, Detect(f)
       PROVE  TypeOK'
  BY <1>14, DetectTypeOK
<1>15. CASE DetectNotify
  BY <1>15 DEF TypeOK, DetectNotify
<1>16. ASSUME NEW w \in Workers, WorkerStep(w)
       PROVE  TypeOK'
  <2>1. CASE WorkerLoop(w)
    BY <2>1 DEF TypeOK, WorkerLoop
  <2>2. CASE WorkerLock(w)
    BY <2>2, WorkerLockTypeOK
  <2>3. CASE WorkerSleep(w)
    BY <2>3, ServiceAssumption DEF ServiceAssumption, TypeOK, WorkerSleep
  <2>4. CASE WorkerTimeout(w)
    BY <2>4 DEF TypeOK, WorkerTimeout
  <2>5. CASE WorkerTimedOut(w)
    BY <2>5, WorkerTimedOutTypeOK
  <2>6. CASE WorkerFinish(w)
    BY <2>6 DEF TypeOK, WorkerFinish
  <2>. QED
    BY <1>16, <2>1, <2>2, <2>3, <2>4, <2>5, <2>6 DEF WorkerStep
<1>17. CASE Tick
  BY <1>17, ServiceAssumption DEF ServiceAssumption, TypeOK, Tick
<1>18. CASE UNCHANGED vars
  BY <1>18 DEF TypeOK, vars
<1>. QED
  BY <1>1, <1>2, <1>3, <1>4, <1>5, <1>6, <1>7, <1>8, <1>9, <1>10, <1>11, <1>12, <1>13,
     <1>14, <1>15, <1>16, <1>17, <1>18 DEF Next, StopStep, SubStep, Terminated

\* The variables keep their types; the mutex is held across a step only by a
\* worker about to sleep, and a worker has a detection exactly while it
\* processes one.
THEOREM ServiceTypeOK == Spec => []TypeOK
  BY InitTypeOK, NextTypeOK, PTL DEF Spec

-----------------------------------------------------------------------------
(* Sequences as queues: what Append and Tail do to the set of elements. *)

LEMMA AppendRange ==
  ASSUME NEW S, NEW q \in Seq(S), NEW d \in S
  PROVE  Range(Append(q, d)) = Range(q) \cup {d}
<1>1. /\ Len(Append(q, d)) = Len(q) + 1
      /\ \A i \in 1..Len(q) : Append(q, d)[i] = q[i]
      /\ Append(q, d)[Len(q) + 1] = d
      /\ DOMAIN Append(q, d) = 1..(Len(q) + 1)
      /\ DOMAIN q = 1..Len(q)
      /\ Len(q) \in Nat
  OBVIOUS
<1>2. 1..(Len(q) + 1) = 1..Len(q) \cup {Len(q) + 1}
  BY <1>1
<1>. QED
  BY <1>1, <1>2 DEF Range

LEMMA TailRange ==
  ASSUME NEW S, NEW q \in Seq(S), q # <<>>
  PROVE  Range(q) = {Head(q)} \cup Range(Tail(q))
<1>1. /\ Len(Tail(q)) = Len(q) - 1
      /\ \A i \in 1..(Len(q) - 1) : Tail(q)[i] = q[i + 1]
      /\ Head(q) = q[1]
      /\ DOMAIN Tail(q) = 1..(Len(q) - 1)
      /\ DOMAIN q = 1..Len(q)
      /\ Len(q) \in Nat \ {0}
  OBVIOUS
<1>2. ASSUME NEW x \in Range(q)
      PROVE  x \in {Head(q)} \cup Range(Tail(q))
  <2>1. PICK i \in 1..Len(q) : x = q[i]
    BY <1>1 DEF Range
  <2>2. CASE i = 1
    BY <1>1, <2>1, <2>2
  <2>3. CASE i # 1
    <3>1. i - 1 \in 1..(Len(q) - 1) /\ Tail(q)[i - 1] = q[i]
      BY <1>1, <2>1, <2>3
    <3>. QED
      BY <1>1, <2>1, <3>1 DEF Range
  <2>. QED
    BY <2>2, <2>3
<1>3. Head(q) \in Range(q)
  BY <1>1 DEF Range
<1>4. ASSUME NEW x \in Range(Tail(q))
      PROVE  x \in Range(q)
  <2>1. PICK i \in 1..(Len(q) - 1) : x = Tail(q)[i]
    BY <1>1 DEF Range
  <2>2. i + 1 \in 1..Len(q) /\ x = q[i + 1]
    BY <1>1, <2>1
  <2>. QED
    BY <1>1, <2>2 DEF Range
<1>. QED
  BY <1>2, <1>3, <1>4

-----------------------------------------------------------------------------
(* The cooldown. *)

\* Only the detection callback and the clock touch the intake.
LEMMA IntakeFrame ==
  ASSUME [Next]_vars
  PROVE  \/ \E f \in Freqs : Detect(f)
         \/ Tick
         \/ UNCHANGED intake
BY DEF Next, StopStep, SubStep, WorkerStep, Terminated, vars, Start, StartSubscription,
       StopFlag, StopNotify, StopCopy, StopContainer, JoinSubscription, JoinWorkers,
       SubLoop, SubCreate, RunStopped, RunFails, SubClear, DetectNotify, WorkerLoop,
       WorkerLock, WorkerSleep, WorkerTimeout, WorkerTimedOut, WorkerFinish

\* A report that passes the cooldown test is spaced from all admitted ones of
\* its bucket, and so is none of them.
LEMMA AdmissionIsSpaced ==
  ASSUME TypeOK, AdmissionsRecorded, NEW f \in Freqs, ~InCooldown(Bucket(f)),
         NEW e \in admitted, Bucket(e.freq) = Bucket(f)
  PROVE  now - e.at >= Cooldown
<1>1. /\ e.at \in Nat /\ now \in Nat
      /\ e.at <= recentAnalyzed[Bucket(f)]
      /\ recentAnalyzed[Bucket(f)] # None
  BY DEF TypeOK, AdmissionsRecorded, Detection
<1>2. recentAnalyzed[Bucket(f)] \in Nat
  BY <1>1 DEF TypeOK, Buckets
<1>. QED
  BY <1>1, <1>2, ServiceAssumption DEF ServiceAssumption, InCooldown

LEMMA NextAdmissions ==
  ASSUME TypeOK, AdmissionsRecorded, CooldownSpacing, [Next]_vars
  PROVE  AdmissionsRecorded' /\ CooldownSpacing'
<1>1. ASSUME NEW f \in Freqs, Detect(f)
      PROVE  AdmissionsRecorded' /\ CooldownSpacing'
  <2> DEFINE b == Bucket(f)
             d == [freq |-> f, at |-> now]
  <2>1. /\ d.freq = f /\ d.at = now
        /\ b \in Buckets
        /\ now \in Nat /\ now' = now
        /\ now # None
    BY <1>1, ServiceAssumption DEF ServiceAssumption, TypeOK, Buckets, Detect
  <2>2. /\ admitted' = admitted \cup {d}
        /\ recentAnalyzed' = [recentAnalyzed EXCEPT ![b] = now]
        /\ ~InCooldown(b)
    BY <1>1 DEF Detect
  <2>3. \A e \in admitted : e.at \in Nat /\ Bucket(e.freq) \in Buckets
    BY DEF TypeOK, Detection, Buckets
  <2>4. \A c \in Buckets : recentAnalyzed'[c] = IF c = b THEN now ELSE recentAnalyzed[c]
    BY <2>2 DEF TypeOK
  <2>5. \A c \in Buckets : recentAnalyzed[c] # None =>
             recentAnalyzed[c] \in Nat /\ recentAnalyzed[c] <= now
    BY DEF TypeOK, AdmissionsRecorded
  <2>6. AdmissionsRecorded'
    <3>1. ASSUME NEW e \in admitted
          PROVE  /\ recentAnalyzed'[Bucket(e.freq)] # None
                 /\ e.at <= recentAnalyzed'[Bucket(e.freq)]
      BY <2>1, <2>3, <2>4, <2>5 DEF AdmissionsRecorded
    <3>2. recentAnalyzed'[Bucket(d.freq)] = now
      BY <2>1, <2>4
    <3>3. \A c \in Buckets : recentAnalyzed'[c] # None => recentAnalyzed'[c] <= now'
      BY <2>1, <2>4, <2>5
    <3>. QED
      BY <2>1, <2>2, <3>1, <3>2, <3>3 DEF AdmissionsRecorded
  <2>7. CooldownSpacing'
    <3>1. \A e \in admitted : Bucket(e.freq) = Bucket(d.freq) => d.at - e.at >= Cooldown
      BY <2>1, <2>2, AdmissionIsSpaced
    <3>. QED
      BY <2>2, <3>1 DEF CooldownSpacing
  <2>. QED
    BY <2>6, <2>7
<1>2. CASE Tick
  <2>1. /\ now' = now + 1
        /\ UNCHANGED <<admitted, recentAnalyzed>>
        /\ now \in Nat
    BY <1>2 DEF Tick, TypeOK
  <2>2. \A c \in Buckets : recentAnalyzed[c] # None => recentAnalyzed[c] \in Nat
    BY DEF TypeOK
  <2>. QED
    BY <2>1, <2>2 DEF AdmissionsRecorded, CooldownSpacing
<1>3. CASE UNCHANGED intake
  BY <1>3 DEF intake, AdmissionsRecorded, CooldownSpacing
<1>. QED
  BY <1>1, <1>2, <1>3, IntakeFrame

LEMMA InitAdmissions == Init => AdmissionsRecorded /\ CooldownSpacing
  BY DEF Init, AdmissionsRecorded, CooldownSpacing

\* Whatever the sweeps report, two admissions of one bucket are a cooldown
\* apart.
THEOREM AdmissionsAreSpaced == Spec => []CooldownSpacing
<1>1. Init => AdmissionsRecorded /\ CooldownSpacing
  BY InitAdmissions
<1>2. TypeOK /\ AdmissionsRecorded /\ CooldownSpacing /\ [Next]_vars
        => AdmissionsRecorded' /\ CooldownSpacing'
  BY NextAdmissions
<1>. QED
  BY <1>1, <1>2, ServiceTypeOK, PTL DEF Spec

-----------------------------------------------------------------------------
(* Where a detection is. *)

places == <<queue, job, admitted, dropped, published, failed>>

\* A worker's step that is no pop and no end of an analysis moves nothing.
LEMMA WorkerPlaces ==
  ASSUME TypeOK, NEW w \in Workers, WorkerStep(w)
  PROVE  \/ Pop(w) /\ job[w] = None /\ UNCHANGED <<intake, outcomes>>
         \/ WorkerFinish(w)
         \/ UNCHANGED places
<1> USE DEF places, intake, workers, outcomes
<1>1. CASE WorkerLoop(w) \/ WorkerSleep(w) \/ WorkerTimeout(w)
  BY <1>1 DEF WorkerLoop, WorkerSleep, WorkerTimeout
<1>2. CASE WorkerLock(w)
  BY <1>2 DEF WorkerLock, PrepareToWait, NothingToPop, TypeOK
<1>3. CASE WorkerTimedOut(w)
  BY <1>3 DEF WorkerTimedOut, NothingToPop, TypeOK
<1>. QED
  BY <1>1, <1>2, <1>3 DEF WorkerStep

\* The three kinds of step that move a detection; all others leave it alone.
LEMMA PlacesFrame ==
  ASSUME TypeOK, [Next]_vars
  PROVE  \/ \E f \in Freqs : Detect(f)
         \/ \E w \in Workers : Pop(w) /\ job[w] = None /\ UNCHANGED <<intake, outcomes>>
         \/ \E w \in Workers : WorkerFinish(w)
         \/ UNCHANGED places
BY WorkerPlaces
  DEF places, intake, workers, outcomes, Next, StopStep, SubStep, Terminated, vars, Start,
      StartSubscription, Tick, StopFlag, StopNotify, StopCopy, StopContainer,
      JoinSubscription, JoinWorkers, SubLoop, SubCreate, RunStopped, RunFails, SubClear,
      DetectNotify

\* What a worker's pop does to the three places a detection can be in.
LEMMA PopMoves ==
  ASSUME TypeOK, OnePlaceEach, NEW w \in Workers, Pop(w), job[w] = None
  PROVE  /\ Head(queue) \in Detection
         /\ InWork' = InWork \cup {Head(queue)}
         /\ Queued = Queued' \cup {Head(queue)}
         /\ Head(queue) \notin Queued'
<1>1. /\ queue \in Seq(Detection) /\ queue # <<>>
      /\ queue' = Tail(queue)
      /\ job' = [job EXCEPT ![w] = Head(queue)]
  BY DEF Pop, TypeOK
<1>2. Head(queue) \in Detection
  BY <1>1
<1>3. Queued = Queued' \cup {Head(queue)}
  BY <1>1, TailRange DEF Queued
<1>4. Head(queue) \notin Queued'
  <2>1. SUFFICES ASSUME NEW i \in DOMAIN queue', queue'[i] = Head(queue)
                 PROVE  FALSE
    BY DEF Queued, Range
  <2>2. /\ i + 1 \in DOMAIN queue /\ 1 \in DOMAIN queue
        /\ queue[i + 1] = queue[1] /\ i + 1 # 1
    BY <1>1, <2>1
  <2>. QED
    BY <2>2 DEF OnePlaceEach
<1>5. InWork' = InWork \cup {Head(queue)}
  <2>1. \A v \in Workers : job'[v] = IF v = w THEN Head(queue) ELSE job[v]
    BY <1>1 DEF TypeOK
  <2>2. Head(queue) # None
    BY <1>2, ServiceAssumption DEF ServiceAssumption
  <2>. QED
    BY <2>1, <2>2 DEF InWork
<1>. QED
  BY <1>2, <1>3, <1>4, <1>5

\* What the end of an analysis does to them.
LEMMA FinishMoves ==
  ASSUME TypeOK, OnePlaceEach, NEW w \in Workers, WorkerFinish(w)
  PROVE  /\ job[w] \in InWork
         /\ InWork' = InWork \ {job[w]}
         /\ Finished' = Finished \cup {job[w]}
         /\ UNCHANGED <<queue, admitted, dropped>>
<1>1. /\ job[w] # None
      /\ job' = [job EXCEPT ![w] = None]
      /\ UNCHANGED <<queue, admitted, dropped>>
      /\ Finished' = Finished \cup {job[w]}
  BY DEF WorkerFinish, TypeOK, intake, Finished
<1>2. \A v \in Workers : job'[v] = IF v = w THEN None ELSE job[v]
  BY <1>1 DEF TypeOK
<1>3. \A v \in Workers : job[v] = job[w] => v = w
  BY <1>1 DEF OnePlaceEach
<1>. QED
  BY <1>1, <1>2, <1>3 DEF InWork

\* A report that passes the cooldown test was not admitted before.
LEMMA AdmissionIsNew ==
  ASSUME TypeOK, AdmissionsRecorded, NEW f \in Freqs, ~InCooldown(Bucket(f))
  PROVE  [freq |-> f, at |-> now] \notin admitted
<1> SUFFICES ASSUME [freq |-> f, at |-> now] \in admitted PROVE FALSE
  OBVIOUS
<1>1. now - now >= Cooldown
  BY AdmissionIsSpaced
<1>. QED
  BY <1>1, ServiceAssumption DEF ServiceAssumption, TypeOK

LEMMA AdmittedBeforeNow ==
  ASSUME TypeOK, AdmissionsRecorded, NEW e \in admitted
  PROVE  e.at \in Nat /\ e.at <= now
<1>1. e.at \in Nat /\ now \in Nat /\ Bucket(e.freq) \in Buckets
  BY DEF TypeOK, Detection, Buckets
<1>2. /\ recentAnalyzed[Bucket(e.freq)] # None
      /\ e.at <= recentAnalyzed[Bucket(e.freq)]
      /\ recentAnalyzed[Bucket(e.freq)] <= now
  BY <1>1 DEF AdmissionsRecorded
<1>3. recentAnalyzed[Bucket(e.freq)] \in Nat
  BY <1>1, <1>2 DEF TypeOK
<1>. QED
  BY <1>1, <1>2, <1>3

LEMMA DetectKeepsPlaces ==
  ASSUME TypeOK, AdmissionsRecorded, OnePlaceEach, OldestFirst, NEW f \in Freqs, Detect(f)
  PROVE  OnePlaceEach' /\ OldestFirst'
<1> DEFINE d == [freq |-> f, at |-> now]
<1>1. /\ d \in Detection /\ d.at = now
      /\ queue \in Seq(Detection)
      /\ admitted' = admitted \cup {d}
      /\ UNCHANGED <<job, published, failed>>
  BY DEF TypeOK, Detection, Detect, workers, outcomes
<1>2. d \notin admitted
  BY AdmissionIsNew DEF Detect
<1>3. InWork' = InWork /\ Finished' = Finished
  BY <1>1 DEF InWork, Finished
<1>4. \A e \in admitted : e.at \in Nat /\ e.at <= now
  BY AdmittedBeforeNow
<1>5. CASE queue' = Append(queue, d) /\ dropped' = dropped
  <2>1. Queued' = Queued \cup {d}
    BY <1>1, <1>5, AppendRange DEF Queued
  <2>2. /\ DOMAIN queue' = 1..(Len(queue) + 1) /\ DOMAIN queue = 1..Len(queue)
        /\ Len(queue) \in Nat
        /\ \A i \in 1..Len(queue) : queue'[i] = queue[i] /\ queue[i] \in Queued
        /\ queue'[Len(queue) + 1] = d
    BY <1>1, <1>5 DEF Queued, Range
  <2>3. Queued \subseteq admitted /\ d \notin Queued
    BY <1>2 DEF OnePlaceEach
  <2>4. \A i, j \in DOMAIN queue' : queue'[i] = queue'[j] => i = j
    BY <2>2, <2>3 DEF OnePlaceEach
  <2>5. OnePlaceEach'
    BY <1>1, <1>2, <1>3, <1>5, <2>1, <2>4 DEF OnePlaceEach
  <2>6. \A i, j \in DOMAIN queue' : i < j => queue'[i].at <= queue'[j].at
    BY <1>1, <1>4, <2>2, <2>3 DEF OldestFirst
  <2>7. \A e \in InWork \cup Finished : e.at <= d.at
    BY <1>1, <1>4 DEF OnePlaceEach
  <2>. QED
    BY <1>3, <2>1, <2>5, <2>6, <2>7 DEF OldestFirst
<1>6. CASE queue' = queue /\ dropped' = dropped \cup {d}
  <2>1. Queued' = Queued
    BY <1>6 DEF Queued
  <2>2. OnePlaceEach'
    BY <1>1, <1>2, <1>3, <1>6, <2>1 DEF OnePlaceEach
  <2>. QED
    BY <1>3, <1>6, <2>1, <2>2 DEF OldestFirst
<1>. QED
  BY <1>5, <1>6 DEF Detect

LEMMA PopKeepsPlaces ==
  ASSUME TypeOK, OnePlaceEach, OldestFirst,
         NEW w \in Workers, Pop(w), job[w] = None, UNCHANGED <<intake, outcomes>>
  PROVE  OnePlaceEach' /\ OldestFirst'
<1>1. /\ InWork' = InWork \cup {Head(queue)}
      /\ Queued = Queued' \cup {Head(queue)}
      /\ Head(queue) \notin Queued'
      /\ Head(queue) \in Detection
  BY PopMoves
<1>2. /\ UNCHANGED <<admitted, dropped, published, failed>> /\ Finished' = Finished
      /\ queue \in Seq(Detection) /\ queue # <<>> /\ queue' = Tail(queue)
      /\ job' = [job EXCEPT ![w] = Head(queue)]
  BY DEF Pop, TypeOK, intake, outcomes, Finished
<1>3. /\ DOMAIN queue = 1..Len(queue) /\ Len(queue) \in Nat \ {0}
      /\ DOMAIN queue' = 1..(Len(queue) - 1)
      /\ \A i \in DOMAIN queue' : i + 1 \in DOMAIN queue /\ queue'[i] = queue[i + 1]
      /\ Head(queue) = queue[1]
  BY <1>2
<1>4. \A i, j \in DOMAIN queue' : queue'[i] = queue'[j] => i = j
  BY <1>3 DEF OnePlaceEach
<1>5. \A u, v \in Workers : job'[u] = job'[v] /\ job'[u] # None => u = v
  <2>1. \A v \in Workers : job[v] # Head(queue)
    BY <1>1 DEF OnePlaceEach, InWork
  <2>2. \A v \in Workers : job'[v] = IF v = w THEN Head(queue) ELSE job[v]
    BY <1>2 DEF TypeOK
  <2>. QED
    BY <2>1, <2>2 DEF OnePlaceEach
<1>6. OnePlaceEach'
  BY <1>1, <1>2, <1>4, <1>5 DEF OnePlaceEach
<1>7. \A i, j \in DOMAIN queue' : i < j => queue'[i].at <= queue'[j].at
  BY <1>3 DEF OldestFirst
<1>8. \A e \in Queued' : Head(queue).at <= e.at
  <2>1. SUFFICES ASSUME NEW i \in DOMAIN queue'
                 PROVE  Head(queue).at <= queue'[i].at
    BY DEF Queued, Range
  <2>2. 1 \in DOMAIN queue /\ i + 1 \in DOMAIN queue /\ 1 < i + 1
    BY <1>3, <2>1
  <2>. QED
    BY <1>3, <2>2 DEF OldestFirst
<1>9. OldestFirst'
  BY <1>1, <1>2, <1>7, <1>8 DEF OldestFirst
<1>. QED
  BY <1>6, <1>9

LEMMA FinishKeepsPlaces ==
  ASSUME TypeOK, OnePlaceEach, OldestFirst, NEW w \in Workers, WorkerFinish(w)
  PROVE  OnePlaceEach' /\ OldestFirst'
<1>1. /\ job[w] \in InWork
      /\ InWork' = InWork \ {job[w]}
      /\ Finished' = Finished \cup {job[w]}
      /\ UNCHANGED <<queue, admitted, dropped>>
  BY FinishMoves
<1>2. Queued' = Queued
  BY <1>1 DEF Queued
<1>3. \A u, v \in Workers : job'[u] = job'[v] /\ job'[u] # None => u = v
  BY DEF WorkerFinish, OnePlaceEach, TypeOK
<1>4. published' \cap failed' = {}
  BY <1>1 DEF WorkerFinish, OnePlaceEach, Finished
<1>5. OnePlaceEach'
  BY <1>1, <1>2, <1>3, <1>4 DEF OnePlaceEach
<1>6. OldestFirst'
  BY <1>1, <1>2 DEF OldestFirst
<1>. QED
  BY <1>5, <1>6

LEMMA NextPlaces ==
  ASSUME TypeOK, AdmissionsRecorded, OnePlaceEach, OldestFirst, [Next]_vars
  PROVE  OnePlaceEach' /\ OldestFirst'
<1>1. CASE UNCHANGED places
  BY <1>1 DEF places, OnePlaceEach, OldestFirst, Queued, InWork, Finished
<1>. QED
  BY <1>1, PlacesFrame, DetectKeepsPlaces, PopKeepsPlaces, FinishKeepsPlaces

LEMMA InitPlaces == Init => OnePlaceEach /\ OldestFirst
<1> SUFFICES ASSUME Init PROVE OnePlaceEach /\ OldestFirst
  OBVIOUS
<1>1. Queued = {} /\ InWork = {} /\ Finished = {} /\ DOMAIN queue = {}
  BY DEF Init, Queued, InWork, Finished, Range
<1>. QED
  BY <1>1 DEF Init, OnePlaceEach, OldestFirst

\* Every admitted detection is in exactly one place, and workers take them up
\* in the order of admission.
THEOREM NothingLostOrDoubled == Spec => [](OnePlaceEach /\ OldestFirst)
<1>1. Init => AdmissionsRecorded /\ CooldownSpacing /\ OnePlaceEach /\ OldestFirst
  BY InitAdmissions, InitPlaces
<1>2. /\ TypeOK
      /\ AdmissionsRecorded /\ CooldownSpacing /\ OnePlaceEach /\ OldestFirst
      /\ [Next]_vars
      => AdmissionsRecorded' /\ CooldownSpacing' /\ OnePlaceEach' /\ OldestFirst'
  BY NextAdmissions, NextPlaces
<1>. QED
  BY <1>1, <1>2, ServiceTypeOK, PTL DEF Spec

-----------------------------------------------------------------------------
(* The shutdown protocol. *)

LEMMA NextStopProtocol ==
  ASSUME TypeOK, StopProtocol, [Next]_vars
  PROVE  StopProtocol'
<1> USE DEF StopProtocol
<1>1. CASE Start
  BY <1>1 DEF Start, stopping
<1>2. CASE StartSubscription
  BY <1>2 DEF StartSubscription, stopping
<1>3. CASE StopFlag
  BY <1>3 DEF StopFlag, stopping
<1>4. CASE StopStep
  BY <1>4 DEF StopStep, StopNotify, StopCopy, StopContainer, JoinSubscription,
              JoinWorkers, stopping, workers, TypeOK
\* A container is created only while running_ is up, that is before stop().
<1>5. CASE SubCreate
  BY <1>5 DEF SubCreate, stopping, TypeOK
<1>6. CASE SubLoop \/ RunStopped \/ RunFails \/ SubClear
  BY <1>6 DEF SubLoop, RunStopped, RunFails, SubClear, stopping
<1>7. ASSUME NEW f \in Freqs, Detect(f)
      PROVE  StopProtocol'
  BY <1>7 DEF Detect, stopping
<1>8. CASE DetectNotify
  BY <1>8 DEF DetectNotify, stopping
<1>9. ASSUME NEW w \in Workers, WorkerStep(w)
      PROVE  StopProtocol'
  BY <1>9 DEF WorkerStep, WorkerLoop, WorkerLock, WorkerSleep, WorkerTimeout,
              WorkerTimedOut, WorkerFinish, stopping
<1>10. CASE Tick
  BY <1>10 DEF Tick, stopping, workers
<1>11. CASE UNCHANGED vars
  BY <1>11 DEF vars, stopping, workers
<1>. QED
  BY <1>1, <1>2, <1>3, <1>4, <1>5, <1>6, <1>7, <1>8, <1>9, <1>10, <1>11
  DEF Next, SubStep, Terminated

\* When stop() waits for the subscription thread, the container that thread
\* is running, if any, is one stop() has stopped.
THEOREM StopReachesContainer == Spec => []NoOrphanContainer
<1>1. Init => StopProtocol
  BY DEF Init, StopProtocol
<1>2. TypeOK /\ StopProtocol /\ [Next]_vars => StopProtocol'
  BY NextStopProtocol
<1>3. StopProtocol => NoOrphanContainer
  BY DEF StopProtocol, NoOrphanContainer
<1>. QED
  BY <1>1, <1>2, <1>3, ServiceTypeOK, PTL DEF Spec

-----------------------------------------------------------------------------
(* The threads implement the abstract intake. *)

\* The abstract state is a function of these variables.
LEMMA MappedVariables ==
  ASSUME UNCHANGED <<queue, job, published, failed, dropped>>,
         (mainPc = "stopped") <=> (mainPc' = "stopped")
  PROVE  UNCHANGED Promise!intakeVars
BY DEF Promise!intakeVars, InWork, Finished

LEMMA InitRefines == Init => Promise!Init
  BY DEF Init, Promise!Init, InWork, Finished

LEMMA DetectRefines ==
  ASSUME TypeOK, AdmissionsRecorded, OnePlaceEach, StopProtocol, QueueBounded,
         NEW f \in Freqs, Detect(f)
  PROVE  Promise!Admit([freq |-> f, at |-> now])
<1> DEFINE d == [freq |-> f, at |-> now]
<1>1. Promise!Seen = admitted
  BY DEF Promise!Seen, Promise!Range, Range, OnePlaceEach, Queued, Finished
<1>2. \A e \in admitted : SameBucket(d, e) => d.at - e.at >= Cooldown
  BY AdmissionIsSpaced DEF SameBucket, Detect
<1>3. Promise!Spaced(d)
  BY <1>1, <1>2 DEF Promise!Spaced
<1>4. mainPc # "stopped" /\ mainPc' = mainPc
  BY DEF Detect, StopProtocol
<1>5. InWork' = InWork /\ Finished' = Finished
  BY DEF Detect, workers, outcomes, InWork, Finished
<1>6. Len(queue) \in Nat /\ (Len(queue) < MaxQueueDepth \/ Len(queue) = MaxQueueDepth)
  BY ServiceAssumption DEF ServiceAssumption, TypeOK, QueueBounded
<1>. QED
  BY <1>3, <1>4, <1>5, <1>6 DEF Promise!Admit, Detect

LEMMA NextQueueBounded ==
  ASSUME TypeOK, QueueBounded, [Next]_vars
  PROVE  QueueBounded'
<1>1. ASSUME NEW f \in Freqs, Detect(f)
      PROVE  QueueBounded'
  BY <1>1, ServiceAssumption DEF ServiceAssumption, Detect, QueueBounded, TypeOK
<1>2. ASSUME NEW w \in Workers, Pop(w)
      PROVE  QueueBounded'
  BY <1>2, ServiceAssumption DEF ServiceAssumption, Pop, QueueBounded, TypeOK
<1>3. CASE UNCHANGED queue
  BY <1>3 DEF QueueBounded
<1>. QED
  BY <1>1, <1>2, <1>3, PlacesFrame DEF places, WorkerFinish

\* A step of the threads is a step of the abstract intake or changes nothing
\* in it.
LEMMA StepRefines ==
  ASSUME TypeOK, AdmissionsRecorded, OnePlaceEach, StopProtocol, QueueBounded, [Next]_vars
  PROVE  [Promise!Next]_(Promise!intakeVars)
<1>1. ASSUME NEW f \in Freqs, Detect(f)
      PROVE  Promise!Next
  BY <1>1, DetectRefines DEF Promise!Next, Detection, TypeOK
<1>2. ASSUME NEW w \in Workers, WorkerStep(w)
      PROVE  [Promise!Next]_(Promise!intakeVars)
  <2>1. mainPc' = mainPc /\ mainPc # "stopped"
    BY <1>2 DEF StopProtocol, WorkerStep, WorkerLoop, WorkerLock, WorkerSleep,
                WorkerTimeout, WorkerTimedOut, WorkerFinish
  <2>2. CASE WorkerFinish(w)
    <3>1. Promise!Complete(job[w])
      BY <2>1, <2>2, FinishMoves DEF Promise!Complete
    <3>2. job[w] \in Detection
      BY <2>2 DEF WorkerFinish, TypeOK
    <3>. QED
      BY <3>1, <3>2 DEF Promise!Next
  <2>3. ASSUME Pop(w), job[w] = None, UNCHANGED <<intake, outcomes>>
        PROVE  Promise!Next
    <3>1. InWork' = InWork \cup {Head(queue)}
      BY <2>3, PopMoves
    <3>2. Promise!TakeUp
      BY <2>1, <2>3, <3>1 DEF Promise!TakeUp, Pop, intake, outcomes, Finished
    <3>. QED
      BY <3>2 DEF Promise!Next
  <2>4. CASE UNCHANGED places
    BY <2>1, <2>4, MappedVariables DEF places
  <2>. QED
    BY <1>2, <2>2, <2>3, <2>4, WorkerPlaces
<1>3. CASE JoinWorkers
  <2>1. InWork = {}
    BY <1>3 DEF JoinWorkers, InWork, TypeOK
  <2>2. Promise!Close
    BY <1>3, <2>1 DEF Promise!Close, JoinWorkers, intake, workers, outcomes, InWork, Finished
  <2>. QED
    BY <2>2 DEF Promise!Next
<1>4. ASSUME \/ Start \/ StartSubscription \/ StopFlag \/ StopNotify \/ StopCopy
             \/ StopContainer \/ JoinSubscription \/ SubStep \/ RunFails \/ DetectNotify
             \/ Tick \/ UNCHANGED vars
      PROVE  UNCHANGED Promise!intakeVars
  <2>1. /\ UNCHANGED <<queue, job, published, failed, dropped>>
        /\ (mainPc = "stopped") <=> (mainPc' = "stopped")
    BY <1>4 DEF Start, StartSubscription, StopFlag, StopNotify, StopCopy, StopContainer,
                JoinSubscription, SubStep, SubLoop, SubCreate, RunStopped, SubClear,
                RunFails, DetectNotify, Tick, vars, intake, workers, outcomes
  <2>. QED
    BY <2>1, MappedVariables
<1>. QED
  BY <1>1, <1>2, <1>3, <1>4 DEF Next, StopStep, Terminated

\* Callback, workers and stop() together implement the abstract intake: every
\* step is one of its steps or invisible to it.
THEOREM ServiceKeepsPromise == Spec => KeepsPromise
<1> DEFINE Inv == /\ AdmissionsRecorded /\ CooldownSpacing /\ OnePlaceEach /\ OldestFirst
                  /\ StopProtocol /\ QueueBounded
<1>1. Init => Inv
  BY InitAdmissions, InitPlaces, ServiceAssumption
  DEF ServiceAssumption, Init, StopProtocol, QueueBounded
<1>2. TypeOK /\ Inv /\ [Next]_vars => Inv'
  BY NextAdmissions, NextPlaces, NextStopProtocol, NextQueueBounded
<1>3. TypeOK /\ Inv /\ [Next]_vars => [Promise!Next]_(Promise!intakeVars)
  BY StepRefines
<1> HIDE DEF Inv
<1>. QED
  BY <1>1, <1>2, <1>3, InitRefines, ServiceTypeOK, PTL DEF Spec, KeepsPromise, Promise!Spec

=============================================================================
