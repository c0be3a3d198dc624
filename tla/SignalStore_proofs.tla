-------------------------- MODULE SignalStore_proofs --------------------------
(***************************************************************************)
(* Theorems about SignalStore for every number of workers and rows and     *)
(* every set of frequencies, bandwidths and modulations.                   *)
(***************************************************************************)
EXTENDS SignalStore, TLAPS

-----------------------------------------------------------------------------
(* Type correctness. *)

LEMMA NewRowType ==
  ASSUME NEW r \in Result
  PROVE  NewRow(r) \in Row /\ NewRow(r).hits = 1
  BY DEF NewRow, Row, Result

LEMMA UpdatedRowType ==
  ASSUME NEW row \in Row, NEW r \in Result, NEW f \in Freqs, NEW m \in Modulations \cup {NoMod}
  PROVE  [freq |-> f, mod |-> m, bw |-> Bandwidth(row, r), classified |-> r.classified,
          recent |-> TRUE, hits |-> row.hits + 1] \in Row
<1>1. Bandwidth(row, r) \in Bandwidths
  BY DEF Bandwidth, Row, Result
<1>2. r.classified \in BOOLEAN /\ row.hits + 1 \in Nat
  BY DEF Row, Result
<1>. QED
  BY <1>1, <1>2 DEF Row

LEMMA AgedRowType ==
  ASSUME NEW row \in Row
  PROVE  /\ [row EXCEPT !.recent = FALSE] \in Row
         /\ [row EXCEPT !.recent = FALSE].hits = row.hits
  BY DEF Row

LocksMatch ==
    \A w \in Workers, i \in Rows :
        (lock[i] = w) <=> (pc[w] = "commit" /\ step[w] \in {"known", "promote"} /\ target[w] = i)

\* The end of a call keeps the types of the worker's variables.
LEMMA EndTypes ==
  ASSUME TypeOK, NEW w \in Workers, NEW c \in BOOLEAN, End(w, c)
  PROVE  /\ lock' \in [Rows -> Workers \cup {None}]
         /\ pc' \in [Workers -> {"idle", "connect", "existing", "update", "unclassified",
                                 "promote", "insert", "commit"}]
         /\ connected' \in [Workers -> BOOLEAN]
         /\ result' \in [Workers -> Result \cup {None}]
         /\ target' \in [Workers -> Rows \cup {0}]
         /\ step' \in [Workers -> {"none", "known", "promote", "insert"}]
         /\ write' \in [Workers -> Row \cup {None}]
         /\ \A v \in Workers : (result'[v] = None) <=> (pc'[v] = "idle")
         /\ \A v \in Workers : pc'[v] \in {"update", "promote", "commit"} =>
                pc'[v] = pc[v] /\ target'[v] = target[v] /\ write'[v] = write[v]
         /\ LocksMatch'
<1> USE StoreAssumption DEF StoreAssumption, TypeOK, End
<1>1. LocksMatch'
  BY DEF LocksMatch
<1>. QED
  BY <1>1

LEMMA InitTypeOK == Init => TypeOK
<1> SUFFICES ASSUME Init PROVE TypeOK
  OBVIOUS
<1>1. nextRow \in 1..(MaxResults + MaxPlanted + 1)
  BY StoreAssumption DEF StoreAssumption, Init
<1>2. \A w \in Workers, i \in Rows : lock[i] # w /\ pc[w] # "commit"
  BY StoreAssumption DEF StoreAssumption, Init
<1>. QED
  BY <1>1, <1>2, StoreAssumption DEF StoreAssumption, Init, TypeOK

\* What is remembered of the rows keeps its type.
LEMMA SeenType ==
  ASSUME TypeOK, [Next]_vars
  PROVE  seen' \in [Workers -> [Rows -> Nat]]
<1> USE DEF TypeOK
<1>1. ASSUME NEW w \in Workers, NEW c \in BOOLEAN, End(w, c)
      PROVE  seen' \in [Workers -> [Rows -> Nat]]
  BY <1>1 DEF End
<1>2. ASSUME NEW w \in Workers, SelectExisting(w) PROVE seen' \in [Workers -> [Rows -> Nat]]
  BY <1>2 DEF SelectExisting
<1>3. ASSUME NEW w \in Workers, SelectUnclassified(w) PROVE seen' \in [Workers -> [Rows -> Nat]]
  <2>1. CASE UNCHANGED seen
    BY <2>1
  <2>2. ASSUME NEW i \in Nearest(Unclassified(result[w]), result[w]),
               seen' = [seen EXCEPT ![w][i] = credits[i]]
        PROVE  seen' \in [Workers -> [Rows -> Nat]]
    <3>1. i \in Rows
      BY <2>2 DEF Nearest, Unclassified, Committed
    <3>. QED
      BY <2>2, <3>1
  <2>. QED
    BY <1>3, <2>1, <2>2 DEF SelectUnclassified
<1>4. ASSUME NEW w \in Workers, \/ \E r \in Result : Persist(w, r)
                                \/ Connect(w) \/ UpdateExisting(w) \/ UpdatePromote(w) \/ Insert(w)
      PROVE  seen' \in [Workers -> [Rows -> Nat]]
  BY <1>4 DEF Persist, Connect, UpdateExisting, UpdatePromote, Insert
<1>5. CASE \/ UNCHANGED vars \/ \E f \in Freqs, b \in Bandwidths : Plant(f, b)
           \/ \E i \in Rows : RowAges(i)
  BY <1>5 DEF vars, workerVars, Plant, RowAges
<1>6. ASSUME NEW w \in Workers, ConnectFails(w) \/ Commit(w) \/ Fails(w)
      PROVE  seen' \in [Workers -> [Rows -> Nat]]
  <2>1. \E c \in BOOLEAN : End(w, c)
    BY ONLY <1>6 DEF ConnectFails, Commit, Fails
  <2>. QED
    BY <1>1, <2>1
<1> HIDE DEF TypeOK
<1>. QED
  BY <1>2, <1>3, <1>4, <1>5, <1>6 DEF Next, WorkerStep

LEMMA NextTypeOK == TypeOK /\ [Next]_vars => TypeOK'
<1> SUFFICES ASSUME TypeOK, [Next]_vars PROVE TypeOK'
  OBVIOUS
<1> USE StoreAssumption DEF StoreAssumption, workerVars, Committed
<1>0. seen' \in [Workers -> [Rows -> Nat]]
  BY SeenType
<1>1. ASSUME NEW w \in Workers, NEW r \in Result, Persist(w, r) PROVE TypeOK'
  BY <1>1 DEF Persist, TypeOK
<1>2. ASSUME NEW w \in Workers, Connect(w) PROVE TypeOK'
  BY <1>2 DEF Connect, TypeOK
<1>3. ASSUME NEW w \in Workers, ConnectFails(w) PROVE TypeOK'
  <2>1. End(w, FALSE) /\ UNCHANGED <<table, nextRow, planted, published, credits>>
    BY <1>3 DEF ConnectFails
  <2>2. /\ \A v \in Workers : pc'[v] \in {"update", "promote"} => target'[v] \in Committed'
        /\ \A v \in Workers : pc'[v] = "commit" => target'[v] \in Rows /\ write'[v] \in Row
    <3>1. \A v \in Workers : pc'[v] \in {"update", "promote", "commit"} =>
              pc'[v] = pc[v] /\ target'[v] = target[v] /\ write'[v] = write[v]
      BY <2>1, EndTypes
    <3>2. table' = table
      BY <2>1
    <3>. QED
      BY <3>1, <3>2 DEF TypeOK
  <2>. QED
    BY <1>0, <2>1, <2>2, EndTypes DEF TypeOK, LocksMatch
<1>4. ASSUME NEW w \in Workers, SelectExisting(w) PROVE TypeOK'
  <2>1. /\ target' \in [Workers -> Rows \cup {0}]
        /\ pc'[w] = "update" => target'[w] \in Committed
    BY <1>4 DEF SelectExisting, TypeOK, Nearest, Existing
  <2>2. pc' \in {[pc EXCEPT ![w] = "unclassified"], [pc EXCEPT ![w] = "update"]}
    BY <1>4 DEF SelectExisting
  <2>3. pc[w] = "existing" /\ \A v \in Workers \ {w} : target'[v] = target[v]
    BY <1>4 DEF SelectExisting, TypeOK
  <2>4. UNCHANGED <<table, nextRow, planted, lock, connected, result, step, write, published,
                    credits>>
    BY <1>4 DEF SelectExisting
  <2>5. /\ pc' \in [Workers -> {"idle", "connect", "existing", "update", "unclassified",
                        "promote", "insert", "commit"}]
        /\ \A v \in Workers : (pc'[v] # "idle") <=> (pc[v] # "idle")
        /\ \A v \in Workers : (pc'[v] = "commit") <=> (pc[v] = "commit")
        /\ \A v \in Workers : v # w => pc'[v] = pc[v]
    <3>1. pc \in [Workers -> {"idle", "connect", "existing", "update", "unclassified",
                              "promote", "insert", "commit"}]
      BY DEF TypeOK
    <3>. QED
      BY <2>2, <2>3, <3>1
  <2>6. LocksMatch'
    <3>1. LocksMatch
      BY DEF TypeOK, LocksMatch
    <3>. QED
      BY <2>3, <2>4, <2>5, <3>1 DEF LocksMatch
  <2>7. /\ \A v \in Workers : pc'[v] \in {"update", "promote"} => target'[v] \in Committed
        /\ \A v \in Workers : pc'[v] = "commit" => target'[v] \in Rows /\ write'[v] \in Row
    <3> SUFFICES ASSUME NEW v \in Workers
                 PROVE  /\ (pc'[v] \in {"update", "promote"} => target'[v] \in Committed)
                        /\ (pc'[v] = "commit" => target'[v] \in Rows /\ write'[v] \in Row)
      OBVIOUS
    <3>1. CASE v = w
      <4>1. pc'[w] \in {"unclassified", "insert", "update", "promote"}
        BY <2>2, <2>5
      <4>. QED
        BY <2>1, <2>2, <2>3, <2>5, <3>1, <4>1
    <3>2. CASE v # w
      <4>1. pc'[v] = pc[v] /\ target'[v] = target[v] /\ write'[v] = write[v]
        BY <2>3, <2>4, <2>5, <3>2
      <4>. QED
        BY <4>1 DEF TypeOK
    <3>. QED
      BY <3>1, <3>2
  <2>. QED
    BY <1>0, <2>1, <2>4, <2>5, <2>6, <2>7 DEF TypeOK, LocksMatch
<1>5. ASSUME NEW w \in Workers, SelectUnclassified(w) PROVE TypeOK'
  <2>1. /\ target' \in [Workers -> Rows \cup {0}]
        /\ pc'[w] = "promote" => target'[w] \in Committed
    BY <1>5 DEF SelectUnclassified, TypeOK, Nearest, Unclassified
  <2>2. pc' \in {[pc EXCEPT ![w] = "insert"], [pc EXCEPT ![w] = "promote"]}
    BY <1>5 DEF SelectUnclassified
  <2>3. pc[w] = "unclassified" /\ \A v \in Workers \ {w} : target'[v] = target[v]
    BY <1>5 DEF SelectUnclassified, TypeOK
  <2>4. UNCHANGED <<table, nextRow, planted, lock, connected, result, step, write, published,
                    credits>>
    BY <1>5 DEF SelectUnclassified
  <2>5. /\ pc' \in [Workers -> {"idle", "connect", "existing", "update", "unclassified",
                        "promote", "insert", "commit"}]
        /\ \A v \in Workers : (pc'[v] # "idle") <=> (pc[v] # "idle")
        /\ \A v \in Workers : (pc'[v] = "commit") <=> (pc[v] = "commit")
        /\ \A v \in Workers : v # w => pc'[v] = pc[v]
    <3>1. pc \in [Workers -> {"idle", "connect", "existing", "update", "unclassified",
                              "promote", "insert", "commit"}]
      BY DEF TypeOK
    <3>. QED
      BY <2>2, <2>3, <3>1
  <2>6. LocksMatch'
    <3>1. LocksMatch
      BY DEF TypeOK, LocksMatch
    <3>. QED
      BY <2>3, <2>4, <2>5, <3>1 DEF LocksMatch
  <2>7. /\ \A v \in Workers : pc'[v] \in {"update", "promote"} => target'[v] \in Committed
        /\ \A v \in Workers : pc'[v] = "commit" => target'[v] \in Rows /\ write'[v] \in Row
    <3> SUFFICES ASSUME NEW v \in Workers
                 PROVE  /\ (pc'[v] \in {"update", "promote"} => target'[v] \in Committed)
                        /\ (pc'[v] = "commit" => target'[v] \in Rows /\ write'[v] \in Row)
      OBVIOUS
    <3>1. CASE v = w
      <4>1. pc'[w] \in {"unclassified", "insert", "update", "promote"}
        BY <2>2, <2>5
      <4>. QED
        BY <2>1, <2>2, <2>3, <2>5, <3>1, <4>1
    <3>2. CASE v # w
      <4>1. pc'[v] = pc[v] /\ target'[v] = target[v] /\ write'[v] = write[v]
        BY <2>3, <2>4, <2>5, <3>2
      <4>. QED
        BY <4>1 DEF TypeOK
    <3>. QED
      BY <3>1, <3>2
  <2>. QED
    BY <1>0, <2>1, <2>4, <2>5, <2>6, <2>7 DEF TypeOK, LocksMatch
<1>6. ASSUME NEW w \in Workers, Insert(w) PROVE TypeOK'
  <2>1. NewRow(result[w]) \in Row
    BY <1>6, NewRowType DEF Insert, TypeOK
  <2>2. nextRow' \in 1..(MaxResults + MaxPlanted + 1)
    BY <1>6 DEF Insert, Rows
  <2>3. /\ write' = [write EXCEPT ![w] = NewRow(result[w])]
        /\ target' = [target EXCEPT ![w] = nextRow] /\ nextRow \in Rows
        /\ step' = [step EXCEPT ![w] = "insert"]
        /\ pc' = [pc EXCEPT ![w] = "commit"] /\ pc[w] = "insert"
        /\ UNCHANGED <<table, planted, lock, connected, result, published, credits>>
    BY <1>6 DEF Insert
  <2>4. \A v \in Workers : pc'[v] = "commit" => target'[v] \in Rows /\ write'[v] \in Row
    BY <2>1, <2>3 DEF TypeOK
  <2>5. \A v \in Workers, i \in Rows :
            (lock'[i] = v) <=>
                (pc'[v] = "commit" /\ step'[v] \in {"known", "promote"} /\ target'[v] = i)
    BY <2>3 DEF TypeOK
  <2>. QED
    BY <1>0, <2>1, <2>2, <2>3, <2>4, <2>5 DEF TypeOK
<1>7. ASSUME NEW w \in Workers, Fails(w) PROVE TypeOK'
  <2>1. End(w, FALSE) /\ UNCHANGED <<table, nextRow, planted, published, credits>>
    BY <1>7 DEF Fails
  <2>2. /\ \A v \in Workers : pc'[v] \in {"update", "promote"} => target'[v] \in Committed'
        /\ \A v \in Workers : pc'[v] = "commit" => target'[v] \in Rows /\ write'[v] \in Row
    <3>1. \A v \in Workers : pc'[v] \in {"update", "promote", "commit"} =>
              pc'[v] = pc[v] /\ target'[v] = target[v] /\ write'[v] = write[v]
      BY <2>1, EndTypes
    <3>2. table' = table
      BY <2>1
    <3>. QED
      BY <3>1, <3>2 DEF TypeOK
  <2>. QED
    BY <1>0, <2>1, <2>2, EndTypes DEF TypeOK, LocksMatch
<1>8. ASSUME NEW w \in Workers, UpdateExisting(w) \/ UpdatePromote(w) PROVE TypeOK'
  <2> DEFINE row == table[target[w]]
             r == result[w]
             new(f, m) == [freq |-> f, mod |-> m, bw |-> Bandwidth(row, r),
                           classified |-> r.classified, recent |-> TRUE, hits |-> row.hits + 1]
  <2>1. target[w] \in Rows /\ row \in Row /\ r \in Result
    BY <1>8 DEF UpdateExisting, UpdatePromote, TypeOK, Committed
  <2>2. /\ row.freq \in Freqs /\ r.freq \in Freqs
        /\ row.mod \in Modulations \cup {NoMod} /\ r.mod \in Modulations \cup {NoMod}
    BY <2>1 DEF Row, Result
  <2>3. new(row.freq, row.mod) \in Row /\ new(r.freq, r.mod) \in Row
    BY <2>1, <2>2, UpdatedRowType
  <2>4. PICK x \in Row : write' = [write EXCEPT ![w] = x]
    <3>1. CASE UpdateExisting(w)
      <4>1. write' = [write EXCEPT ![w] = new(row.freq, row.mod)]
        BY <3>1 DEF UpdateExisting
      <4>. QED
        BY <2>3, <4>1
    <3>2. CASE UpdatePromote(w)
      <4>1. write' = [write EXCEPT ![w] = new(r.freq, r.mod)]
        BY <3>2 DEF UpdatePromote
      <4>. QED
        BY <2>3, <4>1
    <3>. QED
      BY <1>8, <3>1, <3>2
  <2>5. /\ pc' = [pc EXCEPT ![w] = "commit"] /\ pc[w] # "idle" /\ pc[w] # "commit"
        /\ step' \in {[step EXCEPT ![w] = "known"], [step EXCEPT ![w] = "promote"]}
        /\ lock[target[w]] = None /\ lock' = [lock EXCEPT ![target[w]] = w]
        /\ UNCHANGED <<table, nextRow, planted, connected, result, target, published,
                       credits>>
    BY <1>8 DEF UpdateExisting, UpdatePromote
  <2> HIDE DEF row, r, new
  <2>6. \A v \in Workers, i \in Rows :
            (lock'[i] = v) <=>
                (pc'[v] = "commit" /\ step'[v] \in {"known", "promote"} /\ target'[v] = i)
    BY <2>1, <2>5 DEF TypeOK
  <2>7. \A v \in Workers : pc'[v] = "commit" => target'[v] \in Rows /\ write'[v] \in Row
    BY <2>1, <2>4, <2>5 DEF TypeOK
  <2>8. step' \in [Workers -> {"none", "known", "promote", "insert"}]
    <3>1. step \in [Workers -> {"none", "known", "promote", "insert"}]
      BY DEF TypeOK
    <3>. QED
      BY <2>5, <3>1
  <2>. QED
    BY <1>0, <2>1, <2>4, <2>5, <2>6, <2>7, <2>8 DEF TypeOK, Committed
<1>9. ASSUME NEW w \in Workers, Commit(w) PROVE TypeOK'
  <2>1. target[w] \in Rows /\ write[w] \in Row
    BY <1>9 DEF Commit, TypeOK
  <2>2. PICK c \in BOOLEAN : End(w, c)
    BY <1>9 DEF Commit
  <2>3. table' \in [Rows -> Row \cup {None}] /\ Committed \subseteq Committed'
    BY <1>9, <2>1 DEF Commit, TypeOK, Committed
  <2>4. credits' \in [Rows -> Nat] /\ UNCHANGED <<nextRow, planted, published>>
    BY <1>9, <2>1 DEF Commit, TypeOK
  <2>5. /\ \A v \in Workers : pc'[v] \in {"update", "promote"} => target'[v] \in Committed'
        /\ \A v \in Workers : pc'[v] = "commit" => target'[v] \in Rows /\ write'[v] \in Row
    BY <2>2, <2>3, EndTypes DEF TypeOK
  <2>. QED
    BY <1>0, <2>2, <2>3, <2>4, <2>5, EndTypes DEF TypeOK, LocksMatch
<1>10. ASSUME NEW f \in Freqs, NEW b \in Bandwidths, Plant(f, b) PROVE TypeOK'
  <2> DEFINE r == [freq |-> f, bw |-> b, mod |-> NoMod, classified |-> FALSE]
  <2>1. r \in Result
    BY DEF Result
  <2>2. PICK x \in Row : table' = [table EXCEPT ![nextRow] = x]
    BY <1>10, <2>1, NewRowType DEF Plant
  <2>3. table' \in [Rows -> Row \cup {None}] /\ Committed \subseteq Committed'
    <3>1. nextRow \in Rows
      BY <1>10 DEF Plant
    <3>. QED
      BY <2>2, <3>1 DEF TypeOK
  <2>4. nextRow' \in 1..(MaxResults + MaxPlanted + 1) /\ credits' \in [Rows -> Nat]
    BY <1>10 DEF Plant, TypeOK, Rows
  <2>5. planted' \in 0..MaxPlanted /\ UNCHANGED <<lock, workerVars, published>>
    BY <1>10 DEF Plant, TypeOK
  <2>. QED
    BY <1>0, <2>3, <2>4, <2>5 DEF TypeOK
<1>11. ASSUME NEW i \in Rows, RowAges(i) PROVE TypeOK'
  <2>1. table[i] \in Row
    BY <1>11 DEF RowAges, TypeOK
  <2>2. PICK x \in Row : table' = [table EXCEPT ![i] = x]
    BY <1>11, <2>1, AgedRowType DEF RowAges
  <2>3. table' \in [Rows -> Row \cup {None}] /\ Committed \subseteq Committed'
    BY <2>2 DEF TypeOK
  <2>. QED
    BY <1>11, <2>3 DEF RowAges, TypeOK
<1>12. CASE UNCHANGED vars
  BY <1>12 DEF vars, TypeOK, Committed
<1>. QED
  BY <1>1, <1>2, <1>3, <1>4, <1>5, <1>6, <1>7, <1>8, <1>9, <1>10, <1>11, <1>12
  DEF Next, WorkerStep

\* Every reachable state of the store is well typed; in particular a transaction
\* holds the lock of the row it has updated, and no other.
THEOREM StoreTypeOK == Spec => []TypeOK
<1>1. Init => TypeOK
  BY InitTypeOK
<1>2. TypeOK /\ [Next]_vars => TypeOK'
  BY NextTypeOK
<1>. QED
  BY <1>1, <1>2, PTL DEF Spec

-----------------------------------------------------------------------------
(* No hit is lost. *)

Fresh == \A i \in Rows : i >= nextRow => table[i] = None /\ credits[i] = 0

\* An uncommitted INSERT has an id of its own.
InsertsOwnRow ==
    \A v \in Workers : pc[v] = "commit" /\ step[v] = "insert" =>
        /\ table[target[v]] = None /\ credits[target[v]] = 0
        /\ target[v] < nextRow
        /\ write[v].hits = 1
        /\ \A w \in Workers : w # v /\ pc[w] = "commit" => target[w] # target[v]

\* An uncommitted UPDATE holds its lock, so nothing is committed to its row.
UpdatesCurrentRow ==
    \A v \in Workers : pc[v] = "commit" /\ step[v] \in {"known", "promote"} =>
        /\ target[v] \in Committed
        /\ write[v].hits = credits[target[v]] + 1

Wrote == \A v \in Workers : pc[v] = "commit" => step[v] \in {"known", "promote", "insert"}

StoreInv == TypeOK /\ HitsAreCredits /\ Fresh /\ InsertsOwnRow /\ UpdatesCurrentRow /\ Wrote
StoreParts == HitsAreCredits /\ Fresh /\ InsertsOwnRow /\ UpdatesCurrentRow /\ Wrote

LEMMA InitStoreInv == Init => StoreInv
<1> SUFFICES ASSUME Init PROVE StoreInv
  OBVIOUS
<1>1. TypeOK
  BY InitTypeOK
<1>. QED
  BY <1>1 DEF Init, StoreInv, HitsAreCredits, Fresh, InsertsOwnRow, UpdatesCurrentRow, Wrote,
              Committed

\* A step that leaves the table alone and makes no worker ready to commit.
LEMMA QuietStep ==
  ASSUME StoreInv, UNCHANGED <<table, nextRow, credits>>,
         \A v \in Workers : pc'[v] = "commit" =>
             /\ pc[v] = "commit" /\ target'[v] = target[v]
             /\ step'[v] = step[v] /\ write'[v] = write[v]
  PROVE  StoreParts'
  BY DEF StoreParts, StoreInv, HitsAreCredits, Fresh, InsertsOwnRow, UpdatesCurrentRow, Wrote,
         Committed

\* The end of a call changes nothing for the other workers.
LEMMA EndOthers ==
  ASSUME TypeOK, NEW w \in Workers, NEW c \in BOOLEAN, End(w, c)
  PROVE  /\ pc'[w] = "idle"
         /\ \A v \in Workers \ {w} : /\ pc'[v] = pc[v] /\ target'[v] = target[v]
                                     /\ step'[v] = step[v] /\ write'[v] = write[v]
  BY DEF TypeOK, End

LEMMA UpdateStoreInv ==
  ASSUME StoreInv, NEW w \in Workers, UpdateExisting(w) \/ UpdatePromote(w)
  PROVE  StoreParts'
<1> USE DEF StoreInv, HitsAreCredits, Fresh, Committed
<1>1. target[w] \in Rows /\ table[target[w]] # None
  BY DEF TypeOK, UpdateExisting, UpdatePromote
<1>2. /\ pc' = [pc EXCEPT ![w] = "commit"] /\ lock[target[w]] = None
      /\ step' \in {[step EXCEPT ![w] = "known"], [step EXCEPT ![w] = "promote"]}
      /\ UNCHANGED <<table, nextRow, target, credits>>
  BY DEF UpdateExisting, UpdatePromote
<1>3. write'[w].hits = table[target[w]].hits + 1 /\ \A v \in Workers \ {w} : write'[v] = write[v]
  BY DEF TypeOK, UpdateExisting, UpdatePromote
<1>4. write'[w].hits = credits[target[w]] + 1
  BY <1>1, <1>3
<1>5. /\ pc'[w] = "commit" /\ step'[w] \in {"known", "promote"}
      /\ \A v \in Workers \ {w} : pc'[v] = pc[v] /\ step'[v] = step[v]
  BY <1>2 DEF TypeOK
<1>6. HitsAreCredits' /\ Fresh'
  BY <1>2
<1>7. InsertsOwnRow'
  BY <1>1, <1>2, <1>3, <1>5 DEF InsertsOwnRow
<1>8. UpdatesCurrentRow' /\ Wrote'
  BY <1>1, <1>2, <1>3, <1>4, <1>5 DEF UpdatesCurrentRow, Wrote
<1>. QED
  BY <1>6, <1>7, <1>8 DEF StoreParts

LEMMA InsertStoreInv ==
  ASSUME StoreInv, NEW w \in Workers, Insert(w)
  PROVE  StoreParts'
<1> USE DEF StoreInv, Fresh, Committed
<1>1. result[w] \in Result /\ nextRow \in Rows /\ nextRow \in Nat
  BY DEF TypeOK, Insert, Rows
<1>2. /\ pc'[w] = "commit" /\ step'[w] = "insert" /\ target'[w] = nextRow
      /\ write'[w] = NewRow(result[w])
      /\ \A v \in Workers \ {w} : /\ pc'[v] = pc[v] /\ target'[v] = target[v]
                                  /\ step'[v] = step[v] /\ write'[v] = write[v]
      /\ nextRow' = nextRow + 1 /\ UNCHANGED <<table, credits>>
  BY DEF TypeOK, Insert
<1>3. write'[w].hits = 1
  BY <1>1, <1>2, NewRowType
<1>4. table[nextRow] = None /\ credits[nextRow] = 0
  BY <1>1
<1>5. \A v \in Workers : pc[v] = "commit" => target[v] < nextRow
  <2> SUFFICES ASSUME NEW v \in Workers, pc[v] = "commit" PROVE target[v] < nextRow
    OBVIOUS
  <2>1. CASE step[v] = "insert"
    BY <2>1 DEF InsertsOwnRow
  <2>2. CASE step[v] \in {"known", "promote"}
    <3>1. target[v] \in Rows /\ table[target[v]] # None
      BY <2>2 DEF UpdatesCurrentRow
    <3>. QED
      BY <1>1, <3>1 DEF Rows
  <2>. QED
    BY <2>1, <2>2 DEF Wrote
<1>6. HitsAreCredits' /\ Fresh'
  BY <1>1, <1>2 DEF HitsAreCredits, Rows
<1>7. InsertsOwnRow'
  <2> SUFFICES ASSUME NEW v \in Workers, pc'[v] = "commit", step'[v] = "insert"
               PROVE  /\ table[target'[v]] = None /\ credits[target'[v]] = 0
                      /\ target'[v] < nextRow' /\ write'[v].hits = 1
                      /\ \A u \in Workers : v # u /\ pc'[u] = "commit" => target'[u] # target'[v]
    BY <1>2 DEF InsertsOwnRow
  <2>1. \A u \in Workers : u # w /\ pc[u] = "commit" => target[u] \in Nat /\ target[u] < nextRow
    BY <1>5 DEF TypeOK, Rows
  <2>2. CASE v = w
    BY <1>1, <1>2, <1>3, <1>4, <2>1, <2>2
  <2>3. CASE v # w
    BY <1>1, <1>2, <2>1, <2>3 DEF InsertsOwnRow
  <2>. QED
    BY <2>2, <2>3
<1>8. UpdatesCurrentRow' /\ Wrote'
  BY <1>2 DEF UpdatesCurrentRow, Wrote
<1>. QED
  BY <1>6, <1>7, <1>8 DEF StoreParts

LEMMA CommitStoreInv ==
  ASSUME StoreInv, NEW w \in Workers, Commit(w)
  PROVE  StoreParts'
<1> DEFINE t == target[w]
<1> USE DEF StoreInv
<1>1. pc[w] = "commit" /\ t \in Rows /\ write[w] \in Row /\ write[w] # None
  BY StoreAssumption DEF StoreAssumption, Commit, TypeOK
<1>2. PICK c \in BOOLEAN : End(w, c)
  BY DEF Commit
<1>3. /\ pc'[w] = "idle"
      /\ \A v \in Workers \ {w} : /\ pc'[v] = pc[v] /\ target'[v] = target[v]
                                  /\ step'[v] = step[v] /\ write'[v] = write[v]
  BY <1>2, EndOthers
<1>4. /\ table' = [table EXCEPT ![t] = write[w]]
      /\ credits' = [credits EXCEPT ![t] = @ + 1]
      /\ nextRow' = nextRow
  BY DEF Commit
<1>5. /\ table'[t] = write[w] /\ credits'[t] = credits[t] + 1
      /\ \A i \in Rows : i # t => table'[i] = table[i] /\ credits'[i] = credits[i]
  BY <1>1, <1>4 DEF TypeOK
<1>6. write[w].hits = credits[t] + 1
  BY <1>1 DEF Wrote, InsertsOwnRow, UpdatesCurrentRow
<1>7. ASSUME NEW v \in Workers, v # w, pc[v] = "commit" PROVE target[v] # t /\ target[v] \in Rows
  <2>1. target[v] \in Rows
    BY <1>7 DEF TypeOK
  <2>2. CASE step[w] = "insert" \/ step[v] = "insert"
    BY <1>1, <1>7, <2>1, <2>2 DEF InsertsOwnRow
  <2>3. CASE step[w] \in {"known", "promote"} /\ step[v] \in {"known", "promote"}
    <3>1. lock[t] = w /\ lock[target[v]] = v
      BY <1>1, <1>7, <2>1, <2>3 DEF TypeOK
    <3>. QED
      BY <1>7, <2>1, <3>1
  <2>. QED
    BY <1>1, <1>7, <2>2, <2>3 DEF Wrote
<1>8. t < nextRow
  <2>1. CASE step[w] = "insert"
    BY <1>1, <2>1 DEF InsertsOwnRow
  <2>2. CASE step[w] \in {"known", "promote"}
    <3>1. table[t] # None
      BY <1>1, <2>2 DEF UpdatesCurrentRow, Committed
    <3>. QED
      BY <1>1, <3>1 DEF Fresh, TypeOK, Rows
  <2>. QED
    BY <1>1, <2>1, <2>2 DEF Wrote
<1> HIDE DEF t
<1>9. HitsAreCredits'
  BY <1>1, <1>5, <1>6 DEF HitsAreCredits, Committed
<1>10. Fresh'
  BY <1>1, <1>4, <1>5, <1>8 DEF Fresh, TypeOK, Rows
<1>11. InsertsOwnRow'
  BY <1>3, <1>4, <1>5, <1>7 DEF InsertsOwnRow
<1>12. UpdatesCurrentRow' /\ Wrote'
  BY <1>3, <1>5, <1>7 DEF UpdatesCurrentRow, Wrote, Committed
<1>. QED
  BY <1>9, <1>10, <1>11, <1>12 DEF StoreParts

LEMMA OutsideStoreInv ==
  ASSUME StoreInv,
         \/ \E f \in Freqs, b \in Bandwidths : Plant(f, b)
         \/ \E i \in Rows : RowAges(i)
  PROVE  StoreParts'
<1> USE DEF StoreInv
<1>1. ASSUME NEW f \in Freqs, NEW b \in Bandwidths, Plant(f, b) PROVE StoreParts'
  <2> DEFINE r == [freq |-> f, bw |-> b, mod |-> NoMod, classified |-> FALSE]
  <2>1. NewRow(r) \in Row /\ NewRow(r).hits = 1
    BY NewRowType, r \in Result DEF Result
  <2> HIDE DEF r
  <2>2. PICK x \in Row : x.hits = 1 /\ table' = [table EXCEPT ![nextRow] = x]
    BY <1>1, <2>1 DEF Plant, r
  <2>3. /\ nextRow \in Rows /\ nextRow \in Nat /\ nextRow' = nextRow + 1
        /\ credits' = [credits EXCEPT ![nextRow] = 1] /\ UNCHANGED workerVars
    BY <1>1 DEF Plant, TypeOK, Rows
  <2>4. /\ table'[nextRow] # None /\ table'[nextRow].hits = 1 /\ credits'[nextRow] = 1
        /\ \A i \in Rows : i # nextRow => table'[i] = table[i] /\ credits'[i] = credits[i]
    BY <2>2, <2>3, StoreAssumption DEF StoreAssumption, TypeOK
  <2>5. table[nextRow] = None
    BY <2>3 DEF Fresh
  <2>6. HitsAreCredits'
    BY <2>3, <2>4 DEF HitsAreCredits, Committed
  <2>7. Fresh'
    <3>1. SUFFICES ASSUME NEW i \in Rows, i >= nextRow'
                   PROVE  table'[i] = None /\ credits'[i] = 0
      BY DEF Fresh
    <3>2. i \in Nat /\ i # nextRow /\ i >= nextRow
      BY <2>3, <3>1 DEF Rows
    <3>. QED
      BY <2>4, <3>1, <3>2 DEF Fresh
  <2>8. InsertsOwnRow'
    BY <2>3, <2>4 DEF InsertsOwnRow, TypeOK, Rows, workerVars
  <2>9. Wrote'
    BY <2>3 DEF Wrote, workerVars
  <2>10. UpdatesCurrentRow'
    <3>1. SUFFICES ASSUME NEW v \in Workers, pc[v] = "commit", step[v] \in {"known", "promote"}
                   PROVE  /\ target[v] \in Rows /\ table'[target[v]] # None
                          /\ write[v].hits = credits'[target[v]] + 1
      BY <2>3 DEF UpdatesCurrentRow, Committed, workerVars
    <3>2. /\ target[v] \in Rows /\ table[target[v]] # None
          /\ write[v].hits = credits[target[v]] + 1
      BY <3>1 DEF UpdatesCurrentRow, Committed
    <3>. QED
      BY <2>4, <2>5, <3>2
  <2>. QED
    BY <2>6, <2>7, <2>8, <2>9, <2>10 DEF StoreParts
<1>2. ASSUME NEW i \in Rows, RowAges(i) PROVE StoreParts'
  <2>1. table[i] \in Row
    BY <1>2 DEF RowAges, Committed, TypeOK
  <2>2. PICK x \in Row : x.hits = table[i].hits /\ table' = [table EXCEPT ![i] = x]
    BY <1>2, <2>1, AgedRowType DEF RowAges
  <2>3. UNCHANGED <<nextRow, workerVars, credits>>
    BY <1>2 DEF RowAges
  <2>4. /\ Committed' = Committed
        /\ \A j \in Committed : table'[j].hits = table[j].hits
        /\ \A j \in Rows : table[j] = None <=> table'[j] = None
    BY <2>1, <2>2, StoreAssumption DEF StoreAssumption, TypeOK, Committed
  <2>5. HitsAreCredits' /\ Fresh'
    BY <2>3, <2>4 DEF HitsAreCredits, Fresh
  <2>6. InsertsOwnRow'
    BY <2>3, <2>4 DEF InsertsOwnRow, TypeOK, workerVars
  <2>7. UpdatesCurrentRow' /\ Wrote'
    BY <2>3, <2>4 DEF UpdatesCurrentRow, Wrote, workerVars
  <2>. QED
    BY <2>5, <2>6, <2>7 DEF StoreParts
<1>. QED
  BY <1>1, <1>2

LEMMA NextStoreInv == StoreInv /\ [Next]_vars => StoreInv'
<1> SUFFICES ASSUME StoreInv, [Next]_vars PROVE StoreParts'
  BY NextTypeOK DEF StoreInv, StoreParts
<1>1. TypeOK
  BY DEF StoreInv
<1>2. ASSUME NEW w \in Workers, ConnectFails(w) \/ Fails(w) PROVE StoreParts'
  <2>1. End(w, FALSE) /\ UNCHANGED <<table, nextRow, credits>>
    BY <1>2 DEF ConnectFails, Fails
  <2>2. /\ pc'[w] = "idle"
        /\ \A v \in Workers \ {w} : /\ pc'[v] = pc[v] /\ target'[v] = target[v]
                                    /\ step'[v] = step[v] /\ write'[v] = write[v]
    BY <1>1, <2>1, EndOthers
  <2>. QED
    BY <2>1, <2>2, QuietStep
<1>3. ASSUME NEW w \in Workers, Connect(w) \/ \E r \in Result : Persist(w, r) PROVE StoreParts'
  BY <1>1, <1>3, QuietStep DEF Connect, Persist, TypeOK
<1>4. ASSUME NEW w \in Workers, SelectExisting(w) \/ SelectUnclassified(w) PROVE StoreParts'
  <2>1. /\ UNCHANGED <<table, nextRow, credits, step, write>>
        /\ pc[w] # "commit" /\ pc'[w] # "commit"
        /\ \A v \in Workers \ {w} : pc'[v] = pc[v] /\ target'[v] = target[v]
    BY <1>1, <1>4 DEF SelectExisting, SelectUnclassified, TypeOK
  <2>. QED
    BY <2>1, QuietStep
<1>5. CASE UNCHANGED vars
  BY <1>5, QuietStep DEF vars, workerVars
<1>. QED
  BY <1>2, <1>3, <1>4, <1>5, UpdateStoreInv, InsertStoreInv, CommitStoreInv, OutsideStoreInv
  DEF Next, WorkerStep

\* Whatever the workers interleave and whichever transactions fail, the hits of
\* a row are the number of results, and plantings, committed to it.
THEOREM NoHitLost == Spec => []HitsAreCredits
<1>1. Init => StoreInv
  BY InitStoreInv
<1>2. StoreInv /\ [Next]_vars => StoreInv'
  BY NextStoreInv
<1>3. StoreInv => HitsAreCredits
  BY DEF StoreInv
<1>. QED
  BY <1>1, <1>2, <1>3, PTL DEF Spec

-----------------------------------------------------------------------------
(* Only a race makes a transaction write beside what it looked for. *)

\* Planting a row leaves every committed row as it is and adds one that has no
\* modulation; ageing keeps what identifies a row.
LEMMA PlantedRow ==
  ASSUME StoreInv, NEW f \in Freqs, NEW b \in Bandwidths, Plant(f, b)
  PROVE  /\ nextRow \in Rows /\ nextRow \notin Committed
         /\ Committed' = Committed \cup {nextRow}
         /\ \A i \in Committed : table'[i] = table[i]
         /\ table'[nextRow].mod = NoMod
         /\ credits'[nextRow] = 1
         /\ \A i \in Committed : credits'[i] = credits[i]
         /\ UNCHANGED workerVars
<1> DEFINE r == [freq |-> f, bw |-> b, mod |-> NoMod, classified |-> FALSE]
<1>1. NewRow(r) \in Row /\ NewRow(r).mod = NoMod
  BY NewRowType, r \in Result DEF Result, NewRow
<1>2. /\ nextRow \in Rows /\ table' = [table EXCEPT ![nextRow] = NewRow(r)]
      /\ UNCHANGED workerVars
  BY DEF Plant
<1> HIDE DEF r
<1>3. nextRow \notin Committed
  BY <1>2 DEF StoreInv, Fresh, Committed, Rows
<1>4. table'[nextRow] = NewRow(r) /\ \A i \in Rows : i # nextRow => table'[i] = table[i]
  BY <1>2 DEF StoreInv, TypeOK
<1>5. NewRow(r) # None
  BY <1>1, StoreAssumption DEF StoreAssumption
<1>6. Committed' = Committed \cup {nextRow}
  BY <1>2, <1>4, <1>5 DEF Committed
<1>7. \A i \in Committed : table'[i] = table[i]
  BY <1>3, <1>4 DEF Committed
<1>8. credits'[nextRow] = 1 /\ \A i \in Committed : credits'[i] = credits[i]
  BY <1>2, <1>3 DEF StoreInv, TypeOK, Plant, Committed
<1>. QED
  BY <1>1, <1>2, <1>3, <1>4, <1>6, <1>7, <1>8

LEMMA AgedRow ==
  ASSUME TypeOK, NEW i \in Rows, RowAges(i)
  PROVE  /\ Committed' = Committed
         /\ \A j \in Committed : /\ table'[j].freq = table[j].freq
                                 /\ table'[j].mod = table[j].mod
                                 /\ table'[j].bw = table[j].bw
                                 /\ table'[j].classified = table[j].classified
         /\ UNCHANGED workerVars
<1>1. table[i] \in Row /\ table' = [table EXCEPT ![i] = [table[i] EXCEPT !.recent = FALSE]]
  BY DEF RowAges, Committed, TypeOK
<1>2. [table[i] EXCEPT !.recent = FALSE] \in Row
  BY <1>1, AgedRowType
<1>3. /\ [table[i] EXCEPT !.recent = FALSE].freq = table[i].freq
      /\ [table[i] EXCEPT !.recent = FALSE].mod = table[i].mod
      /\ [table[i] EXCEPT !.recent = FALSE].bw = table[i].bw
      /\ [table[i] EXCEPT !.recent = FALSE].classified = table[i].classified
  BY <1>1 DEF Row
<1> DEFINE x == [table[i] EXCEPT !.recent = FALSE]
<1>4. table' = [table EXCEPT ![i] = x] /\ x # None /\ table[i] # None
  BY <1>1, <1>2, StoreAssumption DEF StoreAssumption
<1>5. /\ x.freq = table[i].freq /\ x.mod = table[i].mod /\ x.bw = table[i].bw
      /\ x.classified = table[i].classified
  BY <1>3
<1> HIDE DEF x
<1>6. Committed' = Committed
  BY <1>4 DEF TypeOK, Committed
<1>. QED
  BY <1>4, <1>5, <1>6 DEF TypeOK, Committed, RowAges

\* What a transaction remembers of a row is never ahead of the row.
SeenBehind == \A w \in Workers, i \in Rows : seen[w][i] <= credits[i]

\* The transaction has not found its signal, and writes a row of its own if it
\* finds nothing to promote.
SearchedInVain(w) ==
    \/ pc[w] \in {"unclassified", "insert"}
    \/ pc[w] = "commit" /\ step[w] = "insert"

\* Whatever row is now of that signal was committed to since.
FoundSince ==
    \A w \in Workers : SearchedInVain(w) =>
        \A i \in Committed : SameSignal(table[i], result[w]) => credits[i] > seen[w][i]

Promoting(w) == pc[w] = "promote" \/ (pc[w] = "commit" /\ step[w] = "promote")

\* A row being promoted is unclassified, or was committed to since it was found.
ClassifiedSince ==
    \A w \in Workers : Promoting(w) /\ table[target[w]].classified =>
        credits[target[w]] > seen[w][target[w]]

RaceParts == SeenBehind /\ FoundSince /\ ClassifiedSince
RaceInv == StoreInv /\ RaceParts

LEMMA InitRaceInv == Init => RaceInv
<1> SUFFICES ASSUME Init PROVE RaceParts
  BY InitStoreInv DEF RaceInv
<1>1. SeenBehind
  BY DEF Init, SeenBehind
<1>2. FoundSince /\ ClassifiedSince
  BY DEF Init, FoundSince, ClassifiedSince, SearchedInVain, Promoting
<1>. QED
  BY <1>1, <1>2 DEF RaceParts

\* The target of a promotion is committed.
LEMMA PromotedIsCommitted ==
  ASSUME StoreInv, NEW w \in Workers, Promoting(w)
  PROVE  target[w] \in Committed
  BY DEF StoreInv, TypeOK, UpdatesCurrentRow, Promoting

\* A step of one worker that commits nothing: it need only be looked at itself.
LEMMA OwnStep ==
  ASSUME RaceInv, NEW w \in Workers, UNCHANGED <<table, credits>>,
         \A v \in Workers \ {w} : /\ pc'[v] = pc[v] /\ target'[v] = target[v]
                                  /\ step'[v] = step[v] /\ result'[v] = result[v]
                                  /\ seen'[v] = seen[v],
         \A i \in Rows : seen'[w][i] <= credits[i],
         SearchedInVain(w)' => \A i \in Committed :
             SameSignal(table[i], result'[w]) => credits[i] > seen'[w][i],
         Promoting(w)' /\ table[target'[w]].classified =>
             credits[target'[w]] > seen'[w][target'[w]]
  PROVE  RaceParts'
<1>1. Committed' = Committed
  BY DEF Committed
<1>2. SeenBehind'
  BY DEF RaceInv, RaceParts, SeenBehind
<1>3. ASSUME NEW v \in Workers, SearchedInVain(v)', NEW i \in Committed,
             SameSignal(table[i], result'[v])
      PROVE  credits[i] > seen'[v][i]
  <2>1. CASE v = w
    BY <1>3, <2>1
  <2>2. CASE v # w
    <3>1. SearchedInVain(v) /\ result'[v] = result[v] /\ seen'[v] = seen[v]
      BY <1>3, <2>2 DEF SearchedInVain
    <3>. QED
      BY <1>3, <3>1 DEF RaceInv, RaceParts, FoundSince
  <2>. QED
    BY <2>1, <2>2
<1>4. ASSUME NEW v \in Workers, Promoting(v)', table[target'[v]].classified
      PROVE  credits[target'[v]] > seen'[v][target'[v]]
  <2>1. CASE v = w
    BY <1>4, <2>1
  <2>2. CASE v # w
    <3>1. Promoting(v) /\ target'[v] = target[v] /\ seen'[v] = seen[v]
      BY <1>4, <2>2 DEF Promoting
    <3>. QED
      BY <1>4, <3>1 DEF RaceInv, RaceParts, ClassifiedSince
  <2>. QED
    BY <2>1, <2>2
<1>5. FoundSince'
  BY <1>1, <1>3 DEF FoundSince, SameSignal, SameFreq, SimilarBandwidth, Distance
<1>6. ClassifiedSince'
  BY <1>4 DEF ClassifiedSince
<1>. QED
  BY <1>2, <1>5, <1>6 DEF RaceParts

LEMMA SelectRaceParts ==
  ASSUME RaceInv, NEW w \in Workers, SelectExisting(w) \/ SelectUnclassified(w)
  PROVE  RaceParts'
<1> USE DEF RaceInv, StoreInv
<1>1. ASSUME SelectExisting(w) PROVE RaceParts'
  <2>1. /\ UNCHANGED <<table, credits, step, result>>
        /\ \A v \in Workers \ {w} : pc'[v] = pc[v] /\ target'[v] = target[v] /\ seen'[v] = seen[v]
        /\ seen'[w] = credits
        /\ pc'[w] = "update" \/ (pc'[w] = "unclassified" /\ Existing(result[w]) = {})
    BY <1>1 DEF SelectExisting, TypeOK
  <2>2. ~Promoting(w)'
    BY <2>1 DEF Promoting
  <2>3. \A i \in Rows : seen'[w][i] <= credits[i]
    BY <2>1 DEF TypeOK
  <2>4. SearchedInVain(w)' => \A i \in Committed : ~SameSignal(table[i], result[w])
    BY <2>1 DEF SearchedInVain, SameSignal, Existing
  <2>. QED
    BY <2>1, <2>2, <2>3, <2>4, OwnStep
<1>2. ASSUME SelectUnclassified(w) PROVE RaceParts'
  <2>1. /\ UNCHANGED <<table, credits, step, result>>
        /\ \A v \in Workers \ {w} : pc'[v] = pc[v] /\ target'[v] = target[v] /\ seen'[v] = seen[v]
        /\ pc[w] = "unclassified"
    BY <1>2 DEF SelectUnclassified, TypeOK
  <2>2. CASE pc'[w] = "insert" /\ UNCHANGED <<target, seen>>
    <3>1. ~Promoting(w)'
      BY <2>2 DEF Promoting
    <3>2. \A i \in Rows : seen'[w][i] <= credits[i]
      BY <2>2 DEF RaceParts, SeenBehind
    <3>3. \A i \in Committed : SameSignal(table[i], result'[w]) => credits[i] > seen'[w][i]
      BY <2>1, <2>2 DEF RaceParts, FoundSince, SearchedInVain
    <3>. QED
      BY <2>1, <3>1, <3>2, <3>3, OwnStep
  <2>3. ASSUME NEW i \in Nearest(Unclassified(result[w]), result[w]),
               target' = [target EXCEPT ![w] = i], seen' = [seen EXCEPT ![w][i] = credits[i]],
               pc' = [pc EXCEPT ![w] = "promote"]
        PROVE  RaceParts'
    <3>1. target'[w] = i /\ pc'[w] = "promote" /\ i \in Rows /\ ~table[i].classified
      BY <2>3 DEF TypeOK, Nearest, Unclassified, Committed
    <3>2. \A j \in Rows : seen'[w][j] <= credits[j]
      BY <2>3 DEF RaceParts, SeenBehind, TypeOK
    <3>3. ~SearchedInVain(w)'
      BY <3>1 DEF SearchedInVain
    <3>. QED
      BY <2>1, <3>1, <3>2, <3>3, OwnStep
  <2>4. \/ pc'[w] = "insert" /\ UNCHANGED <<target, seen>>
        \/ \E i \in Nearest(Unclassified(result[w]), result[w]) :
              /\ target' = [target EXCEPT ![w] = i]
              /\ seen' = [seen EXCEPT ![w][i] = credits[i]]
              /\ pc' = [pc EXCEPT ![w] = "promote"]
    BY <1>2 DEF SelectUnclassified, TypeOK
  <2>. QED
    BY <2>2, <2>3, <2>4
<1>. QED
  BY <1>1, <1>2

\* The statements that write: what was looked for stays as it is.
LEMMA WriteRaceParts ==
  ASSUME RaceInv, NEW w \in Workers,
         Connect(w) \/ UpdateExisting(w) \/ UpdatePromote(w) \/ Insert(w)
         \/ \E r \in Result : Persist(w, r)
  PROVE  RaceParts'
<1> USE DEF RaceInv, StoreInv
<1>1. /\ UNCHANGED <<table, credits, seen>>
      /\ \A v \in Workers \ {w} : /\ pc'[v] = pc[v] /\ target'[v] = target[v]
                                  /\ step'[v] = step[v] /\ result'[v] = result[v]
  BY DEF Connect, UpdateExisting, UpdatePromote, Insert, Persist, TypeOK
<1>2. \A i \in Rows : seen'[w][i] <= credits[i]
  BY <1>1 DEF RaceParts, SeenBehind
<1>3. CASE UpdatePromote(w)
  <2>1. Promoting(w) /\ target'[w] = target[w] /\ ~SearchedInVain(w)'
    BY <1>3 DEF UpdatePromote, Promoting, SearchedInVain, TypeOK
  <2>. QED
    BY <1>1, <1>2, <2>1, OwnStep DEF RaceParts, ClassifiedSince
<1>4. CASE Insert(w)
  <2>1. SearchedInVain(w) /\ result'[w] = result[w] /\ ~Promoting(w)'
    BY <1>4 DEF Insert, Promoting, SearchedInVain, TypeOK
  <2>. QED
    BY <1>1, <1>2, <2>1, OwnStep DEF RaceParts, FoundSince
<1>5. CASE UpdateExisting(w) \/ \E r \in Result : Persist(w, r)
  <2>1. ~SearchedInVain(w)' /\ ~Promoting(w)'
    BY <1>5 DEF UpdateExisting, Persist, Promoting, SearchedInVain, TypeOK
  <2>. QED
    BY <1>1, <1>2, <2>1, OwnStep
<1>6. CASE Connect(w)
  <2>1. /\ UNCHANGED result /\ ~Promoting(w)'
        /\ pc'[w] = "existing" \/ result[w].mod = NoMod
    BY <1>6 DEF Connect, Promoting, TypeOK
  <2>2. SearchedInVain(w)' => \A i \in Committed : ~SameSignal(table[i], result'[w])
    BY <1>6, <2>1 DEF SameSignal, SearchedInVain, Connect, TypeOK
  <2>. QED
    BY <1>1, <1>2, <2>1, <2>2, OwnStep
<1>. QED
  BY <1>3, <1>4, <1>5, <1>6

\* A commit adds to the credits of its row, which is then ahead of what any
\* other transaction remembers of it; a call that ends looks for nothing.
LEMMA EndRaceParts ==
  ASSUME RaceInv, NEW w \in Workers, ConnectFails(w) \/ Fails(w) \/ Commit(w)
  PROVE  RaceParts'
<1> USE DEF RaceInv, StoreInv
<1>1. /\ \A v \in Workers \ {w} : /\ pc'[v] = pc[v] /\ target'[v] = target[v]
                                  /\ step'[v] = step[v] /\ result'[v] = result[v]
                                  /\ seen'[v] = seen[v]
      /\ pc'[w] = "idle" /\ \A i \in Rows : seen'[w][i] = 0
  BY DEF ConnectFails, Fails, Commit, End, TypeOK
<1>2. ~SearchedInVain(w)' /\ ~Promoting(w)'
  BY <1>1 DEF SearchedInVain, Promoting
<1>3. CASE ConnectFails(w) \/ Fails(w)
  <2>1. UNCHANGED <<table, credits>>
    BY <1>3 DEF ConnectFails, Fails
  <2>2. \A i \in Rows : seen'[w][i] <= credits[i]
    BY <1>1 DEF TypeOK
  <2>. QED
    BY <1>1, <1>2, <2>1, <2>2, OwnStep
<1>4. CASE Commit(w)
  <2> DEFINE t == target[w]
  <2>1. /\ t \in Rows
        /\ \A i \in Rows : i # t => table'[i] = table[i] /\ credits'[i] = credits[i]
        /\ credits'[t] = credits[t] + 1 /\ credits[t] \in Nat
    BY <1>4 DEF Commit, TypeOK
  <2> HIDE DEF t
  <2>2. \A v \in Workers : seen[v][t] <= credits[t] /\ seen[v][t] \in Nat
    BY <2>1 DEF RaceParts, SeenBehind, TypeOK
  <2>3. \A v \in Workers \ {w} : credits'[t] > seen'[v][t]
    BY <1>1, <2>1, <2>2
  <2>4. SeenBehind'
    <3> SUFFICES ASSUME NEW v \in Workers, NEW i \in Rows PROVE seen'[v][i] <= credits'[i]
      BY DEF SeenBehind
    <3>1. CASE v = w
      BY <1>1, <2>1, <3>1 DEF TypeOK
    <3>2. CASE v # w /\ i = t
      BY <1>1, <2>1, <2>2, <3>2
    <3>3. CASE v # w /\ i # t
      BY <1>1, <2>1, <3>3 DEF RaceParts, SeenBehind
    <3>. QED
      BY <3>1, <3>2, <3>3
  <2>5. FoundSince'
    <3> SUFFICES ASSUME NEW v \in Workers, SearchedInVain(v)', NEW i \in Committed',
                        SameSignal(table'[i], result'[v])
                 PROVE  credits'[i] > seen'[v][i]
      BY DEF FoundSince, SameSignal, SameFreq, SimilarBandwidth, Distance
    <3>1. v # w
      BY <1>2
    <3>2. SearchedInVain(v) /\ result'[v] = result[v] /\ seen'[v] = seen[v]
      BY <1>1, <3>1 DEF SearchedInVain
    <3>3. CASE i # t
      <4>1. i \in Committed /\ table'[i] = table[i] /\ credits'[i] = credits[i]
        BY <2>1, <3>3 DEF Committed
      <4>. QED
        BY <3>2, <4>1 DEF RaceParts, FoundSince
    <3>. QED
      BY <2>3, <3>1, <3>3
  <2>6. ClassifiedSince'
    <3> SUFFICES ASSUME NEW v \in Workers, Promoting(v)', table'[target'[v]].classified
                 PROVE  credits'[target'[v]] > seen'[v][target'[v]]
      BY DEF ClassifiedSince
    <3>1. v # w
      BY <1>2
    <3>2. Promoting(v) /\ target'[v] = target[v] /\ seen'[v] = seen[v]
      BY <1>1, <3>1 DEF Promoting
    <3>3. target[v] \in Rows
      BY <3>2, PromotedIsCommitted DEF Committed
    <3>4. CASE target[v] # t
      BY <2>1, <3>2, <3>3, <3>4 DEF RaceParts, ClassifiedSince
    <3>. QED
      BY <2>3, <3>1, <3>2, <3>4
  <2>. QED
    BY <2>4, <2>5, <2>6 DEF RaceParts
<1>. QED
  BY <1>3, <1>4

\* Rows are planted without a modulation, and ageing keeps what identifies a row.
LEMMA OutsideRaceParts ==
  ASSUME RaceInv,
         \/ \E f \in Freqs, b \in Bandwidths : Plant(f, b)
         \/ \E i \in Rows : RowAges(i)
  PROVE  RaceParts'
<1> USE DEF RaceInv
<1>0. TypeOK
  BY DEF StoreInv
<1>1. ASSUME NEW f \in Freqs, NEW b \in Bandwidths, Plant(f, b) PROVE RaceParts'
  <2>1. /\ nextRow \in Rows /\ nextRow \notin Committed
        /\ Committed' = Committed \cup {nextRow}
        /\ \A i \in Committed : table'[i] = table[i] /\ credits'[i] = credits[i]
        /\ table'[nextRow].mod = NoMod
        /\ UNCHANGED <<pc, result, target, step, seen>>
    BY <1>1, PlantedRow DEF workerVars
  <2>2. SeenBehind'
    <3> SUFFICES ASSUME NEW w \in Workers, NEW i \in Rows PROVE seen[w][i] <= credits'[i]
      BY <2>1 DEF SeenBehind
    <3>1. seen[w][i] <= credits[i] /\ credits[i] <= credits'[i] /\ seen[w][i] \in Nat /\ credits[i] \in Nat
          /\ credits'[i] \in Nat
      BY <1>0, <1>1 DEF RaceParts, SeenBehind, Plant, TypeOK, StoreInv, Fresh
    <3>. QED
      BY <3>1
  <2>3. FoundSince'
    <3> SUFFICES ASSUME NEW w \in Workers, SearchedInVain(w), NEW i \in Committed',
                        SameSignal(table'[i], result[w])
                 PROVE  credits'[i] > seen[w][i]
      BY <2>1 DEF FoundSince, SameSignal, SameFreq, SimilarBandwidth, Distance, SearchedInVain
    <3>1. i # nextRow
      BY <2>1 DEF SameSignal
    <3>. QED
      BY <2>1, <3>1 DEF RaceParts, FoundSince
  <2>4. ClassifiedSince'
    BY <2>1, PromotedIsCommitted DEF RaceParts, ClassifiedSince, Promoting
  <2>. QED
    BY <2>2, <2>3, <2>4 DEF RaceParts
<1>2. ASSUME NEW i \in Rows, RowAges(i) PROVE RaceParts'
  <2>1. /\ Committed' = Committed
        /\ \A j \in Committed : /\ table'[j].freq = table[j].freq
                                /\ table'[j].mod = table[j].mod
                                /\ table'[j].bw = table[j].bw
                                /\ table'[j].classified = table[j].classified
        /\ UNCHANGED <<pc, result, target, step, seen, credits>>
    BY <1>0, <1>2, AgedRow DEF workerVars, RowAges
  <2>2. SeenBehind'
    BY <2>1 DEF RaceParts, SeenBehind
  <2>3. FoundSince'
    <3> SUFFICES ASSUME NEW w \in Workers, SearchedInVain(w), NEW j \in Committed,
                        SameSignal(table'[j], result[w])
                 PROVE  credits[j] > seen[w][j]
      BY <2>1 DEF FoundSince, SameSignal, SameFreq, SimilarBandwidth, Distance, SearchedInVain
    <3>1. SameSignal(table[j], result[w])
      BY <2>1 DEF SameSignal, SameFreq, SimilarBandwidth
    <3>. QED
      BY <3>1 DEF RaceParts, FoundSince
  <2>4. ClassifiedSince'
    BY <2>1, PromotedIsCommitted DEF RaceParts, ClassifiedSince, Promoting
  <2>. QED
    BY <2>2, <2>3, <2>4 DEF RaceParts
<1>. QED
  BY <1>1, <1>2

LEMMA NextRaceInv == RaceInv /\ [Next]_vars => RaceInv'
<1> SUFFICES ASSUME RaceInv, [Next]_vars PROVE RaceParts'
  BY NextStoreInv DEF RaceInv
<1>1. CASE UNCHANGED vars
  <2>1. UNCHANGED <<table, credits, pc, result, target, step, seen>>
    BY <1>1 DEF vars, workerVars
  <2>. QED
    BY <2>1 DEF RaceInv, RaceParts, SeenBehind, FoundSince, ClassifiedSince, SearchedInVain,
                Promoting, Committed, SameSignal, SameFreq, SimilarBandwidth, Distance
<1>. QED
  BY <1>1, SelectRaceParts, WriteRaceParts, EndRaceParts, OutsideRaceParts DEF Next, WorkerStep

\* AnalysisService.cpp:672 and :759: for every number of workers, a transaction
\* inserts a second row for a signal only when the first was committed, or made
\* into a row of that signal, after the transaction had looked for it.
THEOREM SecondRowsAreRaced == Spec => []InsertsOnlyRaced
<1>1. Init => RaceInv
  BY InitRaceInv
<1>2. RaceInv /\ [Next]_vars => RaceInv'
  BY NextRaceInv
<1>3. RaceInv => InsertsOnlyRaced
  BY DEF RaceInv, RaceParts, FoundSince, SearchedInVain, InsertsOnlyRaced
<1>. QED
  BY <1>1, <1>2, <1>3, PTL DEF Spec

\* AnalysisService.cpp:711, "not yet classified -> fill in modulation": for every
\* number of workers, a classified row is overwritten by a promotion only when
\* another transaction has committed to it since it was found unclassified.
THEOREM PromotionsAreRaced == Spec => []PromotesOnlyRaced
<1>1. Init => RaceInv
  BY InitRaceInv
<1>2. RaceInv /\ [Next]_vars => RaceInv'
  BY NextRaceInv
<1>3. RaceInv => PromotesOnlyRaced
  BY DEF RaceInv, RaceParts, ClassifiedSince, Promoting, PromotesOnlyRaced
<1>. QED
  BY <1>1, <1>2, <1>3, PTL DEF Spec

=============================================================================
