----------------------------- MODULE SignalStore -----------------------------
(***************************************************************************)
(* Persistence of results in the signals table                             *)
(* (AnalysisService::persistResult, src/src/AnalysisService.cpp): each     *)
(* worker runs one transaction per result on a connection of its own and   *)
(* updates the row of the same signal, or fills in a row that              *)
(* AcquisitionApp planted, or inserts a new one.                           *)
(*                                                                         *)
(* PostgreSQL is outside the repository.  It is modelled at its default    *)
(* isolation level READ COMMITTED, which the code does not change: each    *)
(* statement sees the rows committed when it starts, an UPDATE takes the   *)
(* lock of its row, waits for another transaction that holds it, and then  *)
(* works on the row as that one committed it.                              *)
(*                                                                         *)
(* Frequencies and bandwidths are in kHz; bandwidth 0 stands for NULL.     *)
(* Columns that no statement reads back are left out.                      *)
(***************************************************************************)
EXTENDS Integers

CONSTANTS
    Workers,      \* threads that persist results
    Freqs,        \* centre frequencies
    Bandwidths,   \* bandwidths, 0 for NULL
    Modulations,  \* modulation strings
    NoMod,        \* the empty modulation
    MaxResults,   \* bound on the number of results
    MaxPlanted,   \* bound on the rows AcquisitionApp inserts
    None          \* no worker, no row

Rows == 1..(MaxResults + MaxPlanted)
Result == [freq : Freqs, bw : Bandwidths, mod : Modulations \cup {NoMod}, classified : BOOLEAN]
Row == [freq : Freqs, bw : Bandwidths, mod : Modulations \cup {NoMod}, classified : BOOLEAN,
        recent : BOOLEAN, hits : Nat]

ASSUME StoreAssumption ==
    /\ MaxResults \in Nat
    /\ MaxPlanted \in Nat
    /\ Freqs \subseteq Int
    /\ Bandwidths \subseteq Nat
    /\ NoMod \notin Modulations
    /\ None \notin Workers
    /\ None \notin Row
    /\ None \notin Result

VARIABLES
    table,      \* the committed rows of signals
    nextRow,    \* the next id of the table
    planted,    \* rows inserted by AcquisitionApp so far
    lock,       \* the transaction that has updated a row and not yet ended
    pc,         \* program counter of each worker
    connected,  \* t_conn of each worker is open
    result,     \* the result a worker persists
    target,     \* id of the row its transaction has chosen, 0 for none
    step,       \* the step of persistResult() that wrote: "known", "promote" or "insert"
    write,      \* the row its transaction has written
    published,  \* results published so far
    credits,    \* history: results a committed row stands for
    seen        \* history: the credits of each row when the transaction looked for it

workerVars == <<pc, connected, result, target, step, write, seen>>
vars == <<table, nextRow, planted, lock, workerVars, published, credits>>

Init ==
    /\ table = [i \in Rows |-> None]
    /\ nextRow = 1
    /\ planted = 0
    /\ lock = [i \in Rows |-> None]
    /\ pc = [w \in Workers |-> "idle"]
    /\ connected = [w \in Workers |-> FALSE]
    /\ result = [w \in Workers |-> None]
    /\ target = [w \in Workers |-> 0]
    /\ step = [w \in Workers |-> "none"]
    /\ write = [w \in Workers |-> None]
    /\ published = 0
    /\ credits = [i \in Rows |-> 0]
    /\ seen = [w \in Workers |-> [i \in Rows |-> 0]]

-----------------------------------------------------------------------------
(* The queries. *)

Distance(x, y) == IF x < y THEN y - x ELSE x - y

\* abs(freq_hz - $1) < 10000
SameFreq(row, r) == Distance(row.freq, r.freq) < 10

\* $3 IS NULL OR bandwidth_hz IS NULL
\*   OR abs(bandwidth_hz - $3) / GREATEST(bandwidth_hz, 1000.0) < 0.5
SimilarBandwidth(row, r) ==
    \/ r.bw = 0 \/ row.bw = 0
    \/ 2 * Distance(row.bw, r.bw) < row.bw

Committed == {i \in Rows : table[i] # None}

\* ORDER BY abs(freq_hz - $1) ASC LIMIT 1
Nearest(ids, r) ==
    {i \in ids : \A j \in ids : Distance(table[i].freq, r.freq) <= Distance(table[j].freq, r.freq)}

\* Mutant: the frequency has to be the same.
ExistingAtSameFreq(r) ==
    {i \in Committed : /\ table[i].freq = r.freq
                       /\ table[i].mod = r.mod
                       /\ SimilarBandwidth(table[i], r)}

\* Step 1: rows of the same identity.
Existing(r) ==
    {i \in Committed : /\ SameFreq(table[i], r)
                       /\ table[i].mod = r.mod
                       /\ SimilarBandwidth(table[i], r)}

\* Mutant: rows that are classified already count as well.
UnclassifiedOrNot(r) ==
    {i \in Committed : /\ SameFreq(table[i], r)
                       /\ SimilarBandwidth(table[i], r)
                       /\ table[i].recent}

\* Step 2: rows not yet classified and seen in the last 10 minutes.
Unclassified(r) ==
    {i \in Committed : /\ SameFreq(table[i], r)
                       /\ ~table[i].classified
                       /\ SimilarBandwidth(table[i], r)
                       /\ table[i].recent}

-----------------------------------------------------------------------------
(* persistResult() *)

\* publishResult() has published the result and calls persistResult().
Persist(w, r) ==
    /\ pc[w] = "idle"
    /\ published < MaxResults
    /\ published' = published + 1
    /\ result' = [result EXCEPT ![w] = r]
    /\ pc' = [pc EXCEPT ![w] = "connect"]
    /\ UNCHANGED <<table, nextRow, planted, lock, connected, target, step, write, credits, seen>>

\* The worker has a connection or opens one; step 1 only looks for a result
\* with a modulation.
Connect(w) ==
    /\ pc[w] = "connect"
    /\ connected' = [connected EXCEPT ![w] = TRUE]
    /\ pc' = [pc EXCEPT ![w] = IF result[w].mod = NoMod THEN "unclassified" ELSE "existing"]
    /\ UNCHANGED <<table, nextRow, planted, lock, result, target, step, write, published,
                   credits, seen>>

\* The call is over, and with it its transaction: it holds no lock.
End(w, conn) ==
    /\ lock' = [i \in Rows |-> IF lock[i] = w THEN None ELSE lock[i]]
    /\ pc' = [pc EXCEPT ![w] = "idle"]
    /\ connected' = [connected EXCEPT ![w] = conn]
    /\ result' = [result EXCEPT ![w] = None]
    /\ target' = [target EXCEPT ![w] = 0]
    /\ step' = [step EXCEPT ![w] = "none"]
    /\ write' = [write EXCEPT ![w] = None]
    /\ seen' = [seen EXCEPT ![w] = [i \in Rows |-> 0]]

\* The connection cannot be opened: the result is not persisted.
ConnectFails(w) ==
    /\ pc[w] = "connect"
    /\ ~connected[w]
    /\ End(w, FALSE)
    /\ UNCHANGED <<table, nextRow, planted, published, credits>>

\* Step 1: SELECT of the nearest row of the same identity.
SelectExisting(w) ==
    /\ pc[w] = "existing"
    /\ LET ids == Existing(result[w]) IN
         \/ /\ ids = {}
            /\ pc' = [pc EXCEPT ![w] = "unclassified"]
            /\ UNCHANGED target
         \/ \E i \in Nearest(ids, result[w]) :
               /\ target' = [target EXCEPT ![w] = i]
               /\ pc' = [pc EXCEPT ![w] = "update"]
    /\ seen' = [seen EXCEPT ![w] = credits]
    /\ UNCHANGED <<table, nextRow, planted, lock, connected, result, step, write, published,
                   credits>>

\* Step 2: SELECT of the nearest unclassified row.
SelectUnclassified(w) ==
    /\ pc[w] = "unclassified"
    /\ LET ids == Unclassified(result[w]) IN
         \/ /\ ids = {}
            /\ pc' = [pc EXCEPT ![w] = "insert"]
            /\ UNCHANGED <<target, seen>>
         \/ \E i \in Nearest(ids, result[w]) :
               /\ target' = [target EXCEPT ![w] = i]
               /\ seen' = [seen EXCEPT ![w][i] = credits[i]]
               /\ pc' = [pc EXCEPT ![w] = "promote"]
    /\ UNCHANGED <<table, nextRow, planted, lock, connected, result, step, write, published,
                   credits>>

\* bandwidth_hz = COALESCE(NULLIF(bandwidth_hz, 0), $3)
Bandwidth(row, r) == IF row.bw = 0 THEN r.bw ELSE row.bw

\* UPDATE of the row of a known signal; it waits for the row's lock.
UpdateExisting(w) ==
    /\ pc[w] = "update"
    /\ lock[target[w]] = None
    /\ lock' = [lock EXCEPT ![target[w]] = w]
    /\ LET row == table[target[w]] IN
         write' = [write EXCEPT ![w] =
                     [freq |-> row.freq, mod |-> row.mod, bw |-> Bandwidth(row, result[w]),
                      classified |-> result[w].classified, recent |-> TRUE,
                      hits |-> row.hits + 1]]
    /\ step' = [step EXCEPT ![w] = "known"]
    /\ pc' = [pc EXCEPT ![w] = "commit"]
    /\ UNCHANGED <<table, nextRow, planted, connected, result, target, published, credits,
                   seen>>

\* Mutant: the row is written without its lock.
UpdatePromoteUnlocked(w) ==
    /\ pc[w] = "promote"
    /\ LET row == table[target[w]] IN
         write' = [write EXCEPT ![w] =
                     [freq |-> result[w].freq, mod |-> result[w].mod,
                      bw |-> Bandwidth(row, result[w]), classified |-> result[w].classified,
                      recent |-> TRUE, hits |-> row.hits + 1]]
    /\ step' = [step EXCEPT ![w] = "promote"]
    /\ pc' = [pc EXCEPT ![w] = "commit"]
    /\ UNCHANGED <<table, nextRow, planted, lock, connected, result, target, published,
                   credits, seen>>

\* UPDATE of an unclassified row: it gets the frequency and the modulation of
\* the result.
UpdatePromote(w) ==
    /\ pc[w] = "promote"
    /\ lock[target[w]] = None
    /\ lock' = [lock EXCEPT ![target[w]] = w]
    /\ LET row == table[target[w]] IN
         write' = [write EXCEPT ![w] =
                     [freq |-> result[w].freq, mod |-> result[w].mod,
                      bw |-> Bandwidth(row, result[w]), classified |-> result[w].classified,
                      recent |-> TRUE, hits |-> row.hits + 1]]
    /\ step' = [step EXCEPT ![w] = "promote"]
    /\ pc' = [pc EXCEPT ![w] = "commit"]
    /\ UNCHANGED <<table, nextRow, planted, connected, result, target, published, credits,
                   seen>>

\* A new row; the column hits has the default 1.
NewRow(r) ==
    [freq |-> r.freq, mod |-> r.mod, bw |-> r.bw, classified |-> r.classified,
     recent |-> TRUE, hits |-> 1]

\* Step 3: INSERT.  No other transaction sees the row before the commit.
Insert(w) ==
    /\ pc[w] = "insert"
    /\ nextRow \in Rows
    /\ nextRow' = nextRow + 1
    /\ target' = [target EXCEPT ![w] = nextRow]
    /\ write' = [write EXCEPT ![w] = NewRow(result[w])]
    /\ step' = [step EXCEPT ![w] = "insert"]
    /\ pc' = [pc EXCEPT ![w] = "commit"]
    /\ UNCHANGED <<table, planted, lock, connected, result, published, credits, seen>>

\* tx.commit().  The connection may break after the server has committed.
Commit(w) ==
    /\ pc[w] = "commit"
    /\ table' = [table EXCEPT ![target[w]] = write[w]]
    /\ credits' = [credits EXCEPT ![target[w]] = @ + 1]
    /\ \E conn \in BOOLEAN : End(w, conn)
    /\ UNCHANGED <<nextRow, planted, published>>

InTransaction(w) == pc[w] \in {"existing", "update", "unclassified", "promote", "insert", "commit"}

\* Mutant: after an error the transaction stays open on the kept connection.
FailsKeepsTransaction(w) ==
    /\ InTransaction(w)
    /\ pc' = [pc EXCEPT ![w] = "idle"]
    /\ result' = [result EXCEPT ![w] = None]
    /\ target' = [target EXCEPT ![w] = 0]
    /\ UNCHANGED <<table, nextRow, planted, lock, connected, step, write, published,
                   credits, seen>>

\* A statement or the commit throws: the transaction is rolled back, the
\* connection dropped, the result not persisted; nothing is tried again.
Fails(w) ==
    /\ InTransaction(w)
    /\ End(w, FALSE)
    /\ UNCHANGED <<table, nextRow, planted, published, credits>>

WorkerStep(w) ==
    \/ Connect(w) \/ ConnectFails(w)
    \/ SelectExisting(w) \/ SelectUnclassified(w)
    \/ UpdateExisting(w) \/ UpdatePromote(w) \/ Insert(w)
    \/ Commit(w) \/ Fails(w)

-----------------------------------------------------------------------------
(* AcquisitionApp and the clock, outside the repository. *)

Plant(f, b) ==
    /\ planted < MaxPlanted
    /\ nextRow \in Rows
    /\ planted' = planted + 1
    /\ nextRow' = nextRow + 1
    /\ table' = [table EXCEPT ![nextRow] = NewRow([freq |-> f, bw |-> b, mod |-> NoMod,
                                                   classified |-> FALSE])]
    /\ credits' = [credits EXCEPT ![nextRow] = 1]
    /\ UNCHANGED <<lock, workerVars, published>>

\* Ten minutes pass without an update of the row.
RowAges(i) ==
    /\ i \in Committed
    /\ table[i].recent
    /\ table' = [table EXCEPT ![i] = [@ EXCEPT !.recent = FALSE]]
    /\ UNCHANGED <<nextRow, planted, lock, workerVars, published, credits>>

-----------------------------------------------------------------------------

Next ==
    \/ \E w \in Workers : WorkerStep(w) \/ \E r \in Result : Persist(w, r)
    \/ \E f \in Freqs, b \in Bandwidths : Plant(f, b)
    \/ \E i \in Rows : RowAges(i)

Spec == Init /\ [][Next]_vars

-----------------------------------------------------------------------------
(* Properties. *)

\* The types of the variables; a transaction holds the lock of the row it has
\* updated, and of no other.
TypeOK ==
    /\ table \in [Rows -> Row \cup {None}]
    /\ nextRow \in 1..(MaxResults + MaxPlanted + 1)
    /\ planted \in 0..MaxPlanted
    /\ lock \in [Rows -> Workers \cup {None}]
    /\ pc \in [Workers -> {"idle", "connect", "existing", "update", "unclassified", "promote",
                           "insert", "commit"}]
    /\ connected \in [Workers -> BOOLEAN]
    /\ result \in [Workers -> Result \cup {None}]
    /\ target \in [Workers -> Rows \cup {0}]
    /\ step \in [Workers -> {"none", "known", "promote", "insert"}]
    /\ write \in [Workers -> Row \cup {None}]
    /\ published \in 0..MaxResults
    /\ credits \in [Rows -> Nat]
    /\ seen \in [Workers -> [Rows -> Nat]]
    /\ \A w \in Workers : (result[w] = None) <=> (pc[w] = "idle")
    /\ \A w \in Workers : pc[w] \in {"update", "promote"} => target[w] \in Committed
    /\ \A w \in Workers : pc[w] = "commit" => target[w] \in Rows /\ write[w] \in Row
    /\ \A w \in Workers, i \in Rows :
          (lock[i] = w) <=>
              (pc[w] = "commit" /\ step[w] \in {"known", "promote"} /\ target[w] = i)

\* The hits of a row count every result committed to it, and the planting,
\* exactly once: concurrent updates of a row lose none, and a transaction that
\* fails at any step leaves nothing behind.
HitsAreCredits == \A i \in Committed : table[i].hits = credits[i]

\* What step 1 takes for the signal of the result.
SameSignal(row, r) ==
    /\ row.mod = r.mod /\ r.mod # NoMod
    /\ SameFreq(row, r)
    /\ SimilarBandwidth(row, r)

\* A second row for a signal that has one is inserted only when two workers
\* race: the row of that signal was committed, or made into one of that signal,
\* after this transaction had looked for it in vain (AnalysisService.cpp
\* 675-682 and 762-782).
InsertsOnlyRaced ==
    \A w \in Workers :
        pc[w] = "commit" /\ step[w] = "insert" =>
            \A i \in Committed : SameSignal(table[i], result[w]) => credits[i] > seen[w][i]

\* AnalysisService.cpp:711: "not yet classified -> fill in modulation".  A row
\* that is already classified is overwritten only when another transaction has
\* committed to it since the SELECT that found it unclassified.
PromotesOnlyRaced ==
    \A w \in Workers :
        pc[w] = "commit" /\ step[w] = "promote" /\ table[target[w]].classified =>
            credits[target[w]] > seen[w][target[w]]

\* AnalysisService.cpp:672: "Same identity -> this signal was seen before;
\* update last_seen", and :759 "entirely new signal -- insert classified row".
\* No two rows have one identity.  The code does not keep this: two workers
\* can both look before either inserts.
SameIdentity(i, j) ==
    /\ table[i].mod = table[j].mod /\ table[i].mod # NoMod
    /\ SameFreq(table[i], table[j])
    /\ SimilarBandwidth(table[i], table[j])
OneRowPerSignal == \A i, j \in Committed : i # j => ~SameIdentity(i, j)

=============================================================================
