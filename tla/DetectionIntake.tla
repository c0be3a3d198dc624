--------------------------- MODULE DetectionIntake ---------------------------
(***************************************************************************)
(* What the detection intake promises, without threads, locks or program   *)
(* counters: reports of one bucket are admitted at least a cooldown apart, *)
(* a bounded number of them wait, each is analysed at most once, in the    *)
(* order of admission, and when the service has stopped nothing is in      *)
(* progress and nothing changes any more.                                  *)
(***************************************************************************)
EXTENDS Integers, Sequences, Functions

CONSTANTS
    Reports,      \* what may be admitted, records with a time "at"
    SameBucket(_, _),
    Depth,        \* how many reports may wait
    Spacing       \* the least time between two admissions of one bucket

VARIABLES
    waiting,      \* admitted and not yet taken up, oldest first
    active,       \* being analysed
    finished,     \* analysed
    refused,      \* admitted when there was no room to wait
    closed        \* the service has stopped

intakeVars == <<waiting, active, finished, refused, closed>>

Seen == Range(waiting) \cup active \cup finished \cup refused

Init ==
    /\ waiting = <<>>
    /\ active = {} /\ finished = {} /\ refused = {}
    /\ closed = FALSE

Spaced(r) == \A e \in Seen : SameBucket(r, e) => r.at - e.at >= Spacing

Admit(r) ==
    /\ ~closed
    /\ Spaced(r)
    /\ \/ /\ Len(waiting) < Depth
          /\ waiting' = Append(waiting, r)
          /\ UNCHANGED refused
       \/ /\ Len(waiting) = Depth
          /\ refused' = refused \cup {r}
          /\ UNCHANGED waiting
    /\ UNCHANGED <<active, finished, closed>>

TakeUp ==
    /\ ~closed
    /\ waiting # <<>>
    /\ waiting' = Tail(waiting)
    /\ active' = active \cup {Head(waiting)}
    /\ UNCHANGED <<finished, refused, closed>>

Complete(r) ==
    /\ r \in active
    /\ active' = active \ {r}
    /\ finished' = finished \cup {r}
    /\ UNCHANGED <<waiting, refused, closed>>

Close ==
    /\ ~closed
    /\ active = {}
    /\ closed' = TRUE
    /\ UNCHANGED <<waiting, active, finished, refused>>

Next ==
    \/ \E r \in Reports : Admit(r) \/ Complete(r)
    \/ TakeUp
    \/ Close

Spec == Init /\ [][Next]_intakeVars

=============================================================================
