---------------------------- MODULE PickedLists ----------------------------
(***************************************************************************)
(* What a boolean mask or a filtering loop of numpy and Python makes of a  *)
(* list: the elements at some of its places, in their order.               *)
(***************************************************************************)
EXTENDS Integers, Sequences, FiniteSets, SequencesExt

\* A finite set of indices in the order of a loop over them.
InOrder(S) == [k \in 1..Cardinality(S) |-> CHOOSE n \in S : Cardinality({m \in S : m <= n}) = k]

\* The elements at the places of keep, in their order.
Picked(all, keep) ==
    LET order == InOrder(keep)
    IN  [k \in 1..Len(order) |-> all[order[k]]]

=============================================================================
