---------------------------- MODULE MCSignalStore ----------------------------
(***************************************************************************)
(* Small instances of SignalStore for TLC.                                 *)
(***************************************************************************)
EXTENDS SignalStore, TLC

\* Workers and modulations are interchangeable in every safety property.
StoreSymmetry == Permutations(Workers) \cup Permutations(Modulations)

=============================================================================
