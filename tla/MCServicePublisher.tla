------------------------- MODULE MCServicePublisher -------------------------
(***************************************************************************)
(* Small instances of ServicePublisher for TLC.                            *)
(***************************************************************************)
EXTENDS ServicePublisher, TLC

\* Workers are interchangeable in every safety property.
WorkerSymmetry == Permutations(Workers)

=============================================================================
