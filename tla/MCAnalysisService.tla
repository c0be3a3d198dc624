------------------------- MODULE MCAnalysisService -------------------------
(***************************************************************************)
(* Small instances of AnalysisService for TLC.                             *)
(***************************************************************************)
EXTENDS AnalysisService, TLC

\* Workers are interchangeable in every safety property.
WorkerSymmetry == Permutations(Workers)

=============================================================================
