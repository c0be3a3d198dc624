--------------------------- MODULE MCIqCollector ---------------------------
(***************************************************************************)
(* Small instances of IqCollector for TLC.  Its runs check liveness beside *)
(* safety, or count rates per worker, so they use no symmetry.             *)
(***************************************************************************)
EXTENDS IqCollector
=============================================================================
