--------------------------- MODULE MCHarvestRouter ---------------------------
(* The harvest router on one strategy, for TLC. *)
EXTENDS HarvestRouter
=============================================================================
