--------------------------- MODULE MCRecomputeQueue ---------------------------
(* The instance of RecomputeQueue for TLC: two rows, so that a batch may     *)
(* leave one aside, marked by a request of the admin API and by another      *)
(* phase of the pipeline.                                                    *)
EXTENDS RecomputeQueue

MCIds == 1..2
MCWriters == {"api", "phase"}
===============================================================================
