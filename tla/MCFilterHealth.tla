--------------------------- MODULE MCFilterHealth ---------------------------
(* Two edits, to turn dryRun on and off again or to disable the filter and *)
(* enable it, and two faults, to lose a status patch and the counter.      *)
EXTENDS FilterHealthProps
=============================================================================
