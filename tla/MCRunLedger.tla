---------------------------- MODULE MCRunLedger -----------------------------
(* RunLedger with small sets of Cores, Runs and artifact contents, all model *)
(* values of the .cfg.  No symmetry: the run checks a liveness property.     *)
EXTENDS RunLedger
=============================================================================
