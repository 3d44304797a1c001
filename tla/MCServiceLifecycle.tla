------------------------- MODULE MCServiceLifecycle -------------------------
(* ServiceLifecycle on a small instance: the model values are in the .cfg.   *)
EXTENDS ServiceLifecycle, TLC
=============================================================================
