--------------------------- MODULE MCInvestigate ---------------------------
(* Investigate on a small instance: the model values are in the .cfg.        *)
EXTENDS Investigate
=============================================================================
