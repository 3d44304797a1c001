--------------------------- MODULE MCSessionTree ---------------------------
(* SessionTree on a small instance: the values are in the .cfg.              *)
EXTENDS SessionTree
=============================================================================
