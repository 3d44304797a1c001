--------------------------- MODULE MCCoreSession ----------------------------
(* CoreSession with a few calls of each kind. *)
EXTENDS CoreSession, TLC

\* Calls of one kind are interchangeable.
Symmetry == Permutations(Tools) \cup Permutations(Evidence)
=============================================================================
