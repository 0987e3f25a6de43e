----------------------------- MODULE MCCodexRejoin -----------------------------
(* Small instances of CodexRejoin for TLC.                                  *)
EXTENDS CodexRejoin, TLC

Symmetry == Permutations(Inputs) \cup Permutations(Requests)
=============================================================================
