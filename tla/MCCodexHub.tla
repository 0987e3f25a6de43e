------------------------------ MODULE MCCodexHub ------------------------------
(* Small instances of CodexHub for TLC.                                     *)
EXTENDS CodexHub, TLC

Symmetry == Permutations(Calls) \cup Permutations(Users)
=============================================================================
