------------------------------ MODULE MCCodexInput ------------------------------
(* Small instances of CodexInput for TLC.                                   *)
EXTENDS CodexInput, TLC

Symmetry == Permutations(Inputs)
=============================================================================
