--------------------------- MODULE MCCodexPrompts ---------------------------
(* Small instances of CodexPrompts for TLC.                                *)
EXTENDS CodexPrompts, TLC

Symmetry == Permutations(Asks)
=============================================================================
