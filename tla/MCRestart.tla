------------------------------ MODULE MCRestart ------------------------------
(***************************************************************************)
(* Instances of Restart for TLC: a chain of processes that restart, switch *)
(* kernels, are resumed, recomposed, killed.                               *)
(***************************************************************************)
EXTENDS Restart, TLC

Swaps == Permutations(Texts)
=============================================================================
