-------------------------- MODULE MCSessionSwitch --------------------------
(* SessionSwitch on small instances; attempts are interchangeable where no *)
(* liveness is checked.                                                    *)
EXTENDS SessionSwitch, TLC

Symmetry == Permutations(Attempts)
=============================================================================
