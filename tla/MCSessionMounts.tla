--------------------------- MODULE MCSessionMounts ---------------------------
(* Small instances of SessionMounts for TLC, and CalmSpec with one of its   *)
(* three conjuncts left to chance.                                          *)
EXTENDS SessionMounts, TLC

Symmetry == Permutations(Procs) \cup Permutations(Ops)

RacingReclaim == Init /\ [][Next /\ OneOperationPerSession /\ AnnouncementsSucceed]_vars
RepeatedOperations == Init /\ [][Next /\ CalmReclaim /\ AnnouncementsSucceed]_vars
SilentCreates == Init /\ [][Next /\ CalmReclaim /\ OneOperationPerSession]_vars
=============================================================================
