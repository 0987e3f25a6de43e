----------------------------- MODULE MCCodexRouting -----------------------------
(* Small instances of CodexRouting for TLC: a session, the thread it        *)
(* spawned and the thread that one spawned.                                 *)
EXTENDS CodexRouting

CONSTANTS Root, Child, Grandchild

Family == {Root, Child, Grandchild}
FamilyParent ==
    [t \in Family |-> CASE t = Child -> Root [] t = Grandchild -> Child [] OTHER -> Nobody]

Pair == {Root, Child}
PairParent == [t \in Pair |-> IF t = Child THEN Root ELSE Nobody]
=============================================================================
