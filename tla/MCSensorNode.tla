---------------------------- MODULE MCSensorNode ----------------------------
(***************************************************************************)
(* Small instances of SensorNode: a board on its own, and a board with two *)
(* others that take turns as its children or send through it.              *)
(***************************************************************************)
EXTENDS SensorNode, TLC

CONSTANTS self, a, b

MCLeaf  == {self}
MCPair  == {self, a}
MCNodes == {self, a, b}
MCBelowZero == {None}

\* The other boards are interchangeable.
MCSymmetry == Permutations(Others)
=============================================================================
