----------------------------- MODULE MCChildren -----------------------------
(* Three child slots, and three boards that take turns in them.                *)
EXTENDS Children, TLC

CONSTANTS self, a, b, c

MCNodes == {self, a, b, c}
MCBelowZero == {None}
MCBelowAny  == {None, a, b, c}

\* The other boards are interchangeable.
MCSymmetry == Permutations(Others)
=============================================================================
