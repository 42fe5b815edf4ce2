-------------------------- MODULE MCNodeLifecycle --------------------------
(***************************************************************************)
(* A board with two possible parents and the router, two task handles of   *)
(* each kind (one more than there may be tasks), and a short event queue.  *)
(***************************************************************************)
EXTENDS NodeLifecycle

CONSTANTS p1, p2

MCParents == {p1, p2}
MCTaskIds == {1, 2}
=============================================================================
