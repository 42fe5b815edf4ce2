----------------------------- MODULE MCGateway -----------------------------
(***************************************************************************)
(* Two boards that take turns as the root, up to two datagrams in flight   *)
(* each way, and a TIME for every two SENSOR frames.  A second has two     *)
(* "microseconds", and the clock of the host may jump either way.          *)
(***************************************************************************)
EXTENDS Gateway

CONSTANTS b1, b2

MCBoards == {b1, b2}
MCTimes == {[sec |-> 0, usec |-> 0], [sec |-> 0, usec |-> 1], [sec |-> 1, usec |-> 0]}
=============================================================================
