---------------------------- MODULE SampleLedger ----------------------------
(***************************************************************************)
(* What the aggregation of a board promises, without the table: for every  *)
(* module there is a number of readings pending, a reading is counted      *)
(* once, and the aggregate that goes out for a module stands for all the   *)
(* readings of that module that were pending and for no other.  Readings   *)
(* are given up only when a child leaves, and then of one module at most.  *)
(*                                                                         *)
(* The promise ends when two calls get in each other's way: after that     *)
(* anything may be pending or go out.                                      *)
(***************************************************************************)
EXTENDS Naturals

CONSTANTS Nodes, None

VARIABLES
  pending,    \* readings of each module accepted and not yet taken out
  outgoing,   \* the aggregate being sent: [module_id, steps]
  leaving,    \* a child has left and its readings have yet to be given up
  broken      \* two calls have got in each other's way

Nothing == [module_id |-> None, steps |-> 0]

Init ==
  /\ pending = [n \in Nodes |-> 0]
  /\ outgoing = Nothing
  /\ leaving = FALSE
  /\ broken = FALSE

\* A reading of module n is counted.
Accept(n) ==
  /\ pending' = [pending EXCEPT ![n] = @ + 1]
  /\ UNCHANGED <<outgoing, leaving>>

\* All that is pending for n becomes one aggregate on its way out.
TakeOut(n) ==
  /\ outgoing = Nothing
  /\ pending[n] > 0
  /\ outgoing' = [module_id |-> n, steps |-> pending[n]]
  /\ pending' = [pending EXCEPT ![n] = 0]
  /\ UNCHANGED leaving

HandOver ==
  /\ outgoing # Nothing
  /\ outgoing' = Nothing
  /\ UNCHANGED <<pending, leaving>>

ChildLeaves ==
  /\ ~ leaving
  /\ leaving' = TRUE
  /\ UNCHANGED <<pending, outgoing>>

\* The readings of one module are given up, or none: the child had none.
GiveUp ==
  /\ leaving
  /\ leaving' = FALSE
  /\ \/ \E n \in Nodes : pending' = [pending EXCEPT ![n] = 0]
     \/ UNCHANGED pending
  /\ UNCHANGED outgoing

Kept ==
  \/ \E n \in Nodes : Accept(n) \/ TakeOut(n)
  \/ HandOver \/ ChildLeaves \/ GiveUp

Next ==
  \/ ~ broken /\ ~ broken' /\ Kept
  \/ broken'

Spec == Init /\ [][Next]_<<pending, outgoing, leaving, broken>>
=============================================================================
