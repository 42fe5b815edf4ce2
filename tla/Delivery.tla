------------------------------ MODULE Delivery ------------------------------
(***************************************************************************)
(* What the whole mesh promises about readings, without boards, tables,    *)
(* hops and frames: a reading that is made is inside the mesh until it is  *)
(* handed to the server's socket, once, or given up, and both are final.   *)
(* What leaves together are readings of one maker.                         *)
(*                                                                         *)
(* A reading is a pair: its maker and a number.                            *)
(***************************************************************************)
CONSTANT Readings

VARIABLES
  inside,   \* readings held by a board or on their way to one
  out,      \* readings handed to the socket of the root
  lost      \* readings given up

Init == inside = {} /\ out = {} /\ lost = {}

OfOneMaker(S) == \A r, s \in S : r[1] = s[1]

\* A new reading is taken in, or given up at once: there is no room for it.
Make(r) ==
  /\ r \notin inside \cup out \cup lost
  /\ \/ inside' = inside \cup {r} /\ UNCHANGED lost
     \/ lost' = lost \cup {r} /\ UNCHANGED inside
  /\ UNCHANGED out

HandOver(S) ==
  /\ OfOneMaker(S)
  /\ inside' = inside \ S
  /\ out' = out \cup S
  /\ UNCHANGED lost

GiveUp(S) ==
  /\ OfOneMaker(S)
  /\ inside' = inside \ S
  /\ lost' = lost \cup S
  /\ UNCHANGED out

Next ==
  \/ \E r \in Readings : Make(r)
  \/ \E S \in SUBSET inside : HandOver(S) \/ GiveUp(S)

Spec == Init /\ [][Next]_<<inside, out, lost>>
=============================================================================
