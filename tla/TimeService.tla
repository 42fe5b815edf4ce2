---------------------------- MODULE TimeService ----------------------------
(***************************************************************************)
(* What the server promises the boards that send to it, without buffer,    *)
(* address and loop: a TIME is on its way to a board only as the answer to *)
(* more than TIME_TICKS frames, the last of them that board's; every frame *)
(* counts for one answer only; and with one due nothing else is counted    *)
(* before it is given.                                                     *)
(***************************************************************************)
EXTENDS Integers

CONSTANTS Boards, Nobody, TIME_TICKS

VARIABLES
  answering,  \* the server is one that answers
  count,      \* frames heard since the last answer
  last,       \* the board that sent the last of them
  replies     \* how many TIME datagrams are on their way to each board

Init ==
  /\ answering \in BOOLEAN
  /\ count = 0
  /\ last = Nobody
  /\ replies = [b \in Boards |-> 0]

Hear(b) ==
  /\ answering => count <= TIME_TICKS
  /\ count' = count + 1
  /\ last' = b
  /\ UNCHANGED <<answering, replies>>

\* The answer may be lost at once, or be doubled, but goes to nobody else.
Reply ==
  /\ answering
  /\ count > TIME_TICKS
  /\ count' = 0
  /\ replies'[last] >= replies[last]
  /\ replies' = [replies EXCEPT ![last] = replies'[last]]
  /\ UNCHANGED <<answering, last>>

\* A server that does not answer may start a new count at any time.
StartAgain ==
  /\ ~ answering
  /\ count' = 0
  /\ UNCHANGED <<answering, last, replies>>

\* A TIME gets to its board, or does not.
Arrive(b) ==
  /\ replies[b] > 0
  /\ replies' = [replies EXCEPT ![b] = @ - 1]
  /\ UNCHANGED <<answering, count, last>>

Next ==
  \/ \E b \in Boards : Hear(b) \/ Arrive(b)
  \/ Reply \/ StartAgain

Spec == Init /\ [][Next]_<<answering, count, last, replies>>
=============================================================================
