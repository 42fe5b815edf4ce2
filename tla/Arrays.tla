------------------------------- MODULE Arrays -------------------------------
(***************************************************************************)
(* The C arrays of the firmware: functions on 0..CAPACITY-1 of which the   *)
(* first "size" slots are live.  A dead slot keeps what was last written   *)
(* to it, which is why the tables are not sequences here.                  *)
(***************************************************************************)
EXTENDS Integers, FiniteSetsExt

Slots(capacity) == 0 .. capacity - 1

\* The answer of the lookup loops when no slot matches.
NOT_FOUND == -1

\* A search that stops at its first match, and one that runs to the end and
\* keeps the last.
FirstOf(hits) == IF hits = {} THEN NOT_FOUND ELSE Min(hits)
LastOf(hits)  == IF hits = {} THEN NOT_FOUND ELSE Max(hits)

\* The memcpy loop that closes the gap at index in an array whose new size
\* is size: the slots from size on keep their contents.
ShiftLeft(array, index, size) ==
  [i \in DOMAIN array |->
     IF index <= i /\ i < size THEN array[i + 1] ELSE array[i]]
=============================================================================
