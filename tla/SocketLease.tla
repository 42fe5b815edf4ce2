---------------------------- MODULE SocketLease ----------------------------
(***************************************************************************)
(* How the board's one socket is shared by tasks that come and go: a task  *)
(* enters when there is no other and nothing was left open, takes the      *)
(* socket once, gives it back closed, and only then leaves.                *)
(***************************************************************************)
CONSTANT Tasks

VARIABLES
  users,    \* the tasks that there are
  holders,  \* those that have taken the socket
  open      \* the socket is open

Init == users = {} /\ holders = {} /\ open = FALSE

Enter(t) ==
  /\ users = {} /\ ~ open
  /\ users' = {t}
  /\ UNCHANGED <<holders, open>>

\* The socket may fail to open.
Take(t) ==
  /\ users = {t} /\ holders = {} /\ ~ open
  /\ holders' = {t}
  /\ open' \in BOOLEAN
  /\ UNCHANGED users

GiveBack(t) ==
  /\ holders = {t}
  /\ holders' = {}
  /\ open' = FALSE
  /\ UNCHANGED users

Leave(t) ==
  /\ users = {t} /\ holders = {} /\ ~ open
  /\ users' = {}
  /\ UNCHANGED <<holders, open>>

Next == \E t \in Tasks : Enter(t) \/ Take(t) \/ GiveBack(t) \/ Leave(t)

Spec == Init /\ [][Next]_<<users, holders, open>>
=============================================================================
