------------------------------- MODULE Boards -------------------------------
(***************************************************************************)
(* The boards of the mesh.  A board's MAC address and its module id are    *)
(* one and the same model value: every build gives a board one of each     *)
(* (mesh_main.c:81 and esp_wifi_get_mac), and the code only ever compares  *)
(* them for equality.                                                      *)
(***************************************************************************)
CONSTANTS
  Nodes,   \* the boards
  None     \* the all-zero MAC and the module id 0, which no board has

ASSUME NoneAssumption == None \notin Nodes
=============================================================================
