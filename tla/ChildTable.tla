----------------------------- MODULE ChildTable -----------------------------
(***************************************************************************)
(* The children table of mesh_main.c: mac_children_table,                  *)
(* id_children_table and children_table_size as one record                 *)
(* [mac, id, size].  A slot is filled by push_child when a station         *)
(* associates and given its module id by set_child_id when the child's ADV *)
(* frame arrives.                                                          *)
(*                                                                         *)
(* Only the event handler writes mac and size, and only set_child_id, of   *)
(* the service task, writes id beside it.  push_child is one step for the  *)
(* others, which do not look at a slot before the size counts it, but      *)
(* pop_child is several: the size, and for each slot the MAC, the id of    *)
(* the next slot read, and stored.                                         *)
(*                                                                         *)
(* An id that was never written is 0 (None): the array is zeroed at boot.  *)
(***************************************************************************)
EXTENDS Arrays, Boards

CONSTANTS
  CHILDREN_TABLE_SIZE,   \* CONFIG_MESH_AP_CONNECTIONS
  Below                  \* what the 8 bytes before id_children_table may hold

ASSUME ChildTableAssumption ==
  /\ CHILDREN_TABLE_SIZE \in Nat \ {0}
  /\ Below # {}
  /\ Below \subseteq Nodes \cup {None}

ChildSlots == Slots(CHILDREN_TABLE_SIZE)

ChildTables == [mac  : [ChildSlots -> Nodes \cup {None}],
                id   : [ChildSlots -> Nodes \cup {None}],
                size : 0 .. CHILDREN_TABLE_SIZE]

NoChildren == [mac  |-> [i \in ChildSlots |-> None],
               id   |-> [i \in ChildSlots |-> None],
               size |-> 0]

\* The MACs that the table holds.
Macs(table) == {table.mac[i] : i \in Slots(table.size)}

get_child_index_by_mac(table, addr) ==
  FirstOf({i \in Slots(table.size) : table.mac[i] = addr})

\* Mutants: no room is asked for, or too much; a child that is in the table is
\* entered again.
push_child_blind(table, addr) ==
  [table EXCEPT !.mac[table.size] = addr, !.size = @ + 1]

push_child_full(table, addr) ==
  IF /\ get_child_index_by_mac(table, addr) = NOT_FOUND
     /\ table.size + 1 < CHILDREN_TABLE_SIZE
  THEN [table EXCEPT !.mac[table.size] = addr, !.size = @ + 1]
  ELSE table

push_child_again(table, addr) ==
  IF table.size < CHILDREN_TABLE_SIZE
  THEN [table EXCEPT !.mac[table.size] = addr, !.size = @ + 1]
  ELSE table

\* id_children_table is not written: a slot that is used again still holds
\* the id of the child that had it before.
push_child(table, addr) ==
  IF /\ get_child_index_by_mac(table, addr) = NOT_FOUND
     /\ table.size < CHILDREN_TABLE_SIZE
  THEN [table EXCEPT !.mac[table.size] = addr, !.size = @ + 1]
  ELSE table

\* pop_child, once the child is found: the size goes down at once, and then
\* slot by slot the MAC and the id move up.
shrink(table) == [table EXCEPT !.size = @ - 1]

move_mac(table, i) == [table EXCEPT !.mac[i] = table.mac[i + 1]]

\* set_child_id, once the child is found, and the loop of pop_child, once it
\* has read the id of the next slot.
set_id(table, index, id) == [table EXCEPT !.id[index] = id]

\* The ids that is_child may compare with the frame's: the slot's, or, for a
\* sender that was not found, id_children_table[-1], which lies outside the
\* array.
ids_at(table, index) == IF index = NOT_FOUND THEN Below ELSE {table.id[index]}
=============================================================================
