--------------------------- MODULE AggregateTable ---------------------------
(***************************************************************************)
(* The aggregation table of ms_aggregate.c: agg_table and agg_table_size   *)
(* as a record [row, mac, size].  An entry accumulates the readings of one *)
(* module until it is taken out to be sent.                                *)
(*                                                                         *)
(* row[i] is the part of an entry that push_sensors writes for every new   *)
(* entry: its module_id and steps (sum_sensors and the start timestamp go  *)
(* with steps and are left out).  mac[i] is kept apart because             *)
(* push_sensors does not write it: a new entry has the MAC its slot held   *)
(* before.                                                                 *)
(*                                                                         *)
(* The functions of the code are not here in one piece: nothing locks the  *)
(* table, and another thread may get in wherever one reads it, tests what  *)
(* it has read, and writes.  Each operator is one such read or write.      *)
(***************************************************************************)
EXTENDS Arrays, Boards

CONSTANT AGGREGATE_TABLE_SIZE    \* CONFIG_MESH_AP_CONNECTIONS + 1

ASSUME AggregateTableAssumption == AGGREGATE_TABLE_SIZE \in Nat \ {0}

AggSlots == Slots(AGGREGATE_TABLE_SIZE)

NoRow == [module_id |-> None, steps |-> 0]

Rows == [module_id : Nodes \cup {None}, steps : Nat]

\* The size may come to count one entry more than the array has room for.
AggTables == [row  : [AggSlots -> Rows],
              mac  : [AggSlots -> Nodes \cup {None}],
              size : 0 .. AGGREGATE_TABLE_SIZE + 1]

NoEntries == [row  |-> [i \in AggSlots |-> NoRow],
              mac  |-> [i \in AggSlots |-> None],
              size |-> 0]

\* The slots of the array that the size counts.
Live(table) == Slots(table.size) \cap AggSlots

get_sensor_index_by_id(table, module_id) ==
  LastOf({i \in Live(table) : table.row[i].module_id = module_id})

get_sensor_index_by_mac(table, mac) ==
  LastOf({i \in Live(table) : table.mac[i] = mac})

\* push_sensors: one more reading in the entry at index, or a new entry in
\* the slot after the last, which agg_table_size does not count yet.
add_reading(table, index) == [table EXCEPT !.row[index].steps = @ + 1]

write_entry(table, module_id) ==
  [table EXCEPT !.row = [i \in AggSlots |->
     IF i = table.size THEN [module_id |-> module_id, steps |-> 1] ELSE @[i]]]

store_size(table, size) == [table EXCEPT !.size = size]

\* pop_sensors_index: after store_size its loop moves the entries up, one
\* after the other.  What lies behind the array is not modelled.
move_up(table, index) ==
  IF index + 1 \in AggSlots
  THEN [table EXCEPT !.row[index] = table.row[index + 1],
                     !.mac[index] = table.mac[index + 1]]
  ELSE table

\* associate_mac, once it has found the entry.
set_mac(table, index, mac) == [table EXCEPT !.mac[index] = mac]
-----------------------------------------------------------------------------
\* The table as that loop leaves it, from index on and for that size, when
\* nothing comes in between.
close_gap(table, index, size) ==
  [row  |-> ShiftLeft(table.row, index, size),
   mac  |-> ShiftLeft(table.mac, index, size),
   size |-> size]

\* The entries of the table seen from outside.
HasEntry(table, module_id) ==
  \E i \in Live(table) : table.row[i].module_id = module_id

\* How many readings of module_id the table holds.
StepsOf(table, module_id) ==
  LET index == get_sensor_index_by_id(table, module_id)
  IN  IF index = NOT_FOUND THEN 0 ELSE table.row[index].steps
=============================================================================
