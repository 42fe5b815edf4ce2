------------------------------ MODULE Children ------------------------------
(***************************************************************************)
(* The children of a board.  Stations associate with its access point and  *)
(* leave; the event task handles that later and enters them in the         *)
(* children table or takes them out; the mesh service task meanwhile looks *)
(* up the senders of the frames it receives, to note the id in an ADV or   *)
(* to tell a child's own SENSOR frame from one that is to be passed on.    *)
(* There is no lock: the service task keeps an index it has found while    *)
(* the event task moves the slots.                                         *)
(*                                                                         *)
(* A search of the table and the copy of one MAC are one step each: fewer  *)
(* interleavings than the board has, none that it has not.  What a search  *)
(* finds when slots move under it is a slot that was its sender's a moment *)
(* ago, as here, or none.                                                  *)
(***************************************************************************)
EXTENDS ChildTable

CONSTANT Self    \* this board

ASSUME ChildrenAssumption == Self \in Nodes

Others == Nodes \ {Self}

VARIABLES
  stations,   \* the stations of the access point
  posted,     \* the event that waits: at most one, which is a bound
  known,      \* history: the stations that have been entered
  children,   \* mac_children_table, id_children_table, their size
  event,      \* the event task: what its pop_child moves next
  pos,        \* the slot it moves it to
  held,       \* the id it has read and not yet stored there
  service,    \* the mesh service task: where in a turn of its loop it is
  frame,      \* the frame it has received
  index       \* the slot it has found for the sender

eventVars   == <<event, pos, held>>
serviceVars == <<service, frame, index>>
vars == <<stations, posted, known, children, eventVars, serviceVars>>

NoEvent == [type |-> "none", child |-> None]
Events  == {NoEvent} \cup [type : {"CONNECTED", "DISCONNECTED"}, child : Others]

NoFrame == [type |-> "none", from |-> None, module_id |-> None]
Frames  == {NoFrame} \cup [type : {"SENSOR", "ADV"}, from : Others, module_id : Others]

TypeOK ==
  /\ stations \subseteq Others
  /\ posted \in Events
  /\ known \subseteq Others
  /\ children \in ChildTables
  /\ \A i \in ChildSlots : children.id[i] \in known \cup {None}
  /\ event \in {"idle", "mac", "id", "store"}
  /\ pos \in ChildSlots
  /\ held \in known \cup {None}
  /\ service \in {"receive", "lookup", "compare", "identify", "aggregate"}
  /\ frame \in Frames
  /\ index \in ChildSlots \cup {NOT_FOUND}

Init ==
  /\ stations = {}
  /\ posted = NoEvent
  /\ known = {}
  /\ children = NoChildren
  /\ event = "idle"
  /\ pos = 0
  /\ held = None
  /\ service = "receive"
  /\ frame = NoFrame
  /\ index = NOT_FOUND
-----------------------------------------------------------------------------
(* The access point.                                                       *)

\* A station associates, or associates again before its departure was
\* noticed.  The access point takes max_connection of them.
Associate(child) ==
  /\ posted = NoEvent
  /\ Cardinality(stations \cup {child}) <= CHILDREN_TABLE_SIZE
  /\ stations' = stations \cup {child}
  /\ posted' = [type |-> "CONNECTED", child |-> child]
  /\ UNCHANGED <<known, children, eventVars, serviceVars>>

Leave(child) ==
  /\ posted = NoEvent
  /\ child \in stations
  /\ stations' = stations \ {child}
  /\ posted' = [type |-> "DISCONNECTED", child |-> child]
  /\ UNCHANGED <<known, children, eventVars, serviceVars>>
-----------------------------------------------------------------------------
(* The event task: one event after the other.                              *)

ChildConnected ==
  /\ event = "idle"
  /\ posted.type = "CONNECTED"
  /\ posted' = NoEvent
  /\ known' = known \cup {posted.child}
  /\ children' = push_child(children, posted.child)
  /\ UNCHANGED <<stations, eventVars, serviceVars>>

\* The loop has nothing to move if the child was the last.
ChildDisconnected ==
  /\ event = "idle"
  /\ posted.type = "DISCONNECTED"
  /\ posted' = NoEvent
  /\ LET i == get_child_index_by_mac(children, posted.child)
     IN  IF i = NOT_FOUND THEN UNCHANGED <<children, eventVars>>
         ELSE /\ children' = shrink(children)
              /\ IF i < children.size - 1 THEN event' = "mac" /\ pos' = i
                                          ELSE UNCHANGED <<event, pos>>
              /\ UNCHANGED held
  /\ UNCHANGED <<stations, known, serviceVars>>

MoveMac ==
  /\ event = "mac"
  /\ children' = move_mac(children, pos)
  /\ event' = "id"
  /\ UNCHANGED <<stations, posted, known, pos, held, serviceVars>>

ReadId ==
  /\ event = "id"
  /\ held' = children.id[pos + 1]
  /\ event' = "store"
  /\ UNCHANGED <<stations, posted, known, children, pos, serviceVars>>

NextSlot ==
  /\ held' = None
  /\ IF pos + 1 < children.size THEN event' = "mac" /\ pos' = pos + 1
                                ELSE event' = "idle" /\ pos' = 0

\* Mutant: the ids stay where they are.
StoreIdNot ==
  /\ event = "store"
  /\ NextSlot
  /\ UNCHANGED <<stations, posted, known, children, serviceVars>>

StoreId ==
  /\ event = "store"
  /\ children' = set_id(children, pos, held)
  /\ NextSlot
  /\ UNCHANGED <<stations, posted, known, serviceVars>>

EventTask == ChildConnected \/ ChildDisconnected \/ MoveMac \/ ReadId \/ StoreId
-----------------------------------------------------------------------------
(* The mesh service task.                                                  *)

\* A board's own ADV, or a SENSOR frame, its own or one that it passes on.
\* It may be no station, or no longer.
Receive(type, from, module_id) ==
  /\ service = "receive"
  /\ type = "ADV" => module_id = from
  /\ frame' = [type |-> type, from |-> from, module_id |-> module_id]
  /\ service' = "lookup"
  /\ UNCHANGED <<stations, posted, known, children, eventVars, index>>

TurnEnds == service' = "receive" /\ frame' = NoFrame /\ index' = NOT_FOUND

\* get_child_index_by_mac, called by is_child and by set_child_id, which
\* leaves an ADV alone whose sender it does not find.
Lookup ==
  /\ service = "lookup"
  /\ LET i == get_child_index_by_mac(children, frame.from)
     IN  CASE frame.type = "SENSOR" -> /\ service' = "compare"
                                       /\ index' = i
                                       /\ UNCHANGED frame
           [] frame.type = "ADV" /\ i # NOT_FOUND -> /\ service' = "identify"
                                                     /\ index' = i
                                                     /\ UNCHANGED frame
           [] OTHER -> TurnEnds
  /\ UNCHANGED <<stations, posted, known, children, eventVars>>

\* is_child: a child's own frame is aggregated, any other is passed on to
\* the root, or from the root to the server.
Aggregates(id) ==
  /\ service = "compare"
  /\ id \in ids_at(children, index)
  /\ id = frame.module_id
  /\ service' = "aggregate"
  /\ UNCHANGED <<stations, posted, known, children, eventVars, frame, index>>

PassesOn(id) ==
  /\ service = "compare"
  /\ id \in ids_at(children, index)
  /\ id # frame.module_id
  /\ TurnEnds
  /\ UNCHANGED <<stations, posted, known, children, eventVars>>

\* push_sensors and associate_mac (see SensorNode).
Aggregated ==
  /\ service = "aggregate"
  /\ TurnEnds
  /\ UNCHANGED <<stations, posted, known, children, eventVars>>

\* set_child_id, at the index it has found.
Identify ==
  /\ service = "identify"
  /\ children' = set_id(children, index, frame.module_id)
  /\ TurnEnds
  /\ UNCHANGED <<stations, posted, known, eventVars>>

Service ==
  \/ \E type \in {"SENSOR", "ADV"}, from, module_id \in Others :
       Receive(type, from, module_id)
  \/ Lookup
  \/ \E id \in Nodes \cup {None} : Aggregates(id) \/ PassesOn(id)
  \/ Aggregated \/ Identify
-----------------------------------------------------------------------------
Next ==
  \/ \E child \in Others : Associate(child) \/ Leave(child)
  \/ EventTask
  \/ Service

Spec == Init /\ [][Next]_vars
-----------------------------------------------------------------------------
(* The table as the event task is going to leave it.                       *)

SettledMac ==
  CASE event = "idle"            -> children.mac
    [] event = "mac"             -> ShiftLeft(children.mac, pos, children.size)
    [] event \in {"id", "store"} -> ShiftLeft(children.mac, pos + 1, children.size)

SettledId ==
  CASE event = "idle"           -> children.id
    [] event \in {"mac", "id"}  -> ShiftLeft(children.id, pos, children.size)
    [] event = "store"          -> ShiftLeft([children.id EXCEPT ![pos] = held],
                                             pos + 1, children.size)

Settled == [mac |-> SettledMac, id |-> SettledId, size |-> children.size]

-----------------------------------------------------------------------------
(* Safety                                                                  *)

\* Through reconnections in any order push_child and pop_child (mesh_main.c:
\* 135-181) keep the table equal to the stations, one slot each, once the
\* event that waits is handled, and so never without room for one.
ChildrenMirrorStations ==
  /\ posted = NoEvent => Macs(Settled) = stations
  /\ \A i, j \in Slots(children.size) : Settled.mac[i] = Settled.mac[j] => i = j

\* The id a board has noted for one of its children.
IdOf(table, child) == table.id[get_child_index_by_mac(table, child)]

\* The child whose ADV is being noted has been moved, or has left, since its
\* slot was found.
Misplaces ==
  /\ service = "identify" /\ service' = "receive"
  /\ children.mac[index] # frame.from

\* While slots move, one array after the other (mesh_main.c:174-177), and ADVs
\* are noted in between, a child's id goes where the child goes and only its
\* own ADV changes it: save for an ADV that is noted in a slot which is no
\* longer its sender's.
IdsStayUnlessMisplaced ==
  [][\A child \in Macs(Settled) \cap Macs(Settled') :
       \/ IdOf(Settled', child) \in {IdOf(Settled, child), child}
       \/ Misplaces]_vars
\* mesh_main.c:322 "Ora posso aggiornare": the ADV of a station is noted, and
\* not forgotten for want of a slot whatever the stations have done before, save
\* while its own arrival is still to be handled or slots are being moved.
AdvIsNoted ==
  [][service = "lookup" /\ frame.type = "ADV" /\ service' = "receive" =>
       \/ frame.from \notin stations
       \/ posted = [type |-> "CONNECTED", child |-> frame.from]
       \/ event # "idle"]_vars
-----------------------------------------------------------------------------
(* What the comments of the code say, and the code does not do.            *)

\* mesh_main.c:280 "devo aggregare se figlio diretto", :318 "cosi' sono sicuro
\* che sia one-hop": what a child passes on for another board is not
\* aggregated as its own, in the slots of children that have come and gone.
OnlyOwnFramesAggregated == service = "aggregate" => frame.module_id = frame.from
=============================================================================
