----------------------------- MODULE SensorNode -----------------------------
(***************************************************************************)
(* One connected board of the mesh: how its own readings and the frames of *)
(* its children are gathered in the aggregation table and sent on.  Three  *)
(* threads of the firmware share the table without any lock:               *)
(*                                                                         *)
(*   - "timer": periodic_sensors_check_callback, which produces the        *)
(*     board's own readings;                                               *)
(*   - "service": esp_task_meshservice, which receives one frame per turn  *)
(*     and, when it is time, drains the table;                             *)
(*   - "event": mesh_event_handler, which drops the entry of a child that  *)
(*     has left.                                                           *)
(*                                                                         *)
(* A call on the table is several steps: the search, which is one, and     *)
(* then each of the reads and writes of AggregateTable, with the other     *)
(* threads in between.  Sending a frame is one step: the service task      *)
(* waits in it while the others go on.                                     *)
(*                                                                         *)
(* Of the children only what the table sees is here: the stations, and     *)
(* which frames is_child may take for a child's own (see Children).        *)
(***************************************************************************)
EXTENDS AggregateTable

CONSTANTS
  Self,             \* this board; Nodes are the boards it may hear of
  Below,            \* what the 8 bytes before id_children_table may hold
  FrameTypes,       \* the types of the frames that reach it
  SEND_AFTER_TICKS, \* config.send_after_ticks
  MaxSteps          \* bound: readings of a module, received while a drain is due

ASSUME SensorNodeAssumption ==
  /\ Self \in Nodes
  /\ Below \subseteq Nodes \cup {None}
  /\ FrameTypes \subseteq {"SENSOR", "FLUSH"}
  /\ SEND_AFTER_TICKS \in Nat \ {0}
  /\ MaxSteps \in Nat \ {0}

Others  == Nodes \ {Self}
Threads == {"timer", "service", "event"}

VARIABLES
  linked,         \* the stations associated with this board's access point
  known,          \* the boards that were ever: a slot may hold their id
  agg,            \* agg_table and agg_table_size
  ticks,          \* ticks of ms_gpio.c, counted up to SEND_AFTER_TICKS
  sensors_state,  \* the last reading, or the zeroes of resetSensors
  sensors,        \* the timer's local copy of the reading
  pc,             \* where each thread is
  index,          \* the index each thread has found
  size,           \* the agg_table_size each thread has read
  frame,          \* the frame of a child that the service task aggregates
  entry,          \* the aggregate that it has copied to send
  flush,          \* its local flag
  departed,       \* the child whose entry the event handler has yet to drop
  overtaken       \* history: another thread has spoilt what a call relies on

places == <<pc, index, size>>
sensorVars == <<ticks, sensors_state, sensors>>
frameVars  == <<frame, entry, flush>>
eventVars  == <<linked, known, departed>>
vars == <<agg, places, sensorVars, frameVars, eventVars, overtaken>>

NoFrame == [from |-> None, module_id |-> None]
Frames  == [from : Nodes \cup {None}, module_id : Nodes \cup {None}]

Places == [timer   |-> {"update", "read", "search", "add", "write", "count"},
           service |-> {"receive", "search", "add", "write", "count", "associate",
                        "tag", "check", "drain", "copy", "pop", "shrink", "close",
                        "send", "reset"},
           event   |-> {"idle", "lookup", "pop", "shrink", "close"}]

TypeOK ==
  /\ linked \subseteq known
  /\ known \subseteq Others
  /\ agg \in AggTables
  /\ ticks \in 0 .. SEND_AFTER_TICKS
  /\ sensors_state \in {"reading", "zero"}
  /\ sensors \in {"reading", "zero"}
  /\ DOMAIN pc = Threads
  /\ \A t \in Threads : pc[t] \in Places[t]
  /\ index \in [Threads -> 0 .. AGGREGATE_TABLE_SIZE \cup {NOT_FOUND}]
  /\ size \in [Threads -> 0 .. AGGREGATE_TABLE_SIZE]
  /\ frame \in Frames
  /\ entry \in Rows
  /\ flush \in BOOLEAN
  /\ departed \in Others \cup {None}
  /\ overtaken \in BOOLEAN

Init ==
  /\ linked = {}
  /\ known = {}
  /\ agg = NoEntries
  /\ ticks = 0
  /\ sensors_state = "zero"
  /\ sensors = "zero"
  /\ pc = [timer |-> "update", service |-> "receive", event |-> "idle"]
  /\ index = [t \in Threads |-> NOT_FOUND]
  /\ size = [t \in Threads |-> 0]
  /\ frame = NoFrame
  /\ entry = NoRow
  /\ flush = FALSE
  /\ departed = None
  /\ overtaken = FALSE

\* Bound on what stale indexes may add to entries that were taken out.
Bounded == \A i \in AggSlots : agg.row[i].steps <= MaxSteps + 1

Goes(t, place) == pc' = [pc EXCEPT ![t] = place]

\* The thread goes on with an index, or with a size, that it has read, or
\* returns from its call and keeps neither.
Finds(t, i, place) == /\ Goes(t, place)
                      /\ index' = [index EXCEPT ![t] = i]
                      /\ UNCHANGED size
Reads(t, s, place) == /\ Goes(t, place)
                      /\ size' = [size EXCEPT ![t] = s]
                      /\ UNCHANGED index
Returns(t, place)  == /\ Goes(t, place)
                      /\ index' = [index EXCEPT ![t] = NOT_FOUND]
                      /\ size' = [size EXCEPT ![t] = 0]
Moves(t, place)    == Goes(t, place) /\ UNCHANGED <<index, size>>
-----------------------------------------------------------------------------
(* push_sensors, called by the timer and by the service task.              *)

ModuleOf(t) == IF t = "timer" THEN Self ELSE frame.module_id

\* Where the caller goes on.
AfterPush(t) == IF t = "timer" THEN "update" ELSE "associate"

pushVars == <<sensors_state, ticks, frameVars, eventVars>>

Pushed(t) ==
  /\ Returns(t, AfterPush(t))
  /\ sensors' = IF t = "timer" THEN "zero" ELSE sensors

\* Mutant: the module's entry is not looked for.
SearchNothing(t) ==
  /\ pc[t] = "search"
  /\ IF agg.size < AGGREGATE_TABLE_SIZE THEN Moves(t, "write") /\ UNCHANGED sensors
                                        ELSE Pushed(t)
  /\ UNCHANGED <<agg, pushVars>>

\* The reading goes into the entry of its module, or there is room for one,
\* or it is dropped.
Search(t) ==
  /\ pc[t] = "search"
  /\ LET i == get_sensor_index_by_id(agg, ModuleOf(t))
     IN  IF i # NOT_FOUND THEN Finds(t, i, "add") /\ UNCHANGED sensors
         ELSE IF agg.size < AGGREGATE_TABLE_SIZE THEN Moves(t, "write") /\ UNCHANGED sensors
         ELSE Pushed(t)
  /\ UNCHANGED <<agg, pushVars>>

Add(t) ==
  /\ pc[t] = "add"
  /\ agg' = add_reading(agg, index[t])
  /\ Pushed(t)
  /\ UNCHANGED pushVars

\* After gettimeofday the size is read again: it is static and a call may
\* have changed it.
Write(t) ==
  /\ pc[t] = "write"
  /\ agg' = write_entry(agg, ModuleOf(t))
  /\ Reads(t, agg.size, "count")
  /\ UNCHANGED <<sensors, pushVars>>

\* What is incremented is what was read before the slot was written, or is
\* read once more: nothing in between makes the build do either.
Count(t) ==
  /\ pc[t] = "count"
  /\ \E read \in {size[t], agg.size} : agg' = store_size(agg, read + 1)
  /\ Pushed(t)
  /\ UNCHANGED pushVars

Push(t) == Search(t) \/ Add(t) \/ Write(t) \/ Count(t)
-----------------------------------------------------------------------------
(* pop_sensors_index, called by the service task, on the entry it has      *)
(* copied, and by the event handler.                                       *)

AfterPop(t) == IF t = "service" THEN "send" ELSE "idle"

\* The event is handled; the service task has an aggregate to send.
Popped(t) ==
  /\ Returns(t, AfterPop(t))
  /\ departed' = IF t = "event" THEN None ELSE departed

popVars == <<sensorVars, frameVars, linked, known>>

\* Mutant: an empty table is shrunk.
PopUntested(t) ==
  /\ pc[t] = "pop"
  /\ Reads(t, agg.size, "shrink")
  /\ UNCHANGED <<agg, departed, popVars>>

\* The size that is tested is the one that is decremented.
Pop(t) ==
  /\ pc[t] = "pop"
  /\ Reads(t, agg.size, IF agg.size > 0 THEN "shrink" ELSE "close")
  /\ UNCHANGED <<agg, departed, popVars>>


Shrink(t) ==
  /\ pc[t] = "shrink"
  /\ agg' = store_size(agg, size[t] - 1)
  /\ Reads(t, size[t] - 1, "close")
  /\ UNCHANGED <<departed, popVars>>

\* The loop that closes the gap compares its counter with the size it has
\* stored, or reads the size again for each turn: the build may do either.
Bounds(t) == {size[t], agg.size}

MoveUp(t) ==
  /\ pc[t] = "close"
  /\ \E bound \in Bounds(t) : index[t] < bound
  /\ agg' = move_up(agg, index[t])
  /\ Finds(t, index[t] + 1, "close")
  /\ UNCHANGED <<departed, popVars>>

Closed(t) ==
  /\ pc[t] = "close"
  /\ \E bound \in Bounds(t) : index[t] >= bound
  /\ Popped(t)
  /\ UNCHANGED <<agg, popVars>>

PopIndex(t) == Pop(t) \/ Shrink(t) \/ MoveUp(t) \/ Closed(t)
-----------------------------------------------------------------------------
(* The timer callback.                                                     *)

\* updateSensors: a fresh reading, one more tick.
UpdateSensors ==
  /\ pc["timer"] = "update"
  /\ ticks < SEND_AFTER_TICKS \/ StepsOf(agg, Self) < MaxSteps
  /\ Bounded
  /\ sensors_state' = "reading"
  /\ ticks' = IF ticks < SEND_AFTER_TICKS THEN ticks + 1 ELSE ticks
  /\ Moves("timer", "read")
  /\ UNCHANGED <<agg, sensors, frameVars, eventVars>>

ReadSensors ==
  /\ pc["timer"] = "read"
  /\ sensors' = sensors_state
  /\ Moves("timer", "search")
  /\ UNCHANGED <<agg, ticks, sensors_state, frameVars, eventVars>>

Timer == UpdateSensors \/ ReadSensors \/ Push("timer")
-----------------------------------------------------------------------------
(* The mesh service task.  A turn of its loop receives at most one frame.  *)

\* No frame waiting, or one that changes nothing in this module.
ReceiveNothing ==
  /\ pc["service"] = "receive"
  /\ Moves("service", "check")
  /\ UNCHANGED <<agg, sensorVars, frameVars, eventVars>>

\* A SENSOR frame that is_child takes for a child's own: the slot of a
\* station may hold the id of any that had it before.
ReceiveChildSensor(from, module_id) ==
  /\ pc["service"] = "receive"
  /\ "SENSOR" \in FrameTypes
  /\ module_id \in IF from \in linked THEN known ELSE Below
  /\ StepsOf(agg, module_id) < MaxSteps
  /\ Bounded
  /\ frame' = [from |-> from, module_id |-> module_id]
  /\ Moves("service", "search")
  /\ UNCHANGED <<agg, sensorVars, entry, flush, eventVars>>

ReceiveFlush ==
  /\ pc["service"] = "receive"
  /\ "FLUSH" \in FrameTypes
  /\ flush' = TRUE
  /\ Moves("service", "check")
  /\ UNCHANGED <<agg, sensorVars, frame, entry, eventVars>>

\* associate_mac: the entry is looked for again, and its MAC written.
Associate ==
  /\ pc["service"] = "associate"
  /\ LET i == get_sensor_index_by_id(agg, frame.module_id)
     IN  IF i # NOT_FOUND THEN Finds("service", i, "tag") /\ UNCHANGED frame
         ELSE Returns("service", "check") /\ frame' = NoFrame
  /\ UNCHANGED <<agg, sensorVars, entry, flush, eventVars>>

Tag ==
  /\ pc["service"] = "tag"
  /\ agg' = set_mac(agg, index["service"], frame.from)
  /\ frame' = NoFrame
  /\ Returns("service", "check")
  /\ UNCHANGED <<sensorVars, entry, flush, eventVars>>

\* Is it time to send?  If not the turn is over (vTaskDelay).
CheckTicks ==
  /\ pc["service"] = "check"
  /\ Moves("service", IF flush \/ ticks >= SEND_AFTER_TICKS THEN "drain" ELSE "receive")
  /\ UNCHANGED <<agg, sensorVars, frameVars, eventVars>>

\* aggregate_last_sensors: the last entry, if there is one ...
Drain ==
  /\ pc["service"] = "drain"
  /\ IF agg.size > 0 THEN Finds("service", agg.size - 1, "copy")
                     ELSE Moves("service", "reset")
  /\ UNCHANGED <<agg, sensorVars, frameVars, eventVars>>

\* Mutant: the sums are those of the first entry.
CopyFirst ==
  /\ pc["service"] = "copy"
  /\ entry' = agg.row[0]
  /\ Moves("service", "pop")
  /\ UNCHANGED <<agg, sensorVars, frame, flush, eventVars>>

\* ... is copied, and then taken out.
Copy ==
  /\ pc["service"] = "copy"
  /\ entry' = agg.row[index["service"]]
  /\ Moves("service", "pop")
  /\ UNCHANGED <<agg, sensorVars, frame, flush, eventVars>>

\* createSensorFrame and the send to the parent or, on the root, to the
\* server.  Its result is only logged: what was sent is gone either way.
SendEntry ==
  /\ pc["service"] = "send"
  /\ entry' = NoRow
  /\ Moves("service", "drain")
  /\ UNCHANGED <<agg, sensorVars, frame, flush, eventVars>>

ResetSensors ==
  /\ pc["service"] = "reset"
  /\ sensors_state' = "zero"
  /\ ticks' = 0
  /\ Moves("service", "receive")
  /\ UNCHANGED <<agg, sensors, frameVars, eventVars>>

Service ==
  \/ ReceiveNothing
  \/ \E from, module_id \in Others : ReceiveChildSensor(from, module_id)
  \/ ReceiveFlush
  \/ Push("service")
  \/ Associate \/ Tag
  \/ CheckTicks
  \/ Drain \/ Copy \/ PopIndex("service") \/ SendEntry
  \/ ResetSensors
-----------------------------------------------------------------------------
(* The events of the access point, handled one after the other.            *)

\* The access point takes max_connection stations.
ChildConnected(child) ==
  /\ pc["event"] = "idle"
  /\ Cardinality(linked \cup {child}) < AGGREGATE_TABLE_SIZE
  /\ linked' = linked \cup {child}
  /\ known' = known \cup {child}
  /\ UNCHANGED <<agg, places, sensorVars, frameVars, departed>>

ChildDisconnected(child) ==
  /\ pc["event"] = "idle"
  /\ child \in linked
  /\ linked' = linked \ {child}
  /\ departed' = child
  /\ Moves("event", "lookup")
  /\ UNCHANGED <<agg, sensorVars, frameVars, known>>

\* pop_sensors_by_mac.
Lookup ==
  /\ pc["event"] = "lookup"
  /\ LET i == get_sensor_index_by_mac(agg, departed)
     IN  IF i # NOT_FOUND THEN Finds("event", i, "pop") /\ UNCHANGED departed
                          ELSE Popped("event")
  /\ UNCHANGED <<agg, popVars>>

DropDeparted == Lookup \/ PopIndex("event")

Events ==
  \/ \E child \in Others : ChildConnected(child) \/ ChildDisconnected(child)
  \/ DropDeparted
-----------------------------------------------------------------------------
(* When calls overlap.                                                     *)

\* What a thread in the middle of a call relies on: what it has read and
\* found there is still so.
Fresh(t) ==
  /\ pc[t] \in {"add", "tag"} =>
       /\ index[t] \in Live(agg)
       /\ agg.row[index[t]].module_id = ModuleOf(t)
  /\ pc[t] = "write" => ~ HasEntry(agg, ModuleOf(t)) /\ agg.size < AGGREGATE_TABLE_SIZE
  /\ pc[t] = "count" =>
       /\ ~ HasEntry(agg, ModuleOf(t))
       /\ agg.size = size[t] /\ size[t] \in AggSlots
       /\ agg.row[size[t]] = [module_id |-> ModuleOf(t), steps |-> 1]
  /\ pc[t] \in {"copy", "pop", "shrink"} =>
       /\ index[t] \in Live(agg)
       /\ t = "event" => agg.mac[index[t]] = departed
       /\ t = "service" /\ pc[t] # "copy" => agg.row[index[t]] = entry
       /\ pc[t] = "shrink" => agg.size = size[t]

\* The places outside the calls on the table.
Outside == {"update", "read", "receive", "check", "send", "reset", "idle"}

\* A step of one thread makes stale what another relies on, or is on the
\* table while another moves its entries up.  (So would be a step within the
\* reading or the writing of one entry, which are not cut here.)
Overtakes(t) ==
  \E u \in Threads \ {t} :
    \/ Fresh(u) /\ ~ Fresh(u)'
    \/ pc[u] = "close" /\ pc[t] \notin Outside

\* The table counts, or a thread has written or moved up, a slot that the
\* array has not.  What comes of that is undefined: the model stops there.
Overrun ==
  \/ agg.size > AGGREGATE_TABLE_SIZE
  \/ \E t \in Threads : pc[t] = "count" /\ size[t] >= AGGREGATE_TABLE_SIZE
  \/ \E t \in Threads : pc[t] = "close" /\ index[t] = AGGREGATE_TABLE_SIZE

\* The table as it will be when the entries are moved up.
Settled == IF pc["service"] = "close" THEN close_gap(agg, index["service"], size["service"])
           ELSE IF pc["event"] = "close" THEN close_gap(agg, index["event"], size["event"])
           ELSE agg
-----------------------------------------------------------------------------
\* A step of one of the threads.
Step(t, A) == ~ Overrun /\ A /\ overtaken' = (overtaken \/ Overtakes(t))

Next == Step("timer", Timer) \/ Step("service", Service) \/ Step("event", Events)

Spec == Init /\ [][Next]_vars

\* Each thread keeps running: the scheduler is preemptive, the timer is
\* periodic and an event handler that was called goes on to its end.
Fairness ==
  /\ WF_vars(Step("timer", Timer))
  /\ WF_vars(Step("service", Service))
  /\ WF_vars(Step("event", DropDeparted))

FairSpec == Spec /\ Fairness
-----------------------------------------------------------------------------
(* Safety                                                                  *)

\* No entry is being moved up: where one is, two slots hold it for a moment.
AtRest == \A t \in Threads : pc[t] # "close"

\* push_sensors looks for the module's entry before it makes one
\* (ms_aggregate.c:54): no two entries have the same module id.
DistinctEntries ==
  AtRest => \A i, j \in Live(agg) : agg.row[i].module_id = agg.row[j].module_id => i = j

\* Every live entry has a reading, and so has the one being sent: the mean
\* divides by steps (ms_aggregate.c:110).
MeansAreDefined ==
  /\ AtRest => \A i \in Live(agg) : agg.row[i].steps > 0
  /\ pc["service"] = "send" => entry.steps > 0

\* ms_aggregate.h:10 "aggregate table e child table hanno la stessa size", and
\* :12 "Posso anche aggregare i miei sensori (+1)": an entry for each child and
\* one for the board are all that is ever in the table, or written to it.
TableHolds == ~ Overrun

\* What the service task has copied to send is all that it takes out of the
\* table (ms_aggregate.c:107-112).
OutgoingIsWhole ==
  pc["service"] \in {"pop", "shrink"} => agg.row[index["service"]] = entry

\* Until a call is overtaken by another (ms_aggregate.c:19-134), in any order
\* of calls and with any overlaps that leave alone what a call relies on, the
\* table has one entry for a module, no empty one, and none too many.
SoundUntilOvertaken ==
  ~ overtaken => DistinctEntries /\ MeansAreDefined /\ TableHolds
-----------------------------------------------------------------------------
(* What the comments of the code say, and the code does not do.            *)

\* ms_aggregate.h:10 and :12, an entry for each child and one for the board,
\* and mesh_main.c:335 "Se e' il momento invio i dati aggregati": the table
\* that three threads share without a lock has one entry for a module, none
\* empty and none too many, and what is taken out of it is what is sent.
TableStaysSound ==
  DistinctEntries /\ MeansAreDefined /\ TableHolds /\ OutgoingIsWhole

\* ms_aggregate.h:12 "Posso anche aggregare i miei sensori (+1)": the board's
\* own entry is its own, and a child that leaves does not take it along.
OwnEntrySurvivesDepartures ==
  [][~ overtaken /\ pc["event"] = "shrink" /\ pc'["event"] = "close" /\ HasEntry(agg, Self)
       => HasEntry(Settled', Self)]_vars

\* firmware/README.md:15-17 "root send and receive", "other nodes receive": the
\* service task comes back to its receive.
KeepsReceiving == []<>(pc["service"] = "receive")
-----------------------------------------------------------------------------
(* What the table implements.  A reading that finds the table full changes *)
(* nothing in the ledger.                                                  *)

Sending == IF pc["service"] \in {"close", "send"} THEN entry ELSE NoRow
Leaving == departed # None /\ pc["event"] # "close"

Ledger == INSTANCE SampleLedger WITH
  pending  <- [n \in Nodes |-> StepsOf(Settled, n)],
  outgoing <- Sending,
  leaving  <- Leaving,
  broken   <- overtaken

\* The shared table, with its search, append, shift and take-from-the-end
\* (ms_aggregate.c:19-134), counts no reading twice, mixes none up between
\* modules and loses none that it took, except those of one module when a
\* child leaves: until a call is overtaken by another.
ImplementsLedger == Ledger!Spec
-----------------------------------------------------------------------------
(* Liveness                                                                *)

=============================================================================
