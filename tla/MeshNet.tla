------------------------------ MODULE MeshNet ------------------------------
(***************************************************************************)
(* The boards as a tree: readings on their way up, hop by hop, to the      *)
(* socket of the root, and TIME frames on their way down to every clock.   *)
(* A board aggregates what its children report under their own id and      *)
(* passes on everything else.                                              *)
(*                                                                         *)
(* Of the aggregation table only what SampleLedger promises is left: for   *)
(* every module the readings pending for it.  A reading has a name, so     *)
(* that it can be followed through tables and frames.  A drain takes       *)
(* modules out in any order and is always due once more, because the timer *)
(* never stops (see SensorNode).                                           *)
(***************************************************************************)
EXTENDS Frames, Boards, FiniteSets

CONSTANTS
  Root,                   \* the board that is the root
  Uplink,                 \* the parents at first, as a function of the others
  module_id,              \* the module ids in memory; None stands for 0
  AGGREGATE_TABLE_SIZE,
  MaxReadings,            \* bound: readings of each board
  MaxTime,                \* bound: TIME frames of the server
  MaxMoves                \* bound: changes of parent

Others   == Nodes \ {Root}
Readings == UNION {{n} \X (1 .. MaxReadings[n]) : n \in Nodes}

ASSUME MeshNetAssumption ==
  /\ Root \in Nodes
  /\ Uplink \in [Others -> Nodes]
  /\ module_id \in [Nodes \cup {None} -> Number(2)]
  /\ \A m, n \in Nodes \cup {None} : module_id[m] = module_id[n] => m = n
  /\ AGGREGATE_TABLE_SIZE \in Nat \ {0}
  /\ MaxReadings \in [Nodes -> Nat] /\ MaxTime \in Nat /\ MaxMoves \in Nat
  /\ 0 .. MaxTime + 1 \subseteq Bytes
  /\ Aggregates = SUBSET Readings
  /\ Nodes \subseteq Macs

VARIABLES
  parent,    \* the tree
  adv,       \* the boards whose service task has an ADV to send
  ids,       \* the children of each board whose id it has
  made,      \* how many readings each board has made
  table,     \* the readings each board holds for each module
  mail,      \* mesh frames on their way
  udp,       \* the datagrams the root has sent
  lost,      \* readings given up: a full table, a failed send, a child gone
  clock,     \* the clock of each board
  now,       \* the server's clock
  down,      \* the server's datagrams on their way to the root
  moves      \* changes of parent so far

treeVars == <<parent, adv, ids, moves>>
dataVars == <<made, table, lost>>
timeVars == <<clock, now, down>>
vars == <<treeVars, dataVars, mail, udp, timeVars>>

\* A time in memory, seconds and microseconds taken as one number.
timeval(t) == [i \in 1 .. LONG |-> IF i = 1 THEN t ELSE 0]

Boot == timeval(0)

\* The timestamp of a SENSOR or ADV frame, which is printed and not used.
Stamp == timeval(1)

\* The module with the id that was read from a frame in host order.
ModuleOf(id) == CHOOSE n \in Nodes \cup {None} : module_id[n] = id

\* A frame on its way, with the frame it was built from.
Mesh(to, from, buf, of) == [to |-> to, from |-> from, buf |-> buf, of |-> of]

\* The readings a frame reports.
Reported(buf) ==
  IF buf.frame.frame_type = "SENSOR" THEN buf.frame.data.sensor_data ELSE {}

TypeOK ==
  /\ parent \in [Others -> Nodes]
  /\ adv \subseteq Others
  /\ ids \in [Nodes -> SUBSET Others]
  /\ made \in [Nodes -> Nat]
  /\ table \in [Nodes -> [Nodes -> SUBSET Readings]]
  /\ \A m \in mail : m.to \in Nodes /\ m.from \in Nodes
  /\ lost \subseteq Readings
  /\ clock \in [Nodes -> Number(LONG)]
  /\ now \in 0 .. MaxTime
  /\ moves \in 0 .. MaxMoves

Init ==
  /\ parent = Uplink
  /\ adv = Others
  /\ ids = [n \in Nodes |-> {}]
  /\ made = [n \in Nodes |-> 0]
  /\ table = [b \in Nodes |-> [n \in Nodes |-> {}]]
  /\ mail = {}
  /\ udp = {}
  /\ lost = {}
  /\ clock = [n \in Nodes |-> Boot]
  /\ now = 0
  /\ down = {}
  /\ moves = 0
-----------------------------------------------------------------------------
(* The aggregation table of a board, as its ledger.                        *)

HasRoom(b, n) ==
  \/ table[b][n] # {}
  \/ Cardinality({k \in Nodes : table[b][k] # {}}) < AGGREGATE_TABLE_SIZE

push_sensors(b, n, readings) ==
  \/ /\ HasRoom(b, n)
     /\ table' = [table EXCEPT ![b][n] = @ \cup readings]
     /\ UNCHANGED lost
  \/ /\ ~ HasRoom(b, n)
     /\ lost' = lost \cup readings
     /\ UNCHANGED table

\* The timer: a reading of the board itself.
MakeReading(b) ==
  /\ made[b] < MaxReadings[b]
  /\ made' = [made EXCEPT ![b] = @ + 1]
  /\ push_sensors(b, b, {<<b, made[b] + 1>>})
  /\ UNCHANGED <<treeVars, mail, udp, timeVars>>
-----------------------------------------------------------------------------
(* Sending.                                                                *)

\* esp_mesh_send to another board, which may fail; nobody tries again.
Post(m, rest) ==
  \/ mail' = rest \cup {m} /\ UNCHANGED lost
  \/ mail' = rest /\ lost' = lost \cup Reported(m.buf)

\* sendUDP, likewise: no socket, or no room.
PostUDP(buf, of) ==
  \/ udp' = udp \cup {[buf |-> buf, of |-> of]} /\ UNCHANGED lost
  \/ lost' = lost \cup Reported(buf) /\ UNCHANGED udp

\* That it may fail is in ReceiveAdv, which may forget it.
SendAdv(b) ==
  /\ b \in adv
  /\ adv' = adv \ {b}
  /\ LET buf == createAdvFrame(module_id[b], b, Stamp)
     IN  mail' = mail \cup {Mesh(parent[b], b, buf, Converted(buf.frame))}
  /\ UNCHANGED <<parent, ids, moves, dataVars, udp, timeVars>>

\* Mutant: the entry is sent and stays.
DrainKeeps(b) ==
  /\ \E n \in Nodes :
       /\ table[b][n] # {}
       /\ LET buf == createSensorFrame(module_id[n], table[b][n], Stamp)
              of  == Converted(buf.frame)
          IN  IF b = Root
              THEN PostUDP(buf, of) /\ UNCHANGED mail
              ELSE Post(Mesh(parent[b], b, buf, of), mail) /\ UNCHANGED udp
  /\ UNCHANGED <<treeVars, made, table, timeVars>>

\* doHMAC on the root: the service and the bridge task share md_ctx, and two
\* digests computed at once spoil one or both.  The bridge computes one for
\* every datagram of the server, and refuses it when that digest is spoiled.
MeetsBridge == \E d \in down : down' \in {down, down \ {d}}

\* An entry is taken out and sent to the parent, or to the server.
Drain(b) ==
  /\ \E n \in Nodes :
       /\ table[b][n] # {}
       /\ table' = [table EXCEPT ![b][n] = {}]
       /\ LET buf == createSensorFrame(module_id[n], table[b][n], Stamp)
              of  == Converted(buf.frame)
          IN  \/ b # Root /\ Post(Mesh(parent[b], b, buf, of), mail) /\ UNCHANGED <<udp, down>>
              \/ b = Root /\ PostUDP(buf, of) /\ UNCHANGED <<mail, down>>
              \/ b = Root /\ MeetsBridge /\ PostUDP(spoiled(buf), of) /\ UNCHANGED mail
  /\ UNCHANGED <<treeVars, made, clock, now>>
-----------------------------------------------------------------------------
(* Receiving: a turn of the mesh service task of board b.  What it passes  *)
(* on is the copy it made before the frame was converted in place.         *)

Takes(b, m, type) ==
  /\ m \in mail
  /\ m.to = b
  /\ m.from # b
  /\ m.buf.frame.frame_type = type
  /\ valid(m.buf)

Frame(m) == ntohFrameHMAC(m.buf).frame

Stations(b) == {n \in Others : parent[n] = b}

\* A station whose ADV has been heard is known.  For another sender the id
\* is that of a slot that was used before, or of no slot at all: either
\* answer may come.
is_child(b, from, n) ==
  IF from \in ids[b] THEN {from = n} ELSE BOOLEAN

\* Mutants: the readings go under the sender's module; the frame is aggregated
\* and passed on.
AggregateSensorAsSender(b, m) ==
  /\ Takes(b, m, "SENSOR")
  /\ mail' = mail \ {m}
  /\ /\ TRUE \in is_child(b, m.from, ModuleOf(Frame(m).module_id))
     /\ push_sensors(b, m.from, Frame(m).data.sensor_data)
  /\ UNCHANGED <<treeVars, made, udp, timeVars>>

AggregateSensorAndForward(b, m) ==
  /\ Takes(b, m, "SENSOR")
  /\ LET n == ModuleOf(Frame(m).module_id)
     IN  /\ TRUE \in is_child(b, m.from, n)
         /\ push_sensors(b, n, Frame(m).data.sensor_data)
  /\ IF b = Root
     THEN udp' = udp \cup {[buf |-> m.buf, of |-> m.of]} /\ mail' = mail \ {m}
     ELSE mail' = (mail \ {m}) \cup {Mesh(Root, b, m.buf, m.of)} /\ UNCHANGED udp
  /\ UNCHANGED <<treeVars, made, timeVars>>

AggregateSensor(b, m) ==
  /\ Takes(b, m, "SENSOR")
  /\ mail' = mail \ {m}
  /\ LET n == ModuleOf(Frame(m).module_id)
     IN  /\ TRUE \in is_child(b, m.from, n)
         /\ push_sensors(b, n, Frame(m).data.sensor_data)
  /\ UNCHANGED <<treeVars, made, udp, timeVars>>

\* Mutant: the buffer that is passed on has been converted.
ForwardSensorConverted(b, m) ==
  /\ Takes(b, m, "SENSOR")
  /\ FALSE \in is_child(b, m.from, ModuleOf(Frame(m).module_id))
  /\ IF b = Root
     THEN PostUDP(ntohFrameHMAC(m.buf), m.of) /\ mail' = mail \ {m}
     ELSE Post(Mesh(Root, b, ntohFrameHMAC(m.buf), m.of), mail \ {m}) /\ UNCHANGED udp
  /\ UNCHANGED <<treeVars, made, table, timeVars>>

\* Mutants: to the parent, as ms_aggregate.c:13 has it, also from the root; to
\* the root, also from the root.
ForwardSensorToParent(b, m) ==
  /\ Takes(b, m, "SENSOR")
  /\ FALSE \in is_child(b, m.from, ModuleOf(Frame(m).module_id))
  /\ Post(Mesh(IF b = Root THEN None ELSE parent[b], b, m.buf, m.of), mail \ {m})
  /\ UNCHANGED <<treeVars, made, table, udp, timeVars>>

ForwardSensorToRoot(b, m) ==
  /\ Takes(b, m, "SENSOR")
  /\ FALSE \in is_child(b, m.from, ModuleOf(Frame(m).module_id))
  /\ Post(Mesh(Root, b, m.buf, m.of), mail \ {m})
  /\ UNCHANGED <<treeVars, made, table, udp, timeVars>>

ForwardSensor(b, m) ==
  /\ Takes(b, m, "SENSOR")
  /\ FALSE \in is_child(b, m.from, ModuleOf(Frame(m).module_id))
  /\ IF b = Root
     THEN PostUDP(m.buf, m.of) /\ mail' = mail \ {m}
     ELSE Post(Mesh(Root, b, m.buf, m.of), mail \ {m}) /\ UNCHANGED udp
  /\ UNCHANGED <<treeVars, made, table, timeVars>>

\* The sender's own ADV.  It is forgotten when the board has not handled the
\* arrival of that station yet, or no longer has it.
ReceiveAdv(b, m) ==
  /\ Takes(b, m, "ADV")
  /\ mail' = mail \ {m}
  /\ \/ /\ m.from = Frame(m).data.mac
        /\ m.from \in Stations(b)
        /\ ids' = [ids EXCEPT ![b] = @ \cup {m.from}]
     \/ UNCHANGED ids
  /\ UNCHANGED <<parent, adv, moves, dataVars, udp, timeVars>>

ForMe(b, id) == id \in {module_id[None], module_id[b]}

ReceiveTime(b, m) ==
  /\ Takes(b, m, "TIME")
  /\ mail' = mail \ {m}
  /\ clock' = IF ForMe(b, Frame(m).module_id)
              THEN [clock EXCEPT ![b] = Frame(m).data.timestamp_sec]
              ELSE clock
  /\ UNCHANGED <<treeVars, dataVars, udp, now, down>>

Service(b) ==
  \/ Drain(b)
  \/ \E m \in mail : \/ AggregateSensor(b, m) \/ ForwardSensor(b, m)
                     \/ ReceiveAdv(b, m) \/ ReceiveTime(b, m)
-----------------------------------------------------------------------------
(* Time on its way down.                                                   *)

\* The server answers what it gets now and then (see Gateway).
SendTime ==
  /\ udp # {}
  /\ now < MaxTime
  /\ now' = now + 1
  /\ LET buf == createTimeFrame(module_id[None], timeval(now + 1))
     IN  down' = down \cup {[buf |-> buf, of |-> Converted(buf.frame)]}
  /\ UNCHANGED <<treeVars, dataVars, mail, udp, clock>>

\* The bridge task of the root: set the clock, and send every board in the
\* routing table the copy made before the conversion; some sends may fail.
BridgeTime(d) ==
  /\ d \in down
  /\ down' = down \ {d}
  /\ valid(d.buf) /\ d.buf.frame.frame_type = "TIME"
  /\ LET frame == ntohFrameHMAC(d.buf).frame
     IN  clock' = IF ForMe(Root, frame.module_id)
                  THEN [clock EXCEPT ![Root] = frame.data.timestamp_sec]
                  ELSE clock
  /\ \E reached \in SUBSET Others :
       mail' = mail \cup {Mesh(n, Root, d.buf, d.of) : n \in reached}
  /\ UNCHANGED <<treeVars, dataVars, udp, now>>
-----------------------------------------------------------------------------
(* Good frames that the root refuses, because of the digest it computed.   *)

RefuseSensor(m) ==
  /\ Takes(Root, m, "SENSOR")
  /\ MeetsBridge
  /\ mail' = mail \ {m}
  /\ lost' = lost \cup Reported(m.buf)
  /\ UNCHANGED <<treeVars, made, table, udp, clock, now>>

\* The digest of a frame it takes or drains at the same time goes well.
RefuseTime(d) ==
  /\ d \in down
  /\ (\E m \in mail : m.to = Root) \/ (\E n \in Nodes : table[Root][n] # {})
  /\ down' = down \ {d}
  /\ UNCHANGED <<treeVars, dataVars, mail, udp, clock, now>>
-----------------------------------------------------------------------------
(* A board changes its parent: never to one below it.                      *)

Above(b) ==
  LET up[k \in 0 .. Cardinality(Nodes)] ==
        IF k = 0 THEN {b}
        ELSE up[k - 1] \cup {parent[n] : n \in up[k - 1] \ {Root}}
  IN  up[Cardinality(Nodes)]

\* The old parent drops the station and the readings of one module at most;
\* the ADV is sent again if the service task was started again.
Move(b, p) ==
  /\ moves < MaxMoves
  /\ b # Root /\ p # parent[b]
  /\ b \notin Above(p)
  /\ moves' = moves + 1
  /\ parent' = [parent EXCEPT ![b] = p]
  /\ ids' = [ids EXCEPT ![parent[b]] = @ \ {b}]
  /\ adv' \in {adv, adv \cup {b}}
  /\ \/ \E n \in Nodes :
          /\ table' = [table EXCEPT ![parent[b]][n] = {}]
          /\ lost' = lost \cup table[parent[b]][n]
     \/ UNCHANGED <<table, lost>>
  /\ UNCHANGED <<made, mail, udp, timeVars>>
-----------------------------------------------------------------------------
Next ==
  \/ \E b \in Nodes : MakeReading(b) \/ SendAdv(b) \/ Service(b)
  \/ SendTime
  \/ \E d \in down : BridgeTime(d) \/ RefuseTime(d)
  \/ \E m \in mail : RefuseSensor(m)
  \/ \E b, p \in Nodes : Move(b, p)

Spec == Init /\ [][Next]_vars

\* While a service task of some board has something to do, one does it;
\* nothing is assumed of the rest.
FairSpec == Spec /\ WF_vars(\E b \in Nodes : Service(b))
-----------------------------------------------------------------------------
(* Properties                                                              *)

Made == {r \in Readings : r[2] <= made[r[1]]}

\* The places a reading can be in, and the readings each one holds.
Places ==
  {<<"table", b, n>> : b \in Nodes, n \in Nodes} \cup {<<"mail", m>> : m \in mail}
  \cup {<<"udp", d>> : d \in udp} \cup {<<"lost">>}

At(p) ==
  CASE p[1] = "table" -> table[p[2]][p[3]]
    [] p[1] = "mail"  -> Reported(p[2].buf)
    [] p[1] = "udp"   -> Reported(p[2].buf)
    [] p[1] = "lost"  -> lost

\* "aggrego se figlio diretto", otherwise it is passed on (mesh_main.c:280-304):
\* however boards aggregate, pass on, move and fail to send, a reading is in one
\* place only, and so leaves the mesh at most once, and none just vanishes.
EveryReadingOnce ==
  \A r \in Readings :
    Cardinality({p \in Places : r \in At(p)}) = IF r \in Made THEN 1 ELSE 0

\* mesh_main.c:266 "copio direttamente nel buffer di trasmissione perche' c'e'
\* sideeffect dopo": whatever hops it has made, a frame on its way to a board is
\* accepted there and says what it was built from.  What the root sends to the
\* server, made by itself or passed on, has the right bytes under a digest that
\* may be spoiled.
FramesAsBuilt ==
  /\ \A m \in mail \cup down : valid(m.buf) /\ Frame(m) = m.of
  /\ \A m \in udp : Converted(m.buf.frame) = m.of

\* ms_aggregate.c:54 and mesh_main.c:284: whatever tables and frames a reading
\* has been through, with whatever other readings, and whoever its sender was
\* taken for, the bytes that report it name the board that made it.
ReadingsKeepTheirModule ==
  /\ \A b, n \in Nodes : \A r \in table[b][n] : r[1] = n
  /\ \A m \in mail \cup udp : \A r \in Reported(m.buf) :
       Converted(m.buf.frame).module_id = module_id[r[1]]

\* A clock is where it was at boot or shows a time the server once had: frames
\* out of order may set it back, never to anything else.
ClocksFollowServer ==
  \A b \in Nodes : \E t \in 0 .. now : clock[b] = timeval(t)
-----------------------------------------------------------------------------
(* What the mesh implements.                                               *)

Held(b) == UNION {table[b][n] : n \in Nodes}

ReportedBy(frames) == UNION {Reported(m.buf) : m \in frames}

Inside == (UNION {Held(b) : b \in Nodes}) \cup ReportedBy(mail)

Out == ReportedBy(udp)

Server == INSTANCE Delivery WITH inside <- Inside, out <- Out

\* Tables, hops, aggregation and moves together (mesh_main.c:242-375) give each
\* reading to the server at most once and for good, give it up for good, or
\* still hold it: nothing is taken back, invented or mixed with another board's.
ImplementsDelivery == Server!Spec

\* Every reading gets out of the mesh, or is given up where the code gives it
\* up: none goes round or stays for ever.  (The bound on readings is what lets
\* this be said of all of them at once.)
ReadingsGetOut ==
  <>[](Made \subseteq lost \cup Out)
=============================================================================
