--------------------------- MODULE Delivery_proofs ---------------------------
(***************************************************************************)
(* The mesh keeps the promise of Delivery: in any tree, with any number of *)
(* boards and readings, however boards aggregate, pass on, move and fail   *)
(* to send.                                                                *)
(*                                                                         *)
(* Once says that every reading is in one place.  So the readings inside   *)
(* the mesh are those made and neither handed over nor given up, and a     *)
(* step of the mesh is known to Delivery by what it does to these three.   *)
(***************************************************************************)
EXTENDS MeshNet_proofs
-----------------------------------------------------------------------------
(* Under whose name a reading travels.                                     *)

\* A frame names the maker of every reading it reports.
Names(m) ==
  \A r \in Reported(m.buf) : Converted(m.buf.frame).module_id = module_id[r[1]]

\* A reading that stays keeps its name.
LEMMA NamesKept ==
  ASSUME ReadingsKeepTheirModule,
         \A b, n \in Nodes : \A r \in table'[b][n] : r \in table[b][n] \/ r[1] = n,
         \A m \in mail' \cup udp' : m \in mail \cup udp \/ Names(m)
  PROVE  ReadingsKeepTheirModule'
<1>1. \A b, n \in Nodes : \A r \in table'[b][n] : r[1] = n
  BY DEF ReadingsKeepTheirModule
<1>2. \A m \in mail' \cup udp' : Names(m)
  BY DEF ReadingsKeepTheirModule, Names
<1> QED
  BY <1>1, <1>2 DEF ReadingsKeepTheirModule, Names

\* One entry of one board's table grows.
LEMMA EntryGrows ==
  ASSUME TypeOK, NEW b \in Nodes, NEW n \in Nodes, NEW S,
         table' = [table EXCEPT ![b][n] = @ \cup S]
  PROVE  \A c, k \in Nodes : \A r :
           r \in table'[c][k] <=> r \in table[c][k] \/ (c = b /\ k = n /\ r \in S)
<1>1. table \in [Nodes -> [Nodes -> SUBSET Readings]]
  BY DEF TypeOK
<1>2. \A c, k \in Nodes : table'[c][k] = IF c = b /\ k = n
                                         THEN table[c][k] \cup S ELSE table[c][k]
  BY <1>1
<1> QED
  BY <1>2

\* Readings are pushed under the module that made them.
LEMMA PushNames ==
  ASSUME TypeOK, NEW b \in Nodes, NEW n \in Nodes, NEW S, push_sensors(b, n, S),
         \A r \in S : r[1] = n
  PROVE  \A c, k \in Nodes : \A r \in table'[c][k] : r \in table[c][k] \/ r[1] = k
<1>1. ASSUME table' = [table EXCEPT ![b][n] = @ \cup S]
      PROVE  \A c, k \in Nodes : \A r \in table'[c][k] : r \in table[c][k] \/ r[1] = k
  <2>1. \A c, k \in Nodes : \A r :
          r \in table'[c][k] <=> r \in table[c][k] \/ (c = b /\ k = n /\ r \in S)
    BY <1>1, EntryGrows, Zenon
  <2> QED
    BY <2>1, Zenon
<1>2. CASE UNCHANGED table
  BY <1>2
<1> QED
  BY <1>1, <1>2 DEF push_sensors

\* The module that a board reads in a frame is the maker of its readings.
LEMMA FrameNamesMaker ==
  ASSUME NEW m, Good(m), Names(m), NEW r \in Reported(m.buf)
  PROVE  r[1] \in Nodes /\ ModuleOf(Frame(m).module_id) = r[1]
<1>1. r \in Readings
  BY GoodReports
<1>2. r[1] \in Nodes
  BY <1>1 DEF Readings
<1>3. ModuleOf(module_id[r[1]]) = r[1]
  BY <1>2, MeshNetAssumption DEF ModuleOf
<1>4. Frame(m) = m.of /\ Converted(m.buf.frame) = m.of
  BY GoodReports, BytesReport DEF Good
<1> QED
  BY <1>2, <1>3, <1>4 DEF Names

\* What Drain builds names the module of the entry.
LEMMA DrainedIsNamed ==
  ASSUME TypeOK, ReadingsKeepTheirModule, NEW b \in Nodes, NEW n \in Nodes, NEW m,
         m.buf = createSensorFrame(module_id[n], table[b][n], Stamp),
         m.of = Converted(m.buf.frame)
  PROVE  Names(m)
<1>1. table[b][n] \in Aggregates
  BY MeshNetAssumption DEF TypeOK
<1>2. m.of.module_id = module_id[n]
  BY <1>1, SensorFrameBuilt
<1>3. Good(m) /\ Reported(m.buf) = table[b][n]
  BY DrainedIsGood
<1>4. Converted(m.buf.frame) = m.of
  BY <1>3, BytesReport DEF Good
<1> QED
  BY <1>2, <1>3, <1>4 DEF Names, ReadingsKeepTheirModule

\* The name is in the bytes.
LEMMA SameBytes ==
  ASSUME NEW m, Names(m), NEW y, y.buf.frame = m.buf.frame
  PROVE  Names(y) /\ Reported(y.buf) = Reported(m.buf)
BY DEF Names, Reported

\* Readings that are reported under one name have one maker.
LEMMA NamedIsOfOneMaker ==
  ASSUME NEW m, Good(m), Names(m)
  PROVE  Server!OfOneMaker(Reported(m.buf))
BY FrameNamesMaker DEF Server!OfOneMaker
-----------------------------------------------------------------------------
(* What a step does to the readings.                                       *)

\* One is made, and perhaps given up at once; or some of one maker, or none,
\* that were inside are handed over or given up.
Effect ==
  \/ \E r \in Readings :
       /\ r \notin Made /\ Made' = Made \cup {r}
       /\ Out' = Out
       /\ lost' = lost \/ lost' = lost \cup {r}
  \/ \E S \in SUBSET Inside :
       /\ Server!OfOneMaker(S)
       /\ Made' = Made
       /\ \/ Out' = Out \cup S /\ lost' = lost
          \/ Out' = Out /\ lost' = lost \cup S

\* Nothing is handed over, given up or made.
LEMMA NoEffect ==
  ASSUME UNCHANGED <<made, udp, lost>>
  PROVE  Effect
<1>1. Made' = Made /\ Out' = Out \cup {} /\ lost' = lost
  BY DEF Made, Out, ReportedBy
<1>2. {} \in SUBSET Inside /\ Server!OfOneMaker({})
  BY DEF Server!OfOneMaker
<1> QED
  BY <1>1, <1>2 DEF Effect

\* A reading is inside if a table or a frame holds it, and out if a datagram does.
LEMMA InsideAndOut ==
  /\ \A r : r \in Inside <=> \/ \E b, n \in Nodes : r \in table[b][n]
                             \/ \E m \in mail : r \in Reported(m.buf)
  /\ \A r : r \in Out <=> \E d \in udp : r \in Reported(d.buf)
  /\ \A r : r \in Out' <=> \E d \in udp' : r \in Reported(d.buf)
<1>1. \A r, b : r \in Held(b) <=> \E n \in Nodes : r \in table[b][n]
  BY DEF Held
<1>2. \A r, frames : r \in ReportedBy(frames) <=> \E m \in frames : r \in Reported(m.buf)
  BY DEF ReportedBy
<1>3. \A r : r \in Inside <=> (\E b \in Nodes : r \in Held(b)) \/ r \in ReportedBy(mail)
  BY DEF Inside
<1>4. \A r : (r \in Out <=> r \in ReportedBy(udp)) /\ (r \in Out' <=> r \in ReportedBy(udp'))
  BY DEF Out, ReportedBy
<1> QED
  BY <1>1, <1>2, <1>3, <1>4

\* Readings of one maker that were inside and are given up.
LEMMA GivenUpEffect ==
  ASSUME NEW S \in SUBSET Inside, Server!OfOneMaker(S),
         UNCHANGED <<made, udp>>, lost' = lost \/ lost' = lost \cup S
  PROVE  Effect
<1>1. Made' = Made /\ Out' = Out
  BY DEF Made, Out, ReportedBy
<1>2. CASE lost' = lost
  BY <1>2, NoEffect
<1>3. CASE lost' = lost \cup S
  BY <1>1, <1>3 DEF Effect
<1> QED
  BY <1>2, <1>3

\* Readings of one maker that were inside and are sent to the server, if they
\* can be.
LEMMA PostedUDPEffect ==
  ASSUME NEW buf, NEW of, PostUDP(buf, of), UNCHANGED made,
         Reported(buf) \subseteq Inside, Server!OfOneMaker(Reported(buf))
  PROVE  Effect
<1>1. CASE UNCHANGED udp /\ lost' = lost \cup Reported(buf)
  BY <1>1, GivenUpEffect
<1>2. CASE udp' = udp \cup {[buf |-> buf, of |-> of]} /\ UNCHANGED lost
  <2>0. PICK d : d = [buf |-> buf, of |-> of] /\ d.buf = buf
    <3>1. [buf |-> buf, of |-> of].buf = buf
      OBVIOUS
    <3> QED
      BY <3>1, Zenon
  <2>1. \A r : r \in Out' <=> r \in Out \/ r \in Reported(buf)
    <3>1. \A y : y \in udp' <=> y \in udp \/ y = d
      BY <1>2, <2>0
    <3> QED
      BY <2>0, <3>1, InsideAndOut
  <2>2. Out' = Out \cup Reported(buf) /\ Made' = Made
    BY <2>1 DEF Made
  <2> QED
    BY <1>2, <2>2 DEF Effect
<1> QED
  BY <1>1, <1>2 DEF PostUDP
-----------------------------------------------------------------------------
(* One step per action: the names and the effect.                          *)

Kept == ReadingsKeepTheirModule' /\ Effect

\* The actions of a board.
LEMMA BoardKept ==
  ASSUME IInv, ReadingsKeepTheirModule, NEW b \in Nodes,
         MakeReading(b) \/ SendAdv(b) \/ Drain(b)
  PROVE  Kept
<1>0. TypeOK
  BY DEF IInv
<1>1. CASE MakeReading(b)
  <2> DEFINE r == <<b, made[b] + 1>>
  <2>1. /\ push_sensors(b, b, {r}) /\ UNCHANGED <<mail, udp>>
        /\ made[b] < MaxReadings[b] /\ made' = [made EXCEPT ![b] = @ + 1]
    BY <1>1 DEF MakeReading
  <2>2. r[1] = b
    OBVIOUS
  <2>3. Made' = Made \cup {r} /\ r \notin Made
    BY <1>0, <2>1, OneMore
  <2> HIDE DEF r
  <2>4. \A c, k \in Nodes : \A x \in table'[c][k] : x \in table[c][k] \/ x[1] = k
    BY <1>0, <2>1, <2>2, PushNames
  <2>5. ReadingsKeepTheirModule'
    BY <2>1, <2>4, NamesKept
  <2>6. Out' = Out
    BY <2>1 DEF Out, ReportedBy
  <2>7. r \in Readings /\ (lost' = lost \/ lost' = lost \cup {r})
    BY <2>1, <2>3 DEF push_sensors, Made
  <2> QED
    BY <2>3, <2>5, <2>6, <2>7 DEF Kept, Effect
<1>2. CASE SendAdv(b)
  <2> DEFINE buf == createAdvFrame(module_id[b], b, Stamp)
             M   == Mesh(parent[b], b, buf, Converted(buf.frame))
  <2>1. mail' = mail \cup {M} /\ UNCHANGED <<made, table, udp, lost>>
    BY <1>2 DEF SendAdv, dataVars
  <2>2. M.buf = buf
    BY DEF Mesh
  <2>3. buf.frame.frame_type = "ADV"
    BY DEF createAdvFrame, htonFrameHMAC, Converted
  <2>4. Names(M)
    BY <2>2, <2>3 DEF Reported, Names
  <2> HIDE DEF M
  <2>5. ReadingsKeepTheirModule'
    BY <2>1, <2>4, NamesKept
  <2> QED
    BY <2>1, <2>5, NoEffect DEF Kept
<1>3. CASE Drain(b)
  <2>1. PICK n \in Nodes : \E M :
          /\ M.buf = createSensorFrame(module_id[n], table[b][n], Stamp)
          /\ M.of = Converted(M.buf.frame)
          /\ table' = [table EXCEPT ![b][n] = {}]
          /\ UNCHANGED <<treeVars, made, clock, now>> /\ down' \subseteq down
          /\ \/ /\ M.to \in Nodes /\ M.from \in Nodes
                /\ Post(M, mail) /\ UNCHANGED udp
             \/ \E buf : buf.frame = M.buf.frame /\ PostUDP(buf, M.of) /\ UNCHANGED mail
    BY <1>0, <1>3, DrainSends
  <2>2. PICK M :
          /\ M.buf = createSensorFrame(module_id[n], table[b][n], Stamp)
          /\ M.of = Converted(M.buf.frame)
          /\ table' = [table EXCEPT ![b][n] = {}]
          /\ UNCHANGED <<treeVars, made, clock, now>> /\ down' \subseteq down
          /\ \/ /\ M.to \in Nodes /\ M.from \in Nodes
                /\ Post(M, mail) /\ UNCHANGED udp
             \/ \E buf : buf.frame = M.buf.frame /\ PostUDP(buf, M.of) /\ UNCHANGED mail
    BY <2>1
  <2>3. Good(M) /\ Reported(M.buf) = table[b][n] /\ Names(M)
    BY <1>0, <2>2, DrainedIsGood, DrainedIsNamed
  <2>4. \A c, k \in Nodes : \A r \in table'[c][k] : r \in table[c][k] \/ r[1] = k
    <3>1. table \in [Nodes -> [Nodes -> SUBSET Readings]]
      BY <1>0 DEF TypeOK
    <3>2. \A c, k \in Nodes : table'[c][k] = IF c = b /\ k = n THEN {} ELSE table[c][k]
      BY <2>2, <3>1
    <3> QED
      BY <3>2
  <2>5. Reported(M.buf) \subseteq Inside /\ Server!OfOneMaker(Reported(M.buf)) /\ UNCHANGED made
    BY <2>2, <2>3, InsideAndOut, NamedIsOfOneMaker
  <2>6. CASE Post(M, mail) /\ UNCHANGED udp
    <3>1. \A y \in mail' \cup udp' : y \in mail \cup udp \/ y = M
      BY <2>6 DEF Post
    <3>2. ReadingsKeepTheirModule'
      BY <2>3, <2>4, <3>1, NamesKept
    <3> QED
      BY <2>5, <2>6, <3>2, GivenUpEffect DEF Post, Kept
  <2>7. ASSUME NEW buf, buf.frame = M.buf.frame, PostUDP(buf, M.of), UNCHANGED mail PROVE Kept
    <3>1. Reported(buf) = Reported(M.buf)
      BY <2>7 DEF Reported
    <3>2. \A y \in mail' \cup udp' : y \in mail \cup udp \/ y.buf.frame = M.buf.frame
      BY <2>7 DEF PostUDP
    <3>3. \A y \in mail' \cup udp' : y \in mail \cup udp \/ Names(y)
      BY <2>3, <3>2, SameBytes
    <3>4. ReadingsKeepTheirModule'
      BY <2>4, <3>3, NamesKept
    <3> QED
      BY <2>5, <2>7, <3>1, <3>4, PostedUDPEffect DEF Kept
  <2> QED
    BY <2>2, <2>6, <2>7
<1> QED
  BY <1>1, <1>2, <1>3

\* What the service task takes from the mesh.
LEMMA ReceiveKept ==
  ASSUME IInv, ReadingsKeepTheirModule, NEW b \in Nodes, NEW m \in mail,
         \/ AggregateSensor(b, m) \/ ForwardSensor(b, m)
         \/ ReceiveAdv(b, m) \/ ReceiveTime(b, m)
  PROVE  Kept
<1>0. TypeOK /\ Good(m) /\ Names(m)
  BY DEF IInv, GoodTraffic, ReadingsKeepTheirModule, Names
<1>1. /\ Frame(m) = m.of /\ m.buf.frame.frame_type = m.of.frame_type
      /\ Reported(m.buf) = IF m.of.frame_type = "SENSOR" THEN m.of.data.sensor_data ELSE {}
      /\ m.of.frame_type = "SENSOR" => ModuleOf(m.of.module_id) \in Nodes
  BY <1>0, GoodReports
<1>2. Reported(m.buf) \subseteq Inside /\ Server!OfOneMaker(Reported(m.buf))
  BY <1>0, InsideAndOut, NamedIsOfOneMaker
<1>3. CASE AggregateSensor(b, m)
  <2> DEFINE n == ModuleOf(m.of.module_id)
  <2>1. /\ n \in Nodes /\ push_sensors(b, n, Reported(m.buf)) /\ UNCHANGED <<made, udp>>
        /\ mail' \subseteq mail
    BY <1>1, <1>3 DEF AggregateSensor, Takes
  <2>2. \A r \in Reported(m.buf) : r[1] = n
    BY <1>0, <1>1, FrameNamesMaker
  <2> HIDE DEF n
  <2>3. \A c, k \in Nodes : \A r \in table'[c][k] : r \in table[c][k] \/ r[1] = k
    BY <1>0, <2>1, <2>2, PushNames
  <2>4. ReadingsKeepTheirModule'
    BY <2>1, <2>3, NamesKept
  <2>5. lost' = lost \/ lost' = lost \cup Reported(m.buf)
    BY <2>1 DEF push_sensors
  <2> QED
    BY <1>2, <2>1, <2>4, <2>5, GivenUpEffect DEF Kept
<1>4. CASE ForwardSensor(b, m)
  <2>1. /\ UNCHANGED <<made, table>>
        /\ \/ b # Root /\ Post(Mesh(Root, b, m.buf, m.of), mail \ {m}) /\ UNCHANGED udp
           \/ b = Root /\ PostUDP(m.buf, m.of) /\ mail' = mail \ {m}
    BY <1>4 DEF ForwardSensor
  <2>2. PICK M : M = Mesh(Root, b, m.buf, m.of) /\ M.buf = m.buf
    <3>1. Mesh(Root, b, m.buf, m.of).buf = m.buf
      BY DEF Mesh
    <3> QED
      BY <3>1, Zenon
  <2>3. PICK D : D = [buf |-> m.buf, of |-> m.of] /\ D.buf = m.buf
    <3>1. [buf |-> m.buf, of |-> m.of].buf = m.buf
      OBVIOUS
    <3> QED
      BY <3>1, Zenon
  <2>4. Names(M) /\ Names(D)
    BY <1>0, <2>2, <2>3 DEF Names
  <2>5. \A y \in mail' \cup udp' : y \in mail \cup udp \/ y = M \/ y = D
    BY <2>1, <2>2, <2>3 DEF Post, PostUDP
  <2>6. ReadingsKeepTheirModule'
    BY <2>1, <2>4, <2>5, NamesKept
  <2>7. Effect
    <3>1. CASE Post(M, mail \ {m}) /\ UNCHANGED udp
      BY <1>2, <2>1, <2>2, <3>1, GivenUpEffect DEF Post
    <3>2. CASE PostUDP(m.buf, m.of)
      BY <1>2, <2>1, <3>2, PostedUDPEffect
    <3> QED
      BY <2>1, <2>2, <3>1, <3>2
  <2> QED
    BY <2>6, <2>7 DEF Kept
<1>5. CASE ReceiveAdv(b, m) \/ ReceiveTime(b, m)
  <2>1. mail' = mail \ {m} /\ UNCHANGED <<made, table, udp, lost>>
    BY <1>5 DEF ReceiveAdv, ReceiveTime, dataVars
  <2>2. ReadingsKeepTheirModule'
    BY <2>1, NamesKept
  <2> QED
    BY <2>1, <2>2, NoEffect DEF Kept
<1> QED
  BY <1>3, <1>4, <1>5

\* Time, frames that are refused, and moves.
LEMMA OthersKept ==
  ASSUME IInv, ReadingsKeepTheirModule,
         \/ SendTime
         \/ \E d \in down : BridgeTime(d) \/ RefuseTime(d)
         \/ \E m \in mail : RefuseSensor(m)
         \/ \E b, p \in Nodes : Move(b, p)
  PROVE  Kept
<1>1. CASE SendTime \/ \E d \in down : RefuseTime(d)
  <2>1. UNCHANGED <<made, table, udp, lost, mail>>
    BY <1>1 DEF SendTime, RefuseTime, dataVars
  <2>2. ReadingsKeepTheirModule'
    BY <2>1, NamesKept
  <2> QED
    BY <2>1, <2>2, NoEffect DEF Kept
<1>2. ASSUME NEW d \in down, BridgeTime(d) PROVE Kept
  <2>1. UNCHANGED <<made, table, udp, lost>> /\ d.buf.frame.frame_type = "TIME"
    BY <1>2 DEF BridgeTime, dataVars
  <2>2. PICK reached \in SUBSET Others :
          mail' = mail \cup {Mesh(n, Root, d.buf, d.of) : n \in reached}
    BY <1>2 DEF BridgeTime
  <2>3. \A m \in mail' : m \in mail \/ Names(m)
    BY <2>1, <2>2 DEF Mesh, Reported, Names
  <2>4. ReadingsKeepTheirModule'
    BY <2>1, <2>3, NamesKept
  <2> QED
    BY <2>1, <2>4, NoEffect DEF Kept
<1>3. ASSUME NEW m \in mail, RefuseSensor(m) PROVE Kept
  <2>1. /\ mail' = mail \ {m} /\ lost' = lost \cup Reported(m.buf)
        /\ UNCHANGED <<made, table, udp>>
    BY <1>3 DEF RefuseSensor
  <2>2. ReadingsKeepTheirModule'
    BY <2>1, NamesKept
  <2>3. Good(m) /\ Names(m)
    BY DEF IInv, GoodTraffic, ReadingsKeepTheirModule, Names
  <2>4. Reported(m.buf) \subseteq Inside /\ Server!OfOneMaker(Reported(m.buf))
    BY <2>3, InsideAndOut, NamedIsOfOneMaker
  <2> QED
    BY <2>1, <2>2, <2>4, GivenUpEffect DEF Kept
<1>4. ASSUME NEW b \in Nodes, NEW p \in Nodes, Move(b, p) PROVE Kept
  <2>1. UNCHANGED <<made, mail, udp>>
    BY <1>4 DEF Move
  <2>2. CASE UNCHANGED <<table, lost>>
    <3>1. ReadingsKeepTheirModule'
      BY <2>1, <2>2, NamesKept
    <3> QED
      BY <2>1, <2>2, <3>1, NoEffect DEF Kept
  <2>3. ASSUME NEW n \in Nodes,
               table' = [table EXCEPT ![parent[b]][n] = {}],
               lost' = lost \cup table[parent[b]][n]
        PROVE  Kept
    <3>1. PICK c \in Nodes : c = parent[b]
      BY <1>4 DEF Move, IInv, TypeOK, Others
    <3>2. \A x, k \in Nodes : table'[x][k] = IF x = c /\ k = n THEN {} ELSE table[x][k]
      <4>1. table \in [Nodes -> [Nodes -> SUBSET Readings]]
        BY DEF IInv, TypeOK
      <4> QED
        BY <2>3, <3>1, <4>1
    <3>3. ReadingsKeepTheirModule'
      <4>1. \A x, k \in Nodes : \A r \in table'[x][k] : r \in table[x][k] \/ r[1] = k
        BY <3>2
      <4> QED
        BY <2>1, <4>1, NamesKept
    <3>4. table[c][n] \subseteq Inside /\ Server!OfOneMaker(table[c][n])
      BY InsideAndOut DEF ReadingsKeepTheirModule, Server!OfOneMaker
    <3> QED
      BY <2>1, <2>3, <3>1, <3>3, <3>4, GivenUpEffect DEF Kept
  <2> QED
    BY <1>4, <2>2, <2>3 DEF Move
<1> QED
  BY <1>1, <1>2, <1>3, <1>4

\* Every step.
LEMMA StepKept ==
  ASSUME IInv, ReadingsKeepTheirModule, [Next]_vars
  PROVE  Kept
<1>1. CASE Next
  BY <1>1, BoardKept, ReceiveKept, OthersKept DEF Next, Service
<1>2. CASE UNCHANGED vars
  <2>1. UNCHANGED <<made, table, udp, lost, mail>>
    BY <1>2 DEF vars, dataVars
  <2>2. ReadingsKeepTheirModule'
    BY <2>1, NamesKept
  <2> QED
    BY <2>1, <2>2, NoEffect DEF Kept
<1> QED
  BY <1>1, <1>2
-----------------------------------------------------------------------------
(* Names, in every run.                                                    *)

\* In any mesh, through any tables and frames and whoever the sender was taken
\* for, a reading is held and reported under the module that made it
\* (ms_aggregate.c:54, mesh_main.c:284).
THEOREM ReadingsAreNamed == Spec => []ReadingsKeepTheirModule
<1>1. Init => ReadingsKeepTheirModule
  BY DEF Init, ReadingsKeepTheirModule
<1>2. IInv /\ ReadingsKeepTheirModule /\ [Next]_vars => ReadingsKeepTheirModule'
  BY StepKept DEF Kept
<1> QED
  BY <1>1, <1>2, Invariance, PTL DEF Spec
-----------------------------------------------------------------------------
(* The refinement.                                                         *)

\* What Once says of inside, out and lost.
Accounted ==
  /\ Inside = Made \ (Out \cup lost)
  /\ Out \cup lost \subseteq Made
  /\ Out \cap lost = {}

LEMMA OnceAccounted ==
  ASSUME Once
  PROVE  Accounted
<1>1. /\ \A b, n \in Nodes : <<"table", b, n>> \in Places
      /\ \A m \in mail : <<"mail", m>> \in Places
      /\ \A d \in udp : <<"udp", d>> \in Places
      /\ <<"lost">> \in Places
  BY DEF Places
<1>0. /\ \A b, n : <<"table", b, n>> # <<"lost">>
      /\ \A m : <<"mail", m>> # <<"lost">>
      /\ \A d : <<"udp", d>> # <<"lost">>
  OBVIOUS
<1>2. Inside \cup Out \cup lost \subseteq Made
  <2>1. \A x \in Places : At(x) \subseteq Made
    BY DEF Once
  <2>2. \A b, n \in Nodes : table[b][n] \subseteq Made
    BY <1>1, <2>1, Contents
  <2>3. \A m \in mail : Reported(m.buf) \subseteq Made
    BY <1>1, <2>1, Contents
  <2>4. \A d \in udp : Reported(d.buf) \subseteq Made
    BY <1>1, <2>1, Contents
  <2>5. lost \subseteq Made
    BY <1>1, <2>1, Contents
  <2> QED
    BY <2>2, <2>3, <2>4, <2>5, InsideAndOut
<1>3. ASSUME NEW r \in Made PROVE r \in Inside \cup Out \cup lost
  <2>1. PICK x \in Places : r \in At(x)
    BY DEF Once
  <2> QED
    BY <2>1, Contents, InsideAndOut DEF Places
<1>4. ASSUME NEW r, r \in lost PROVE r \notin Inside /\ r \notin Out
  <2>1. \A x \in Places : x # <<"lost">> => r \notin At(x)
    BY <1>1, <1>4, Contents DEF Once
  <2>2. \A b, n \in Nodes : r \notin table[b][n]
    BY <1>0, <1>1, <2>1, Contents
  <2>3. \A m \in mail : r \notin Reported(m.buf)
    BY <1>0, <1>1, <2>1, Contents
  <2>4. \A d \in udp : r \notin Reported(d.buf)
    BY <1>0, <1>1, <2>1, Contents
  <2> QED
    BY <2>2, <2>3, <2>4, InsideAndOut
<1>5. ASSUME NEW r, r \in Out PROVE r \notin Inside
  <2>1. PICK d \in udp : r \in At(<<"udp", d>>)
    BY <1>5, Contents, InsideAndOut
  <2>2. \A x \in Places : x # <<"udp", d>> => r \notin At(x)
    BY <1>1, <2>1 DEF Once
  <2>3. \A b, n \in Nodes : r \notin table[b][n]
    BY <1>1, <2>2, Contents
  <2>4. \A m \in mail : r \notin Reported(m.buf)
    BY <1>1, <2>2, Contents
  <2> QED
    BY <2>3, <2>4, InsideAndOut
<1> QED
  BY <1>2, <1>3, <1>4, <1>5 DEF Accounted

\* A step that has one of the effects is a step of Delivery, or none.
LEMMA EffectIsServerStep ==
  ASSUME Accounted, Accounted', Effect
  PROVE  [Server!Next]_<<Inside, Out, lost>>
<1>1. ASSUME NEW r \in Readings, r \notin Made, Made' = Made \cup {r}, Out' = Out,
             lost' = lost \/ lost' = lost \cup {r}
      PROVE  Server!Make(r)
  <2>1. r \notin Inside \cup Out \cup lost
    BY <1>1 DEF Accounted
  <2>2. CASE lost' = lost
    <3>1. Inside' = Inside \cup {r}
      BY <1>1, <2>1, <2>2 DEF Accounted
    <3> QED
      BY <1>1, <2>1, <2>2, <3>1 DEF Server!Make
  <2>3. CASE lost' = lost \cup {r}
    <3>1. Inside' = Inside
      BY <1>1, <2>1, <2>3 DEF Accounted
    <3> QED
      BY <1>1, <2>1, <2>3, <3>1 DEF Server!Make
  <2> QED
    BY <1>1, <2>2, <2>3
<1>2. ASSUME NEW S \in SUBSET Inside, Server!OfOneMaker(S), Made' = Made,
             \/ Out' = Out \cup S /\ lost' = lost
             \/ Out' = Out /\ lost' = lost \cup S
      PROVE  Server!HandOver(S) \/ Server!GiveUp(S)
  <2>1. Inside' = Inside \ S
    BY <1>2 DEF Accounted
  <2> QED
    BY <1>2, <2>1 DEF Server!HandOver, Server!GiveUp
<1> QED
  BY <1>1, <1>2 DEF Effect, Server!Next

\* The mesh implements Delivery, for every set of boards, tree, table size and
\* number of readings and moves.
THEOREM MeshImplementsDelivery == Spec => ImplementsDelivery
<1>1. Init => Server!Init
  <2> SUFFICES ASSUME Init PROVE Server!Init
    OBVIOUS
  <2>1. Inside = {} /\ Out = {}
    BY InsideAndOut DEF Init
  <2> QED
    BY <2>1 DEF Init, Server!Init
<1>2. IInv /\ ReadingsKeepTheirModule /\ Accounted /\ Accounted' /\ [Next]_vars
        => [Server!Next]_<<Inside, Out, lost>>
  BY StepKept, EffectIsServerStep DEF Kept
<1>3. Once => Accounted
  BY OnceAccounted
<1> QED
  BY <1>1, <1>2, <1>3, OnceInvariance, ReadingsAreNamed, PTL
     DEF Spec, ImplementsDelivery, Server!Spec
=============================================================================
