---------------------------- MODULE MeshNet_proofs ----------------------------
(***************************************************************************)
(* In any tree, with any readings, moves and failing sends: what is on its *)
(* way was built as it says, clocks show times of the server, and every    *)
(* reading is in one place.                                                *)
(***************************************************************************)
EXTENDS MeshNet, Frames_proofs, FiniteSetTheorems

\* The bytes are those of the frame it was built from; a SENSOR frame names a
\* board, and a TIME frame says a time the server has had.
Says(m) ==
  /\ m.of \in AppFrames
  /\ m.buf.frame = Converted(m.of)
  /\ m.of.frame_type = "SENSOR" => \E n \in Nodes : m.of.module_id = module_id[n]
  /\ m.of.frame_type = "TIME" =>
       \E t \in 0 .. now : m.of.data.timestamp_sec = timeval(t)

\* It has their digest too.
Good(m) == Says(m) /\ m.buf = htonFrameHMAC(m.of)

GoodTraffic ==
  /\ \A m \in mail \cup down : Good(m)
  /\ \A d \in udp : Says(d)

IInv == TypeOK /\ GoodTraffic /\ ClocksFollowServer
-----------------------------------------------------------------------------
(* Frames.                                                                 *)

\* Times and stamps fit their fields.
LEMMA TimesAreNumbers ==
  ASSUME NEW t \in 0 .. MaxTime + 1
  PROVE  timeval(t) \in Number(LONG)
<1>1. MaxTime \in Nat /\ 0 .. MaxTime + 1 \subseteq Bytes
  BY MeshNetAssumption
<1>2. 0 \in Bytes /\ t \in Bytes
  BY <1>1
<1> QED
  BY <1>2, FramesAssumption DEF timeval, Number

\* What the three constructors build says what they were given.
LEMMA SensorFrameBuilt ==
  ASSUME NEW n \in Nodes, NEW a \in Aggregates
  PROVE  LET buf == createSensorFrame(module_id[n], a, Stamp)
             of  == Converted(buf.frame)
         IN  /\ of \in AppFrames /\ buf = htonFrameHMAC(of)
             /\ of.frame_type = "SENSOR" /\ of.module_id = module_id[n]
             /\ of.data.sensor_data = a
<1> DEFINE f == [timestamp |-> Stamp, module_id |-> module_id[n], frame_type |-> "SENSOR",
                 data |-> [sensor_data |-> a]]
<1>1. f \in AppFrames
  BY TimesAreNumbers, MeshNetAssumption DEF AppFrames, Stamp
<1>2. createSensorFrame(module_id[n], a, Stamp) = htonFrameHMAC(f)
  BY DEF createSensorFrame
<1>3. f.frame_type = "SENSOR" /\ f.module_id = module_id[n] /\ f.data.sensor_data = a
  OBVIOUS
<1> HIDE DEF f
<1>4. Converted(htonFrameHMAC(f).frame) = f
  BY <1>1, ConvertedTwice DEF htonFrameHMAC
<1> QED
  BY <1>1, <1>2, <1>3, <1>4

\* The same for an ADV frame.
LEMMA AdvFrameBuilt ==
  ASSUME NEW n \in Nodes
  PROVE  LET buf == createAdvFrame(module_id[n], n, Stamp)
             of  == Converted(buf.frame)
         IN  of \in AppFrames /\ buf = htonFrameHMAC(of) /\ of.frame_type = "ADV"
<1> DEFINE f == [timestamp |-> Stamp, module_id |-> module_id[n], frame_type |-> "ADV",
                 data |-> [mac |-> n]]
<1>1. f \in AppFrames
  BY TimesAreNumbers, MeshNetAssumption DEF AppFrames, Stamp
<1>2. createAdvFrame(module_id[n], n, Stamp) = htonFrameHMAC(f)
  BY DEF createAdvFrame
<1>3. f.frame_type = "ADV"
  OBVIOUS
<1> HIDE DEF f
<1>4. Converted(htonFrameHMAC(f).frame) = f
  BY <1>1, ConvertedTwice DEF htonFrameHMAC
<1> QED
  BY <1>1, <1>2, <1>3, <1>4

\* And for a TIME frame.
LEMMA TimeFrameBuilt ==
  ASSUME NEW t \in 0 .. MaxTime
  PROVE  LET buf == createTimeFrame(module_id[None], timeval(t))
             of  == Converted(buf.frame)
         IN  /\ of \in AppFrames /\ buf = htonFrameHMAC(of)
             /\ of.frame_type = "TIME" /\ of.data.timestamp_sec = timeval(t)
<1> DEFINE f == [timestamp |-> timeval(t), module_id |-> module_id[None], frame_type |-> "TIME",
                 data |-> [timestamp_sec |-> timeval(t), timestamp_usec |-> timeval(t)]]
<1>0. t \in 0 .. MaxTime + 1
  BY MeshNetAssumption
<1>1. f \in AppFrames
  <2>1. timeval(t) \in Number(LONG)
    BY <1>0, TimesAreNumbers
  <2> QED
    BY <2>1, MeshNetAssumption DEF AppFrames
<1>2. createTimeFrame(module_id[None], timeval(t)) = htonFrameHMAC(f)
  BY DEF createTimeFrame
<1>3. f.frame_type = "TIME" /\ f.data.timestamp_sec = timeval(t)
  OBVIOUS
<1> HIDE DEF f
<1>4. Converted(htonFrameHMAC(f).frame) = f
  BY <1>1, ConvertedTwice DEF htonFrameHMAC
<1> QED
  BY <1>1, <1>2, <1>3, <1>4

\* With the right bytes a frame reports the readings it was built from.
LEMMA BytesReport ==
  ASSUME NEW m, Says(m)
  PROVE  /\ Reported(m.buf) = IF m.of.frame_type = "SENSOR" THEN m.of.data.sensor_data ELSE {}
         /\ Reported(m.buf) \subseteq Readings
         /\ m.buf.frame.frame_type = m.of.frame_type
         /\ Converted(m.buf.frame) = m.of
         /\ m.of.frame_type = "SENSOR" =>
              /\ m.of.data.sensor_data \in Aggregates
              /\ ModuleOf(m.of.module_id) \in Nodes
<1>1. m.of \in AppFrames
  BY DEF Says
<1>2. m.buf.frame = Converted(m.of)
  BY DEF Says
<1>3. m.buf.frame.frame_type = m.of.frame_type
  BY <1>2 DEF Converted
<1>4. m.of.frame_type = "SENSOR" => m.buf.frame.data = m.of.data
  BY <1>2 DEF Converted
<1>5. Reported(m.buf) = IF m.of.frame_type = "SENSOR" THEN m.of.data.sensor_data ELSE {}
  BY <1>3, <1>4 DEF Reported
<1>6. m.of.frame_type = "SENSOR" => m.of.data.sensor_data \in Aggregates
  BY <1>1 DEF AppFrames
<1>7. Reported(m.buf) \subseteq Readings
  BY <1>5, <1>6, MeshNetAssumption
<1>8. Converted(m.buf.frame) = m.of
  BY <1>1, <1>2, ConvertedTwice
<1>9. ASSUME NEW n \in Nodes PROVE ModuleOf(module_id[n]) = n
  BY MeshNetAssumption DEF ModuleOf
<1> QED
  BY <1>3, <1>5, <1>6, <1>7, <1>8, <1>9 DEF Says

\* With the digest too it is accepted, and reads as it was built.
LEMMA GoodIsAccepted ==
  ASSUME NEW m, Good(m)
  PROVE  valid(m.buf) /\ Frame(m) = m.of
BY BuiltFrameIsRead DEF Good, Says, Frame

LEMMA GoodReports ==
  ASSUME NEW m, Good(m)
  PROVE  /\ Reported(m.buf) = IF m.of.frame_type = "SENSOR" THEN m.of.data.sensor_data ELSE {}
         /\ Reported(m.buf) \subseteq Readings
         /\ m.buf.frame.frame_type = m.of.frame_type
         /\ valid(m.buf)
         /\ Frame(m) = m.of
         /\ m.of.frame_type = "SENSOR" =>
              /\ m.of.data.sensor_data \in Aggregates
              /\ ModuleOf(m.of.module_id) \in Nodes
BY BytesReport, GoodIsAccepted DEF Good

\* What is built good.
LEMMA BuiltIsGood ==
  ASSUME NEW m, m.of \in AppFrames, m.buf = htonFrameHMAC(m.of),
         m.of.frame_type = "SENSOR" => \E n \in Nodes : m.of.module_id = module_id[n],
         m.of.frame_type = "TIME" =>
           \E t \in 0 .. now : m.of.data.timestamp_sec = timeval(t)
  PROVE  Good(m)
BY DEF Good, Says, htonFrameHMAC
-----------------------------------------------------------------------------
(* Traffic and clocks.                                                     *)

\* What was good stays good, as the server's clock only goes on.
LEMMA GoodTrafficKept ==
  ASSUME GoodTraffic, now \in Nat, now' \in Nat, now <= now',
         \A m \in mail' \cup down' : m \in mail \cup down \/ Good(m) \/ Good(m)',
         \A d \in udp' : d \in udp \/ Says(d)
  PROVE  GoodTraffic'
<1>1. 0 .. now \subseteq 0 .. now'
  OBVIOUS
<1>2. ASSUME NEW m, Says(m) PROVE Says(m)'
  BY <1>1, <1>2 DEF Says
<1>3. ASSUME NEW m \in mail' \cup down' PROVE Good(m)'
  BY <1>2 DEF GoodTraffic, Good
<1>4. ASSUME NEW d \in udp' PROVE Says(d)'
  BY <1>2 DEF GoodTraffic
<1> QED
  BY <1>3, <1>4 DEF GoodTraffic

\* A clock that is not set still shows what it did.
LEMMA ClocksKept ==
  ASSUME ClocksFollowServer, now \in Nat, now' \in Nat, now <= now', UNCHANGED clock
  PROVE  ClocksFollowServer'
<1>1. 0 .. now \subseteq 0 .. now'
  OBVIOUS
<1> QED
  BY <1>1 DEF ClocksFollowServer

\* A clock that is set from a good TIME frame shows a time of the server.
LEMMA ClockSet ==
  ASSUME TypeOK, ClocksFollowServer, UNCHANGED now, NEW b \in Nodes, NEW m, Good(m),
         m.buf.frame.frame_type = "TIME",
         clock' = IF ForMe(b, Frame(m).module_id)
                  THEN [clock EXCEPT ![b] = Frame(m).data.timestamp_sec]
                  ELSE clock
  PROVE  ClocksFollowServer' /\ clock' \in [Nodes -> Number(LONG)]
<1>1. Frame(m) = m.of /\ m.of.frame_type = "TIME"
  BY GoodReports
<1>2. PICK t \in 0 .. now : Frame(m).data.timestamp_sec = timeval(t)
  BY <1>1 DEF Good, Says
<1>3. now \in Nat /\ now <= MaxTime /\ MaxTime \in Nat
  BY MeshNetAssumption DEF TypeOK
<1>4. timeval(t) \in Number(LONG)
  BY <1>3, TimesAreNumbers
<1>5. clock \in [Nodes -> Number(LONG)]
  BY DEF TypeOK
<1> QED
  BY <1>2, <1>4, <1>5 DEF ClocksFollowServer

\* Only known readings are pushed, and the table stays a table.
LEMMA PushTyped ==
  ASSUME TypeOK, NEW b \in Nodes, NEW n, NEW S \in SUBSET Readings, push_sensors(b, n, S)
  PROVE  table' \in [Nodes -> [Nodes -> SUBSET Readings]] /\ lost' \subseteq Readings
<1>1. table \in [Nodes -> [Nodes -> SUBSET Readings]] /\ lost \subseteq Readings
  BY DEF TypeOK
<1> QED
  BY <1>1 DEF push_sensors

\* What Drain builds and posts is a good SENSOR frame with the entry's readings.
LEMMA DrainedIsGood ==
  ASSUME TypeOK, NEW b \in Nodes, NEW n \in Nodes, NEW m,
         m.buf = createSensorFrame(module_id[n], table[b][n], Stamp),
         m.of = Converted(m.buf.frame)
  PROVE  Good(m) /\ Reported(m.buf) = table[b][n]
<1>1. table[b][n] \in Aggregates
  BY MeshNetAssumption DEF TypeOK
<1>2. /\ m.of \in AppFrames /\ m.buf = htonFrameHMAC(m.of)
      /\ m.of.frame_type = "SENSOR" /\ m.of.module_id = module_id[n]
      /\ m.of.data.sensor_data = table[b][n]
  BY <1>1, SensorFrameBuilt
<1>3. m.of.frame_type # "TIME"
  BY <1>2
<1>4. Good(m)
  BY <1>2, <1>3, BuiltIsGood
<1> QED
  BY <1>2, <1>4, GoodReports

\* The buffer is what makes a frame good, not its way.
LEMMA CopyIsGood ==
  ASSUME NEW m, Good(m), NEW y, y.buf = m.buf, y.of = m.of
  PROVE  Good(y)
BY DEF Good, Says

\* A drain takes one entry and builds one frame of it, M.  A board posts it, and
\* the root sends its bytes, whatever becomes of the digest.
LEMMA DrainSends ==
  ASSUME TypeOK, NEW b \in Nodes, Drain(b)
  PROVE  \E n \in Nodes : \E M :
           /\ M.buf = createSensorFrame(module_id[n], table[b][n], Stamp)
           /\ M.of = Converted(M.buf.frame)
           /\ table' = [table EXCEPT ![b][n] = {}]
           /\ UNCHANGED <<treeVars, made, clock, now>> /\ down' \subseteq down
           /\ \/ /\ M.to \in Nodes /\ M.from \in Nodes
                 /\ Post(M, mail) /\ UNCHANGED udp
              \/ \E buf : buf.frame = M.buf.frame /\ PostUDP(buf, M.of) /\ UNCHANGED mail
<1>1. PICK n \in Nodes :
        /\ table' = [table EXCEPT ![b][n] = {}]
        /\ LET buf == createSensorFrame(module_id[n], table[b][n], Stamp)
               of  == Converted(buf.frame)
           IN  \/ b # Root /\ Post(Mesh(parent[b], b, buf, of), mail) /\ UNCHANGED <<udp, down>>
               \/ b = Root /\ PostUDP(buf, of) /\ UNCHANGED <<mail, down>>
               \/ b = Root /\ MeetsBridge /\ PostUDP(spoiled(buf), of) /\ UNCHANGED mail
  BY DEF Drain
<1>2. PICK buf : buf = createSensorFrame(module_id[n], table[b][n], Stamp)
  OBVIOUS
<1>3. PICK M : M = Mesh(parent[b], b, buf, Converted(buf.frame))
  OBVIOUS
<1>4. M.to = parent[b] /\ M.from = b /\ M.buf = buf /\ M.of = Converted(buf.frame)
  BY <1>3 DEF Mesh
<1>5. UNCHANGED <<treeVars, made, clock, now>>
  BY DEF Drain
<1>6. b # Root => parent[b] \in Nodes
  BY DEF TypeOK, Others
<1>7. spoiled(buf).frame = buf.frame
  BY <1>2 DEF spoiled, createSensorFrame, htonFrameHMAC
<1>8. MeetsBridge => down' \subseteq down
  BY DEF MeetsBridge
<1>9. \/ /\ M.to \in Nodes /\ M.from \in Nodes /\ down' \subseteq down
         /\ Post(M, mail) /\ UNCHANGED udp
      \/ /\ down' \subseteq down
         /\ \E x : x.frame = M.buf.frame /\ PostUDP(x, M.of) /\ UNCHANGED mail
  <2>1. CASE b # Root /\ Post(M, mail) /\ UNCHANGED <<udp, down>>
    BY <1>4, <1>6, <2>1
  <2>2. CASE PostUDP(buf, M.of) /\ UNCHANGED <<mail, down>>
    BY <1>4, <2>2
  <2>3. CASE MeetsBridge /\ PostUDP(spoiled(buf), M.of) /\ UNCHANGED mail
    BY <1>4, <1>7, <1>8, <2>3
  <2> QED
    BY <1>1, <1>2, <1>3, <1>4, <2>1, <2>2, <2>3
<1> QED
  BY <1>1, <1>2, <1>4, <1>5, <1>9
-----------------------------------------------------------------------------
(* The initial state, and one step per action.                             *)

\* Nothing is on its way yet and the clocks start at 0.
LEMMA InitIInv ==
  ASSUME Init
  PROVE  IInv
<1> USE MeshNetAssumption
<1>1. timeval(0) \in Number(LONG)
  BY TimesAreNumbers
<1>2. TypeOK
  BY <1>1 DEF Init, TypeOK, Others, Boot
<1>3. ClocksFollowServer
  BY DEF Init, ClocksFollowServer, Boot
<1> QED
  BY <1>2, <1>3 DEF Init, IInv, GoodTraffic

\* Actions of a board that touch neither clocks nor the server's side.
LEMMA BoardKeeps ==
  ASSUME IInv, NEW b \in Nodes,
         MakeReading(b) \/ SendAdv(b) \/ Drain(b)
  PROVE  IInv'
<1> USE DEF IInv
<1>0. now \in Nat /\ UNCHANGED <<now, clock>>
  <2>1. now \in Nat
    BY MeshNetAssumption DEF TypeOK
  <2>2. UNCHANGED <<now, clock>>
    BY DEF MakeReading, SendAdv, Drain, timeVars
  <2> QED
    BY <2>1, <2>2
<1>1. ClocksFollowServer'
  BY <1>0, ClocksKept
<1>2. CASE MakeReading(b)
  <2>1. <<b, made[b] + 1>> \in Readings /\ made' \in [Nodes -> Nat]
    <3>0. made[b] \in Nat /\ MaxReadings[b] \in Nat /\ made[b] < MaxReadings[b]
      BY <1>2, MeshNetAssumption DEF MakeReading, TypeOK
    <3>1. made[b] + 1 \in 1 .. MaxReadings[b]
      BY <3>0
    <3> QED
      BY <1>2, <3>1 DEF MakeReading, TypeOK, Readings
  <2>2. table' \in [Nodes -> [Nodes -> SUBSET Readings]] /\ lost' \subseteq Readings
    BY <1>2, <2>1, PushTyped DEF MakeReading
  <2>3. TypeOK'
    BY <1>2, <2>1, <2>2 DEF MakeReading, TypeOK, treeVars, timeVars
  <2>4. GoodTraffic'
    <3>1. UNCHANGED <<mail, udp, down>>
      BY <1>2 DEF MakeReading, timeVars
    <3> QED
      BY <1>0, <3>1, GoodTrafficKept
  <2> QED
    BY <1>1, <2>3, <2>4
<1>3. CASE SendAdv(b)
  <2> DEFINE buf == createAdvFrame(module_id[b], b, Stamp)
             M   == Mesh(parent[b], b, buf, Converted(buf.frame))
  <2>1. b \in Others /\ parent[b] \in Nodes
    BY <1>3 DEF SendAdv, TypeOK
  <2>2. mail' = mail \cup {M}
    BY <1>3 DEF SendAdv
  <2>3. M.to \in Nodes /\ M.from \in Nodes /\ M.buf = buf /\ M.of = Converted(buf.frame)
    BY <2>1 DEF Mesh
  <2> HIDE DEF M
  <2>4. Good(M)
    <3>1. M.of \in AppFrames /\ M.buf = htonFrameHMAC(M.of) /\ M.of.frame_type = "ADV"
      BY <2>3, AdvFrameBuilt
    <3> QED
      BY <3>1, BuiltIsGood
  <2>5. GoodTraffic'
    <3>1. (\A m \in mail' \cup down' : m \in mail \cup down \/ m = M) /\ udp' = udp
      BY <1>3, <2>2 DEF SendAdv, timeVars
    <3> QED
      BY <1>0, <2>4, <3>1, GoodTrafficKept
  <2>6. TypeOK'
    BY <1>3, <2>2, <2>3 DEF SendAdv, TypeOK, dataVars, timeVars
  <2> QED
    BY <1>1, <2>5, <2>6
<1>4. CASE Drain(b)
  <2>1. PICK n \in Nodes : \E M :
          /\ M.buf = createSensorFrame(module_id[n], table[b][n], Stamp)
          /\ M.of = Converted(M.buf.frame)
          /\ table' = [table EXCEPT ![b][n] = {}]
          /\ UNCHANGED <<treeVars, made, clock, now>> /\ down' \subseteq down
          /\ \/ /\ M.to \in Nodes /\ M.from \in Nodes
                /\ Post(M, mail) /\ UNCHANGED udp
             \/ \E buf : buf.frame = M.buf.frame /\ PostUDP(buf, M.of) /\ UNCHANGED mail
    BY <1>4, DrainSends
  <2>2. PICK M :
          /\ M.buf = createSensorFrame(module_id[n], table[b][n], Stamp)
          /\ M.of = Converted(M.buf.frame)
          /\ table' = [table EXCEPT ![b][n] = {}]
          /\ UNCHANGED <<treeVars, made, clock, now>> /\ down' \subseteq down
          /\ \/ /\ M.to \in Nodes /\ M.from \in Nodes
                /\ Post(M, mail) /\ UNCHANGED udp
             \/ \E buf : buf.frame = M.buf.frame /\ PostUDP(buf, M.of) /\ UNCHANGED mail
    BY <2>1
  <2>3. Good(M) /\ Reported(M.buf) = table[b][n]
    BY <2>2, DrainedIsGood
  <2>4. /\ \A m \in mail' : m \in mail \/ (m = M /\ M.to \in Nodes /\ M.from \in Nodes)
        /\ \A d \in udp' : d \in udp \/ (d.buf.frame = M.buf.frame /\ d.of = M.of)
        /\ lost' = lost \/ lost' = lost \cup table[b][n]
    <3>1. CASE Post(M, mail) /\ UNCHANGED udp /\ M.to \in Nodes /\ M.from \in Nodes
      BY <2>3, <3>1 DEF Post
    <3>2. ASSUME NEW buf, buf.frame = M.buf.frame, PostUDP(buf, M.of), UNCHANGED mail
          PROVE  /\ \A m \in mail' : m \in mail
                 /\ \A d \in udp' : d \in udp \/ (d.buf.frame = M.buf.frame /\ d.of = M.of)
                 /\ lost' = lost \/ lost' = lost \cup table[b][n]
      <4>1. Reported(buf) = table[b][n]
        BY <2>3, <3>2 DEF Reported
      <4> QED
        BY <3>2, <4>1 DEF PostUDP
    <3> QED
      BY <2>2, <3>1, <3>2
  <2>5. GoodTraffic'
    <3>1. \A d \in udp' : d \in udp \/ Says(d)
      BY <2>3, <2>4 DEF Good, Says
    <3>2. \A m \in mail' \cup down' : m \in mail \cup down \/ Good(m)
      BY <2>2, <2>3, <2>4
    <3> QED
      BY <1>0, <3>1, <3>2, GoodTrafficKept
  <2>6. TypeOK'
    <3>1. table' \in [Nodes -> [Nodes -> SUBSET Readings]] /\ lost' \subseteq Readings
      BY <2>2, <2>4 DEF TypeOK
    <3>2. \A m \in mail' : m.to \in Nodes /\ m.from \in Nodes
      BY <2>4 DEF TypeOK
    <3> QED
      BY <2>2, <3>1, <3>2 DEF TypeOK, treeVars
  <2> QED
    BY <1>1, <2>5, <2>6
<1> QED
  BY <1>2, <1>3, <1>4

\* What the service task takes from the mesh.
LEMMA ReceiveKeeps ==
  ASSUME IInv, NEW b \in Nodes, NEW m \in mail,
         \/ AggregateSensor(b, m) \/ ForwardSensor(b, m)
         \/ ReceiveAdv(b, m) \/ ReceiveTime(b, m)
  PROVE  IInv'
<1> USE DEF IInv
<1>0. now \in Nat /\ UNCHANGED now
  <2>1. now \in Nat
    BY MeshNetAssumption DEF TypeOK
  <2>2. UNCHANGED now
    BY DEF AggregateSensor, ForwardSensor, ReceiveAdv, ReceiveTime, timeVars
  <2> QED
    BY <2>1, <2>2
<1>1. /\ Good(m) /\ Reported(m.buf) \subseteq Readings /\ Frame(m) = m.of
      /\ m.buf.frame.frame_type = m.of.frame_type
      /\ m.of.frame_type = "SENSOR" => m.of.data.sensor_data \in SUBSET Readings
  BY GoodReports, MeshNetAssumption DEF GoodTraffic
<1>2. CASE AggregateSensor(b, m)
  <2>1. table' \in [Nodes -> [Nodes -> SUBSET Readings]] /\ lost' \subseteq Readings
    <3>1. Frame(m).data.sensor_data \in SUBSET Readings
      BY <1>1, <1>2 DEF AggregateSensor, Takes
    <3> QED
      BY <1>2, <3>1, PushTyped DEF AggregateSensor
  <2>2. TypeOK'
    BY <1>2, <2>1 DEF AggregateSensor, TypeOK, treeVars, timeVars
  <2>3. mail' \subseteq mail /\ UNCHANGED <<udp, down, clock>>
    BY <1>2 DEF AggregateSensor, timeVars
  <2> QED
    BY <1>0, <2>2, <2>3, GoodTrafficKept, ClocksKept
<1>3. CASE ForwardSensor(b, m)
  <2> DEFINE M == Mesh(Root, b, m.buf, m.of)
             D == [buf |-> m.buf, of |-> m.of]
  <2>1. /\ M.to = Root /\ M.from = b /\ M.buf = m.buf /\ M.of = m.of
        /\ D.buf = m.buf /\ D.of = m.of
    BY DEF Mesh
  <2>2. /\ mail' \subseteq mail \cup {M}
        /\ udp' = udp \/ udp' = udp \cup {D}
        /\ lost' = lost \/ lost' = lost \cup Reported(m.buf)
    BY <1>3, <2>1 DEF ForwardSensor, Post, PostUDP
  <2> HIDE DEF M, D
  <2>3. Good(M) /\ Good(D)
    BY <1>1, <2>1, CopyIsGood
  <2>4. GoodTraffic'
    <3>1. /\ \A y \in mail' \cup down' : y \in mail \cup down \/ y = M
          /\ \A d \in udp' : d \in udp \/ d = D
      BY <1>3, <2>2 DEF ForwardSensor, timeVars
    <3>2. Says(D)
      BY <2>3 DEF Good
    <3> QED
      BY <1>0, <2>3, <3>1, <3>2, GoodTrafficKept
  <2>5. TypeOK'
    <3>1. lost' \subseteq Readings
      BY <1>1, <2>2 DEF TypeOK
    <3>2. \A y \in mail' : y.to \in Nodes /\ y.from \in Nodes
      BY <2>1, <2>2, MeshNetAssumption DEF TypeOK
    <3> QED
      BY <1>3, <3>1, <3>2 DEF ForwardSensor, TypeOK, treeVars, timeVars
  <2>6. ClocksFollowServer'
    BY <1>0, <1>3, ClocksKept DEF ForwardSensor, timeVars
  <2> QED
    BY <2>4, <2>5, <2>6
<1>4. CASE ReceiveAdv(b, m)
  <2>1. ids' \in [Nodes -> SUBSET Others]
    BY <1>4 DEF ReceiveAdv, TypeOK, Stations
  <2>2. TypeOK'
    BY <1>4, <2>1 DEF ReceiveAdv, TypeOK, dataVars, timeVars
  <2>3. mail' \subseteq mail /\ UNCHANGED <<udp, down, clock>>
    BY <1>4 DEF ReceiveAdv, timeVars
  <2> QED
    BY <1>0, <2>2, <2>3, GoodTrafficKept, ClocksKept
<1>5. CASE ReceiveTime(b, m)
  <2>1. ClocksFollowServer' /\ clock' \in [Nodes -> Number(LONG)]
    BY <1>0, <1>1, <1>5, ClockSet DEF ReceiveTime, Takes
  <2>2. TypeOK'
    BY <1>5, <2>1 DEF ReceiveTime, TypeOK, treeVars, dataVars
  <2>3. mail' \subseteq mail /\ UNCHANGED <<udp, down>>
    BY <1>5 DEF ReceiveTime
  <2> QED
    BY <1>0, <2>1, <2>2, <2>3, GoodTrafficKept
<1> QED
  BY <1>2, <1>3, <1>4, <1>5

\* The server, the bridge task, refused frames and changes of parent.
LEMMA OthersKeep ==
  ASSUME IInv,
         \/ SendTime
         \/ \E d \in down : BridgeTime(d) \/ RefuseTime(d)
         \/ \E m \in mail : RefuseSensor(m)
         \/ \E b, p \in Nodes : Move(b, p)
  PROVE  IInv'
<1> USE DEF IInv
<1>0. now \in Nat /\ MaxTime \in Nat
  BY MeshNetAssumption DEF TypeOK
<1>1. CASE SendTime
  <2> DEFINE t   == now + 1
             buf == createTimeFrame(module_id[None], timeval(t))
             D   == [buf |-> buf, of |-> Converted(buf.frame)]
  <2>1. /\ t \in 0 .. MaxTime /\ now' = t
        /\ down' = down \cup {D} /\ UNCHANGED <<mail, udp, clock>>
    BY <1>0, <1>1 DEF SendTime
  <2>2. D.buf = buf /\ D.of = Converted(buf.frame)
    OBVIOUS
  <2>3. /\ D.of \in AppFrames /\ D.buf = htonFrameHMAC(D.of)
        /\ D.of.frame_type = "TIME" /\ D.of.data.timestamp_sec = timeval(t)
    <3> HIDE DEF t
    <3> QED
      BY <2>1, <2>2, TimeFrameBuilt
  <2> HIDE DEF D, buf
  <2>4. GoodTraffic'
    <3>1. PICK d : d = D
      OBVIOUS
    <3>2. Good(d)'
      BY <1>0, <2>1, <2>3, <3>1 DEF Good, Says, htonFrameHMAC
    <3>3. (\A y \in mail' \cup down' : y \in mail \cup down \/ y = d) /\ udp' = udp
      BY <2>1, <3>1
    <3> QED
      BY <1>0, <2>1, <3>2, <3>3, GoodTrafficKept
  <2>5. ClocksFollowServer'
    BY <1>0, <2>1, ClocksKept
  <2>6. TypeOK'
    BY <1>1, <2>1 DEF SendTime, TypeOK, treeVars, dataVars
  <2> QED
    BY <2>4, <2>5, <2>6
<1>2. ASSUME NEW d \in down, BridgeTime(d) PROVE IInv'
  <2>1. Good(d)
    BY DEF GoodTraffic
  <2>2. PICK reached \in SUBSET Others :
          mail' = mail \cup {Mesh(n, Root, d.buf, d.of) : n \in reached}
    BY <1>2 DEF BridgeTime
  <2>3. \A y \in mail' \ mail : y.to \in Nodes /\ y.from \in Nodes /\ y.buf = d.buf /\ y.of = d.of
    BY <2>2, MeshNetAssumption DEF Mesh, Others
  <2>4. GoodTraffic'
    <3>1. \A y \in mail' \ mail : Good(y)
      BY <2>1, <2>3, CopyIsGood
    <3>2. down' \subseteq down /\ UNCHANGED <<udp, now>>
      BY <1>2 DEF BridgeTime
    <3> QED
      BY <1>0, <3>1, <3>2, GoodTrafficKept
  <2>5. ClocksFollowServer' /\ clock' \in [Nodes -> Number(LONG)]
    <3>1. d.buf.frame.frame_type = "TIME"
      BY <1>2 DEF BridgeTime
    <3>2. clock' = IF ForMe(Root, Frame(d).module_id)
                   THEN [clock EXCEPT ![Root] = Frame(d).data.timestamp_sec]
                   ELSE clock
      BY <1>2 DEF BridgeTime, Frame
    <3>3. UNCHANGED now
      BY <1>2 DEF BridgeTime
    <3> QED
      BY <2>1, <3>1, <3>2, <3>3, MeshNetAssumption, ClockSet
  <2>6. TypeOK'
    BY <1>2, <2>3, <2>5 DEF BridgeTime, TypeOK, treeVars, dataVars
  <2> QED
    BY <2>4, <2>5, <2>6
<1>3. ASSUME NEW d \in down, RefuseTime(d) PROVE IInv'
  <2>1. down' \subseteq down /\ UNCHANGED <<mail, udp, clock, now>>
    BY <1>3 DEF RefuseTime
  <2>2. TypeOK'
    BY <1>3 DEF RefuseTime, TypeOK, treeVars, dataVars
  <2> QED
    BY <1>0, <2>1, <2>2, GoodTrafficKept, ClocksKept
<1>4. ASSUME NEW m \in mail, RefuseSensor(m) PROVE IInv'
  <2>1. mail' \subseteq mail /\ down' \subseteq down /\ UNCHANGED <<udp, clock, now>>
    BY <1>4 DEF RefuseSensor, MeetsBridge
  <2>2. Reported(m.buf) \subseteq Readings
    BY GoodReports DEF GoodTraffic
  <2>3. TypeOK'
    BY <1>4, <2>2 DEF RefuseSensor, TypeOK, treeVars
  <2> QED
    BY <1>0, <2>1, <2>3, GoodTrafficKept, ClocksKept
<1>5. ASSUME NEW b \in Nodes, NEW p \in Nodes, Move(b, p) PROVE IInv'
  <2>1. UNCHANGED <<mail, udp, down, clock, now>>
    BY <1>5 DEF Move, timeVars
  <2>2. table' \in [Nodes -> [Nodes -> SUBSET Readings]] /\ lost' \subseteq Readings
    <3>1. b \in Others /\ parent[b] \in Nodes
      BY <1>5 DEF Move, TypeOK, Others
    <3>2. CASE UNCHANGED <<table, lost>>
      BY <3>2 DEF TypeOK
    <3>3. ASSUME NEW n \in Nodes,
                 table' = [table EXCEPT ![parent[b]][n] = {}],
                 lost' = lost \cup table[parent[b]][n]
          PROVE  table' \in [Nodes -> [Nodes -> SUBSET Readings]] /\ lost' \subseteq Readings
      BY <3>1, <3>3 DEF TypeOK
    <3> QED
      BY <1>5, <3>2, <3>3 DEF Move
  <2>3. parent' \in [Others -> Nodes] /\ adv' \subseteq Others /\ ids' \in [Nodes -> SUBSET Others]
    BY <1>5 DEF Move, TypeOK, Others
  <2>4. TypeOK'
    BY <1>5, <2>1, <2>2, <2>3, MeshNetAssumption DEF Move, TypeOK
  <2> QED
    BY <1>0, <2>1, <2>4, GoodTrafficKept, ClocksKept
<1> QED
  BY <1>1, <1>2, <1>3, <1>4, <1>5

\* Every step of the mesh.
LEMMA NextKeeps ==
  ASSUME IInv, Next
  PROVE  IInv'
BY BoardKeeps, ReceiveKeeps, OthersKeep DEF Next, Service

\* A step that changes nothing.
LEMMA StutterKeeps ==
  ASSUME IInv, UNCHANGED vars
  PROVE  IInv'
<1> USE DEF IInv, vars, treeVars, dataVars, timeVars
<1>1. TypeOK'
  BY DEF TypeOK
<1>2. now \in Nat
  BY MeshNetAssumption DEF TypeOK
<1> QED
  BY <1>1, <1>2, GoodTrafficKept, ClocksKept

\* The invariant that the theorems below rest on.
LEMMA Invariance == Spec => []IInv
<1>1. Init => IInv
  BY InitIInv
<1>2. IInv /\ [Next]_vars => IInv'
  BY NextKeeps, StutterKeeps
<1> QED
  BY <1>1, <1>2, PTL DEF Spec

\* Mesh frames are always addressed to a board, and the tree, the tables and
\* the clocks stay what they are.
THEOREM TypeCorrectness == Spec => []TypeOK
<1>1. IInv => TypeOK
  BY DEF IInv
<1> QED
  BY <1>1, Invariance, PTL

\* In a mesh of any size and shape, a frame is accepted by the next board and says
\* what it was built from after any number of hops (mesh_main.c:266 and 417); and
\* what the root sends has the right bytes even when the digest the root made of
\* them is spoiled, or the digests of others were (mesh_main.c:344).
THEOREM FramesStayAsBuilt == Spec => []FramesAsBuilt
<1>1. IInv => FramesAsBuilt
  <2> SUFFICES ASSUME GoodTraffic PROVE FramesAsBuilt
    BY DEF IInv
  <2>1. \A m \in mail \cup down : valid(m.buf) /\ Frame(m) = m.of
    BY GoodIsAccepted DEF GoodTraffic
  <2>2. \A m \in udp : Converted(m.buf.frame) = m.of
    BY BytesReport DEF GoodTraffic
  <2> QED
    BY <2>1, <2>2 DEF FramesAsBuilt
<1> QED
  BY <1>1, Invariance, PTL

\* However TIME frames are delayed, reordered, refused and passed down, a clock
\* is never set to anything but a time of the server (mesh_main.c:306, 431).
THEOREM ClocksAreTheServers == Spec => []ClocksFollowServer
<1>1. IInv => ClocksFollowServer
  BY DEF IInv
<1> QED
  BY <1>1, Invariance, PTL
-----------------------------------------------------------------------------
(* Where the readings are.                                                 *)

\* Every reading made is in some place, nothing else is in any, and no reading
\* is in two.
Once ==
  /\ \A r \in Made : \E x \in Places : r \in At(x)
  /\ \A x \in Places : At(x) \subseteq Made
  /\ \A x, y \in Places : x # y => At(x) \cap At(y) = {}

\* What each kind of place holds, before and after a step.
LEMMA Contents ==
  /\ \A b, n : At(<<"table", b, n>>) = table[b][n] /\ At(<<"table", b, n>>)' = table'[b][n]
  /\ \A m : At(<<"mail", m>>) = Reported(m.buf) /\ At(<<"mail", m>>)' = Reported(m.buf)
  /\ \A d : At(<<"udp", d>>) = Reported(d.buf) /\ At(<<"udp", d>>)' = Reported(d.buf)
  /\ At(<<"lost">>) = lost /\ At(<<"lost">>)' = lost'
BY DEF At

\* A step that puts the readings S, which are new or all in place p, in place
\* q, and leaves the others where they are.
LEMMA Transfer ==
  ASSUME Once, NEW S, NEW p, NEW q, p \in Places, q \in Places',
         Made' = Made \cup S,
         \A r \in S : r \in Made => r \in At(p),
         S \subseteq At(q)',
         \A x \in Places' : \A r : r \in At(x)' =>
           \/ x = q /\ r \in S
           \/ x \in Places /\ r \in At(x) /\ ~ (x = p /\ r \in S),
         \A x \in Places : \A r : r \in At(x) /\ r \notin S => x \in Places' /\ r \in At(x)'
  PROVE  Once'
<1>1. ASSUME NEW r \in Made' PROVE \E x \in Places' : r \in At(x)'
  <2>1. CASE r \in S
    BY <2>1
  <2>2. CASE r \notin S
    <3>1. PICK x \in Places : r \in At(x)
      BY <2>2 DEF Once
    <3> QED
      BY <2>2, <3>1
  <2> QED
    BY <2>1, <2>2
<1>2. ASSUME NEW x \in Places', NEW r \in At(x)' PROVE r \in Made'
  BY DEF Once
<1>3. ASSUME NEW x \in Places', NEW y \in Places', NEW r, r \in At(x)', r \in At(y)', x # y
      PROVE  FALSE
  <2>1. CASE r \in S
    <3>1. ASSUME NEW z \in Places', r \in At(z)', z # q PROVE FALSE
      <4>1. z \in Places /\ r \in At(z) /\ z # p
        BY <2>1, <3>1
      <4>2. r \in At(p)
        BY <2>1, <4>1 DEF Once
      <4> QED
        BY <4>1, <4>2 DEF Once
    <3> QED
      BY <1>3, <3>1
  <2>2. CASE r \notin S
    <3>1. x \in Places /\ r \in At(x) /\ y \in Places /\ r \in At(y)
      BY <1>3, <2>2
    <3> QED
      BY <1>3, <3>1 DEF Once
  <2> QED
    BY <2>1, <2>2
<1> QED
  BY <1>1, <1>2, <1>3 DEF Once

\* A step that makes no reading, keeps tables, datagrams and lost readings, and
\* the frames that report anything.
LEMMA Unmoved ==
  ASSUME Once, UNCHANGED <<made, table, udp, lost>>,
         \A m \in mail \cup mail' : Reported(m.buf) # {} => (m \in mail <=> m \in mail')
  PROVE  Once'
<1> DEFINE p == <<"lost">>
<1>1. p \in Places /\ p \in Places' /\ Made' = Made
  BY DEF Places, Made
<1>2. ASSUME NEW x \in Places', NEW r, r \in At(x)' PROVE x \in Places /\ r \in At(x)
  BY <1>2, Contents DEF Places
<1>3. ASSUME NEW x \in Places, NEW r, r \in At(x) PROVE x \in Places' /\ r \in At(x)'
  BY <1>3, Contents DEF Places
<1> DEFINE S == {}
<1>4. Made' = Made \cup S /\ (\A r \in S : r \in Made => r \in At(p)) /\ S \subseteq At(p)'
  BY <1>1
<1>5. \A x \in Places' : \A r : r \in At(x)' =>
        \/ x = p /\ r \in S
        \/ x \in Places /\ r \in At(x) /\ ~ (x = p /\ r \in S)
  BY <1>2
<1>6. \A x \in Places : \A r : r \in At(x) /\ r \notin S => x \in Places' /\ r \in At(x)'
  BY <1>3
<1> HIDE DEF p, S
<1> QED
  BY <1>1, <1>4, <1>5, <1>6, Transfer

\* The same, said of each variable: the readings S come to q, which are new or
\* all that p holds.
LEMMA Carried ==
  ASSUME Once, NEW S, NEW p, NEW q, p \in Places, q \in Places', S \subseteq At(q)',
         \/ Made' = Made /\ S = At(p) /\ p # <<"lost">>
         \/ Made' = Made \cup S /\ S \cap Made = {} /\ p = <<"lost">>,
         \A b, n \in Nodes : \A r \in table'[b][n] :
           \/ <<"table", b, n>> = q /\ r \in S
           \/ r \in table[b][n] /\ <<"table", b, n>> # p,
         \A b, n \in Nodes : \A r \in table[b][n] : r \in S \/ r \in table'[b][n],
         \A m \in mail' : \/ <<"mail", m>> = q /\ Reported(m.buf) = S
                          \/ m \in mail /\ <<"mail", m>> # p,
         \A m \in mail : m \in mail' \/ Reported(m.buf) \subseteq S,
         \A d \in udp' : \/ <<"udp", d>> = q /\ Reported(d.buf) = S
                         \/ d \in udp /\ <<"udp", d>> # p,
         udp \subseteq udp',
         \A r \in lost' : r \in lost \/ (<<"lost">> = q /\ r \in S),
         lost \subseteq lost'
  PROVE  Once'
<1>1. Made' = Made \cup S /\ \A r \in S : r \in Made => r \in At(p)
  BY DEF Once
<1>2. ASSUME NEW x \in Places', NEW r, r \in At(x)', ~ (x = q /\ r \in S)
      PROVE  x \in Places /\ r \in At(x) /\ ~ (x = p /\ r \in S)
  <2>1. ASSUME NEW b \in Nodes, NEW n \in Nodes, x = <<"table", b, n>>
        PROVE  x \in Places /\ r \in At(x) /\ (p = <<"lost">> \/ x # p)
    BY <1>2, <2>1, Contents DEF Places
  <2>2. ASSUME NEW m \in mail', x = <<"mail", m>>
        PROVE  x \in Places /\ r \in At(x) /\ (p = <<"lost">> \/ x # p)
    BY <1>2, <2>2, Contents DEF Places
  <2>3. ASSUME NEW d \in udp', x = <<"udp", d>>
        PROVE  x \in Places /\ r \in At(x) /\ (p = <<"lost">> \/ x # p)
    BY <1>2, <2>3, Contents DEF Places
  <2>4. ASSUME x = <<"lost">>
        PROVE  x \in Places /\ r \in At(x) /\ (p = <<"lost">> \/ x # p)
    BY <1>2, <2>4, Contents DEF Places
  <2>5. x \in Places /\ r \in At(x) /\ (p = <<"lost">> \/ x # p)
    BY <2>1, <2>2, <2>3, <2>4 DEF Places
  <2>6. r \in Made
    BY <2>5 DEF Once
  <2> QED
    BY <2>5, <2>6
<1>3. ASSUME NEW x \in Places, NEW r, r \in At(x), r \notin S
      PROVE  x \in Places' /\ r \in At(x)'
  BY <1>3, Contents DEF Places
<1> QED
  BY <1>1, <1>2, <1>3, Transfer

\* The places that readings leave.
Sources == {<<"table", b, n>> : b \in Nodes, n \in Nodes} \cup {<<"mail", m>> : m \in mail}

\* What a table entry or a frame held is given up.
LEMMA GivenUp ==
  ASSUME Once, NEW p \in Sources, UNCHANGED <<made, udp>>,
         \A b, n \in Nodes : table'[b][n] = IF <<"table", b, n>> = p THEN {} ELSE table[b][n],
         \A m : m \in mail' <=> m \in mail /\ <<"mail", m>> # p,
         lost' = lost \cup At(p)
  PROVE  Once'
<1> DEFINE S == At(p)
           q == <<"lost">>
<1>1. /\ p \in Places /\ p # <<"lost">> /\ \A d : p # <<"udp", d>>
      /\ q \in Places' /\ S \subseteq At(q)' /\ Made' = Made
  BY Contents DEF Sources, Places, Made
<1>2. \A b, n \in Nodes : \A r \in table[b][n] : r \in S \/ r \in table'[b][n]
  BY Contents
<1>3. \A m \in mail : m \in mail' \/ Reported(m.buf) \subseteq S
  BY Contents
<1>4. /\ \A b, n \in Nodes : \A r \in table'[b][n] : r \in table[b][n] /\ <<"table", b, n>> # p
      /\ \A m \in mail' : m \in mail /\ <<"mail", m>> # p
      /\ \A d \in udp' : d \in udp /\ <<"udp", d>> # p
      /\ \A r \in lost' : r \in lost \/ (<<"lost">> = q /\ r \in S)
      /\ lost \subseteq lost' /\ udp \subseteq udp'
  BY <1>1
<1> HIDE DEF S, q
<1> QED
  BY <1>1, <1>2, <1>3, <1>4, Carried DEF S

\* It is posted, or given up because the send fails.
LEMMA Posted ==
  ASSUME Once, NEW p \in Sources, UNCHANGED <<made, udp>>, NEW rest, NEW M,
         \A b, n \in Nodes : table'[b][n] = IF <<"table", b, n>> = p THEN {} ELSE table[b][n],
         \A m : m \in rest <=> m \in mail /\ <<"mail", m>> # p,
         Post(M, rest), Reported(M.buf) = At(p)
  PROVE  Once'
<1>1. CASE mail' = rest /\ lost' = lost \cup Reported(M.buf)
  BY <1>1, GivenUp
<1>2. CASE mail' = rest \cup {M} /\ UNCHANGED lost
  <2> DEFINE S == At(p)
             q == <<"mail", M>>
  <2>1. /\ p \in Places /\ p # <<"lost">> /\ \A d : p # <<"udp", d>>
        /\ q \in Places' /\ S \subseteq At(q)' /\ Made' = Made
    BY <1>2, Contents DEF Sources, Places, Made
  <2>2. \A b, n \in Nodes : \A r \in table[b][n] : r \in S \/ r \in table'[b][n]
    BY Contents
  <2>3. \A m \in mail : m \in mail' \/ Reported(m.buf) \subseteq S
    BY <1>2, Contents
  <2>4. /\ \A b, n \in Nodes : \A r \in table'[b][n] : r \in table[b][n] /\ <<"table", b, n>> # p
        /\ \A m \in mail' : \/ <<"mail", m>> = q /\ Reported(m.buf) = S
                            \/ m \in mail /\ <<"mail", m>> # p
        /\ \A d \in udp' : d \in udp /\ <<"udp", d>> # p
        /\ \A r \in lost' : r \in lost
        /\ lost \subseteq lost' /\ udp \subseteq udp'
    BY <1>2, <2>1
  <2> HIDE DEF S, q
  <2> QED
    BY <2>1, <2>2, <2>3, <2>4, Carried DEF S
<1> QED
  BY <1>1, <1>2 DEF Post

\* The root sends it to the server, or gives it up.
LEMMA PostedUDP ==
  ASSUME Once, NEW p \in Sources, UNCHANGED made, NEW buf, NEW of,
         \A b, n \in Nodes : table'[b][n] = IF <<"table", b, n>> = p THEN {} ELSE table[b][n],
         \A m : m \in mail' <=> m \in mail /\ <<"mail", m>> # p,
         PostUDP(buf, of), Reported(buf) = At(p)
  PROVE  Once'
<1>1. CASE UNCHANGED udp /\ lost' = lost \cup Reported(buf)
  BY <1>1, GivenUp
<1>2. CASE udp' = udp \cup {[buf |-> buf, of |-> of]} /\ UNCHANGED lost
  <2> DEFINE S == At(p)
             D == [buf |-> buf, of |-> of]
             q == <<"udp", D>>
  <2>0. Reported(D.buf) = S
    OBVIOUS
  <2>1. /\ p \in Places /\ p # <<"lost">> /\ \A d : p # <<"udp", d>>
        /\ q \in Places' /\ S \subseteq At(q)' /\ Made' = Made
    BY <1>2, <2>0, Contents DEF Sources, Places, Made
  <2>2. \A b, n \in Nodes : \A r \in table[b][n] : r \in S \/ r \in table'[b][n]
    BY Contents
  <2>3. \A m \in mail : m \in mail' \/ Reported(m.buf) \subseteq S
    BY Contents
  <2>4. /\ \A b, n \in Nodes : \A r \in table'[b][n] : r \in table[b][n] /\ <<"table", b, n>> # p
        /\ \A m \in mail' : m \in mail /\ <<"mail", m>> # p
        /\ \A d \in udp' : \/ <<"udp", d>> = q /\ Reported(d.buf) = S
                           \/ d \in udp /\ <<"udp", d>> # p
        /\ \A r \in lost' : r \in lost
        /\ lost \subseteq lost' /\ udp \subseteq udp'
    BY <1>2, <2>0, <2>1
  <2> HIDE DEF S, q, D
  <2> QED
    BY <2>1, <2>2, <2>3, <2>4, Carried DEF S
<1> QED
  BY <1>1, <1>2 DEF PostUDP

\* New readings, or those of a frame that is taken, are pushed.
LEMMA Pushed ==
  ASSUME TypeOK, Once, NEW S, NEW p, NEW b \in Nodes, NEW n \in Nodes,
         push_sensors(b, n, S), UNCHANGED udp,
         \/ Made' = Made /\ p \in {<<"mail", m>> : m \in mail} /\ S = At(p)
         \/ Made' = Made \cup S /\ S \cap Made = {} /\ p = <<"lost">>,
         \A m : m \in mail' <=> m \in mail /\ <<"mail", m>> # p
  PROVE  Once'
<1>1. /\ p \in Places /\ \A d : p # <<"udp", d>> /\ \A c, k : p # <<"table", c, k>>
      /\ \/ Made' = Made /\ S = At(p) /\ p # <<"lost">>
         \/ Made' = Made \cup S /\ S \cap Made = {} /\ p = <<"lost">>
  BY DEF Places
<1>2. \/ /\ table' = [table EXCEPT ![b][n] = @ \cup S]
         /\ UNCHANGED lost
      \/ /\ lost' = lost \cup S
         /\ UNCHANGED table
  BY DEF push_sensors
<1>3. PICK q : \/ /\ q = <<"table", b, n>> /\ UNCHANGED lost
                  /\ \A c, k \in Nodes : table'[c][k] = IF c = b /\ k = n
                                                        THEN table[c][k] \cup S ELSE table[c][k]
               \/ q = <<"lost">> /\ UNCHANGED table /\ lost' = lost \cup S
  <2>1. table \in [Nodes -> [Nodes -> SUBSET Readings]]
    BY DEF TypeOK
  <2>2. ASSUME table' = [table EXCEPT ![b][n] = @ \cup S]
        PROVE  \A c, k \in Nodes : table'[c][k] = IF c = b /\ k = n
                                                  THEN table[c][k] \cup S ELSE table[c][k]
    BY <2>1, <2>2
  <2> QED
    BY <1>2, <2>2
<1>4. q \in Places' /\ S \subseteq At(q)'
  <2>1. CASE q = <<"table", b, n>> /\ S \subseteq table'[b][n]
    BY <2>1, Contents DEF Places
  <2>2. CASE q = <<"lost">> /\ S \subseteq lost'
    BY <2>2, Contents DEF Places
  <2> QED
    BY <1>3, <2>1, <2>2
<1>5. \A m \in mail : m \in mail' \/ Reported(m.buf) \subseteq S
  BY <1>1, Contents
<1>6. /\ \A c, k \in Nodes : \A r \in table'[c][k] :
           \/ <<"table", c, k>> = q /\ r \in S
           \/ r \in table[c][k] /\ <<"table", c, k>> # p
      /\ \A c, k \in Nodes : \A r \in table[c][k] : r \in table'[c][k]
      /\ \A m \in mail' : m \in mail /\ <<"mail", m>> # p
      /\ \A d \in udp' : d \in udp /\ <<"udp", d>> # p
      /\ \A r \in lost' : r \in lost \/ (<<"lost">> = q /\ r \in S)
      /\ lost \subseteq lost' /\ udp \subseteq udp'
  BY <1>1, <1>3
<1> QED
  BY <1>1, <1>4, <1>5, <1>6, Carried

\* A reading has a maker and a number.
LEMMA OneMore ==
  ASSUME TypeOK, NEW b \in Nodes, made[b] < MaxReadings[b],
         made' = [made EXCEPT ![b] = @ + 1]
  PROVE  LET S == {<<b, made[b] + 1>>} IN Made' = Made \cup S /\ S \cap Made = {}
<1>1. made \in [Nodes -> Nat] /\ made[b] \in Nat /\ MaxReadings \in [Nodes -> Nat]
  BY MeshNetAssumption DEF TypeOK
<1>2. made[b] + 1 \in 1 .. MaxReadings[b]
  BY <1>1
<1>3. \A r : r \in Made  <=> \E n \in Nodes : \E i \in 1 .. MaxReadings[n] : r = <<n, i>> /\ i <= made[n]
  BY <1>1 DEF Made, Readings
<1>4. \A r : r \in Made' <=> \E n \in Nodes : \E i \in 1 .. MaxReadings[n] : r = <<n, i>> /\ i <= made'[n]
  BY <1>1 DEF Made, Readings
<1>5. \A n \in Nodes : made'[n] = IF n = b THEN made[b] + 1 ELSE made[n]
  BY <1>1
<1>6. \A n \in Nodes : \A i \in 1 .. MaxReadings[n] :
        i <= made'[n] <=> i <= made[n] \/ (n = b /\ i = made[b] + 1)
  BY <1>1, <1>5
<1> QED
  BY <1>1, <1>2, <1>3, <1>4, <1>6

\* The actions of a board.
LEMMA BoardOnce ==
  ASSUME IInv, Once, NEW b \in Nodes,
         MakeReading(b) \/ SendAdv(b) \/ Drain(b)
  PROVE  Once'
<1>0. TypeOK
  BY DEF IInv
<1>1. CASE MakeReading(b)
  <2>1. /\ push_sensors(b, b, {<<b, made[b] + 1>>}) /\ UNCHANGED <<mail, udp>>
        /\ made[b] < MaxReadings[b] /\ made' = [made EXCEPT ![b] = @ + 1]
    BY <1>1 DEF MakeReading
  <2>2. \A m : m \in mail' <=> m \in mail /\ <<"mail", m>> # <<"lost">>
    BY <2>1
  <2> QED
    BY <1>0, <2>1, <2>2, OneMore, Pushed
<1>2. CASE SendAdv(b)
  <2> DEFINE buf == createAdvFrame(module_id[b], b, Stamp)
             M   == Mesh(parent[b], b, buf, Converted(buf.frame))
  <2>1. mail' = mail \cup {M} /\ UNCHANGED <<made, table, udp, lost>>
    BY <1>2 DEF SendAdv, dataVars
  <2>2. M.buf = buf
    BY DEF Mesh
  <2>3. buf.frame.frame_type = "ADV"
    BY DEF createAdvFrame, htonFrameHMAC, Converted
  <2>4. Reported(M.buf) = {}
    BY <2>2, <2>3 DEF Reported
  <2> HIDE DEF M
  <2> QED
    BY <2>1, <2>4, Unmoved
<1>3. CASE Drain(b)
  <2>1. PICK n \in Nodes : \E M :
          /\ M.buf = createSensorFrame(module_id[n], table[b][n], Stamp)
          /\ M.of = Converted(M.buf.frame)
          /\ table' = [table EXCEPT ![b][n] = {}]
          /\ UNCHANGED <<treeVars, made, clock, now>> /\ down' \subseteq down
          /\ \/ /\ M.to \in Nodes /\ M.from \in Nodes
                /\ Post(M, mail) /\ UNCHANGED udp
             \/ \E buf : buf.frame = M.buf.frame /\ PostUDP(buf, M.of) /\ UNCHANGED mail
    BY <1>0, <1>3, DrainSends
  <2>2. PICK M :
          /\ M.buf = createSensorFrame(module_id[n], table[b][n], Stamp)
          /\ M.of = Converted(M.buf.frame)
          /\ table' = [table EXCEPT ![b][n] = {}]
          /\ UNCHANGED <<treeVars, made, clock, now>> /\ down' \subseteq down
          /\ \/ /\ M.to \in Nodes /\ M.from \in Nodes
                /\ Post(M, mail) /\ UNCHANGED udp
             \/ \E buf : buf.frame = M.buf.frame /\ PostUDP(buf, M.of) /\ UNCHANGED mail
    BY <2>1
  <2>3. Reported(M.buf) = table[b][n]
    BY <1>0, <2>2, DrainedIsGood
  <2> DEFINE p == <<"table", b, n>>
  <2>4. /\ p \in Sources /\ At(p) = table[b][n] /\ UNCHANGED made
        /\ \A c, k \in Nodes : table'[c][k] = IF <<"table", c, k>> = p THEN {} ELSE table[c][k]
        /\ \A m : m \in mail <=> m \in mail /\ <<"mail", m>> # p
    <3>1. table \in [Nodes -> [Nodes -> SUBSET Readings]]
      BY <1>0 DEF TypeOK
    <3>2. \A c, k \in Nodes : table'[c][k] = IF c = b /\ k = n THEN {} ELSE table[c][k]
      BY <2>2, <3>1
    <3> QED
      BY <2>2, <3>2, Contents DEF Sources
  <2> HIDE DEF p
  <2>5. CASE Post(M, mail) /\ UNCHANGED udp
    BY <2>3, <2>4, <2>5, Posted
  <2>6. ASSUME NEW buf, buf.frame = M.buf.frame, PostUDP(buf, M.of), UNCHANGED mail PROVE Once'
    <3>1. Reported(buf) = At(p)
      BY <2>3, <2>4, <2>6 DEF Reported
    <3> QED
      BY <2>4, <2>6, <3>1, PostedUDP
  <2> QED
    BY <2>2, <2>5, <2>6
<1> QED
  BY <1>1, <1>2, <1>3

\* What the service task takes from the mesh.
LEMMA ReceiveOnce ==
  ASSUME IInv, Once, NEW b \in Nodes, NEW m \in mail,
         \/ AggregateSensor(b, m) \/ ForwardSensor(b, m)
         \/ ReceiveAdv(b, m) \/ ReceiveTime(b, m)
  PROVE  Once'
<1> DEFINE p == <<"mail", m>>
<1>0. /\ TypeOK /\ p \in Sources /\ At(p) = Reported(m.buf)
      /\ p \in {<<"mail", y>> : y \in mail} /\ \A c, k : p # <<"table", c, k>>
  BY Contents DEF IInv, Sources
<1>1. /\ Frame(m) = m.of /\ m.buf.frame.frame_type = m.of.frame_type
      /\ Reported(m.buf) = IF m.of.frame_type = "SENSOR" THEN m.of.data.sensor_data ELSE {}
      /\ m.of.frame_type = "SENSOR" => ModuleOf(m.of.module_id) \in Nodes
  BY GoodReports DEF IInv, GoodTraffic
<1>2. CASE AggregateSensor(b, m)
  <2> DEFINE n == ModuleOf(m.of.module_id)
  <2>1. /\ n \in Nodes /\ push_sensors(b, n, At(p)) /\ UNCHANGED <<made, udp>>
    BY <1>0, <1>1, <1>2 DEF AggregateSensor, Takes
  <2>2. \A y : y \in mail' <=> y \in mail /\ <<"mail", y>> # p
    BY <1>2 DEF AggregateSensor
  <2>3. Made' = Made
    BY <2>1 DEF Made
  <2> HIDE DEF p, n
  <2> QED
    BY <1>0, <2>1, <2>2, <2>3, Pushed
<1>3. CASE ForwardSensor(b, m)
  <2>1. /\ UNCHANGED <<made, table>>
        /\ \/ b # Root /\ Post(Mesh(Root, b, m.buf, m.of), mail \ {m}) /\ UNCHANGED udp
           \/ b = Root /\ PostUDP(m.buf, m.of) /\ mail' = mail \ {m}
    BY <1>3 DEF ForwardSensor
  <2>2. PICK M, rest : /\ M = Mesh(Root, b, m.buf, m.of) /\ rest = mail \ {m}
    OBVIOUS
  <2>3. Reported(M.buf) = At(p)
    BY <1>0, <2>2 DEF Mesh
  <2>4. /\ \A y : y \in rest <=> y \in mail /\ <<"mail", y>> # p
        /\ \A c, k \in Nodes : table'[c][k] = IF <<"table", c, k>> = p THEN {} ELSE table[c][k]
    BY <1>0, <2>1, <2>2
  <2>5. CASE b # Root /\ Post(M, rest) /\ UNCHANGED udp
    <3> HIDE DEF p
    <3> QED
      BY <1>0, <2>1, <2>3, <2>4, <2>5, Posted
  <2>6. CASE b = Root /\ PostUDP(m.buf, m.of) /\ mail' = rest
    <3> HIDE DEF p
    <3> QED
      BY <1>0, <2>1, <2>4, <2>6, PostedUDP
  <2> QED
    BY <2>1, <2>2, <2>5, <2>6
<1>4. CASE ReceiveAdv(b, m) \/ ReceiveTime(b, m)
  <2>1. mail' = mail \ {m} /\ UNCHANGED <<made, table, udp, lost>>
    BY <1>4 DEF ReceiveAdv, ReceiveTime, dataVars
  <2>2. Reported(m.buf) = {}
    BY <1>1, <1>4 DEF ReceiveAdv, ReceiveTime, Takes
  <2> QED
    BY <2>1, <2>2, Unmoved
<1> QED
  BY <1>2, <1>3, <1>4

\* The server, the bridge task, refused frames and changes of parent.
LEMMA OthersOnce ==
  ASSUME IInv, Once,
         \/ SendTime
         \/ \E d \in down : BridgeTime(d) \/ RefuseTime(d)
         \/ \E m \in mail : RefuseSensor(m)
         \/ \E b, p \in Nodes : Move(b, p)
  PROVE  Once'
<1>1. CASE SendTime \/ \E d \in down : RefuseTime(d)
  <2>1. UNCHANGED <<made, table, udp, lost, mail>>
    BY <1>1 DEF SendTime, RefuseTime, dataVars
  <2> QED
    BY <2>1, Unmoved
<1>2. ASSUME NEW d \in down, BridgeTime(d) PROVE Once'
  <2>1. UNCHANGED <<made, table, udp, lost>> /\ d.buf.frame.frame_type = "TIME"
    BY <1>2 DEF BridgeTime, dataVars
  <2>2. PICK reached \in SUBSET Others :
          mail' = mail \cup {Mesh(n, Root, d.buf, d.of) : n \in reached}
    BY <1>2 DEF BridgeTime
  <2>3. \A m \in mail' : m \in mail \/ Reported(m.buf) = {}
    BY <2>1, <2>2 DEF Mesh, Reported
  <2> QED
    BY <2>1, <2>2, <2>3, Unmoved
<1>3. ASSUME NEW m \in mail, RefuseSensor(m) PROVE Once'
  <2> DEFINE p == <<"mail", m>>
  <2>1. p \in Sources /\ At(p) = Reported(m.buf) /\ \A c, k : p # <<"table", c, k>>
    BY Contents DEF Sources
  <2>2. /\ \A y : y \in mail' <=> y \in mail /\ <<"mail", y>> # p
        /\ lost' = lost \cup At(p) /\ UNCHANGED <<made, table, udp>>
    BY <1>3, <2>1 DEF RefuseSensor
  <2> HIDE DEF p
  <2> QED
    BY <2>1, <2>2, GivenUp
<1>4. ASSUME NEW b \in Nodes, NEW p \in Nodes, Move(b, p) PROVE Once'
  <2>1. UNCHANGED <<made, mail, udp>>
    BY <1>4 DEF Move
  <2>2. CASE UNCHANGED <<table, lost>>
    BY <2>1, <2>2, Unmoved
  <2>3. ASSUME NEW n \in Nodes,
               table' = [table EXCEPT ![parent[b]][n] = {}],
               lost' = lost \cup table[parent[b]][n]
        PROVE  Once'
    <3>1. PICK c \in Nodes : c = parent[b]
      BY <1>4 DEF Move, IInv, TypeOK, Others
    <3> DEFINE q == <<"table", c, n>>
    <3>2. q \in Sources /\ At(q) = table[c][n]
      BY Contents DEF Sources
    <3>3. \A x, k \in Nodes : table'[x][k] = IF x = c /\ k = n THEN {} ELSE table[x][k]
      <4>1. table \in [Nodes -> [Nodes -> SUBSET Readings]]
        BY DEF IInv, TypeOK
      <4> QED
        BY <2>3, <3>1, <4>1
    <3>4. /\ \A x, k \in Nodes : table'[x][k] = IF <<"table", x, k>> = q THEN {} ELSE table[x][k]
          /\ \A y : y \in mail' <=> y \in mail /\ <<"mail", y>> # q
          /\ lost' = lost \cup At(q)
      BY <2>1, <2>3, <3>1, <3>2, <3>3
    <3> HIDE DEF q
    <3> QED
      BY <2>1, <3>2, <3>4, GivenUp
  <2> QED
    BY <1>4, <2>2, <2>3 DEF Move
<1> QED
  BY <1>1, <1>2, <1>3, <1>4

\* The places of the readings in every run.
LEMMA OnceInvariance == Spec => [](IInv /\ Once)
<1>1. Init => IInv /\ Once
  <2> SUFFICES ASSUME Init PROVE Once
    BY InitIInv
  <2>1. Made = {}
    BY MeshNetAssumption DEF Init, Made, Readings
  <2>2. \A x \in Places : At(x) = {}
    BY Contents DEF Init, Places
  <2> QED
    BY <2>1, <2>2 DEF Once
<1>2. IInv /\ Once /\ [Next]_vars => IInv' /\ Once'
  <2> SUFFICES ASSUME IInv, Once, [Next]_vars PROVE Once'
    BY NextKeeps, StutterKeeps
  <2>1. CASE Next
    BY <2>1, BoardOnce, ReceiveOnce, OthersOnce DEF Next, Service
  <2>2. CASE UNCHANGED vars
    BY <2>2, Unmoved DEF vars, dataVars
  <2> QED
    BY <2>1, <2>2
<1> QED
  BY <1>1, <1>2, PTL DEF Spec

\* In a mesh of any size and shape, with any losses: no reading is counted
\* twice and none vanishes without being given up (mesh_main.c:280, 342).
THEOREM ReadingsAreKept == Spec => []EveryReadingOnce
<1>1. Once => EveryReadingOnce
  <2> SUFFICES ASSUME Once, NEW r \in Readings
               PROVE  Cardinality({p \in Places : r \in At(p)}) = IF r \in Made THEN 1 ELSE 0
    BY DEF EveryReadingOnce
  <2> DEFINE Holders == {p \in Places : r \in At(p)}
  <2>1. CASE r \in Made
    <3>1. PICK x \in Places : r \in At(x)
      BY <2>1 DEF Once
    <3>2. Holders = {x}
      BY <3>1 DEF Once
    <3> HIDE DEF Holders
    <3>3. Cardinality(Holders) = 1
      BY <3>2, FS_Singleton
    <3> QED
      BY <2>1, <3>3 DEF Holders
  <2>2. CASE r \notin Made
    <3>1. Holders = {}
      BY <2>2 DEF Once
    <3> HIDE DEF Holders
    <3>2. Cardinality(Holders) = 0
      BY <3>1, FS_EmptySet
    <3> QED
      BY <2>2, <3>2 DEF Holders
  <2> QED
    BY <2>1, <2>2
<1> QED
  BY <1>1, OnceInvariance, PTL
=============================================================================
