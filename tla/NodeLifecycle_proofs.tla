------------------------ MODULE NodeLifecycle_proofs ------------------------
(***************************************************************************)
(* A board never runs two tasks of a kind, never leaves its socket without *)
(* an owner, and its flags agree with its link once the posted events are  *)
(* handled, for any number of parents, any event queue and any reconnects. *)
(* Its bridges lease the socket one after the other.                       *)
(*                                                                         *)
(* The flags lag behind the link by the events that wait.  What is         *)
(* invariant is where the queue leads: the last event that concerns a flag *)
(* sets it right, or no event does and it is right already (Settles).      *)
(***************************************************************************)
EXTENDS NodeLifecycle, FiniteSetTheorems, TLAPS

\* Handling the queue q ends with an event of "right" among those whose type
\* is in "types", or none of q has such a type and "now" holds.
Settles(q, types, right, now) ==
  \/ /\ \A i \in 1 .. Len(q) : q[i].type \notin types
     /\ now
  \/ \E i \in 1 .. Len(q) :
       /\ q[i].type \in types
       /\ q[i] \in right
       /\ \A j \in i + 1 .. Len(q) : q[j].type \notin types

ConnectionTypes == {"parent_connected", "parent_disconnected"}
AddressTypes    == {"parent_connected", "root_switch_ack"}
IpTypes         == {"got_ip", "parent_disconnected"}

RightConnections == {e \in Events : (e.type = "parent_connected") <=> up}
RightAddresses   == {e \in Events : e.type = "parent_connected" => e.parent = parent}
RightIps         == {e \in Events : e.type = "got_ip" => up /\ is_root}

ConnectionSettles ==
  Settles(events, ConnectionTypes, RightConnections, is_mesh_connected <=> up)
AddressSettles ==
  Settles(events, AddressTypes, RightAddresses, mesh_parent_addr = parent)
IpSettles ==
  Settles(events, IpTypes, RightIps, gotSTAIP => up /\ is_root)

FlagsSettle == ConnectionSettles /\ AddressSettles /\ IpSettles

\* The flag of a kind of task is set exactly while one of them runs.
OneIff(task, started) ==
  IF started
  THEN \E t \in TaskIds : /\ task[t] # "none"
                          /\ \A u \in TaskIds \ {t} : task[u] = "none"
  ELSE \A t \in TaskIds : task[t] = "none"

TasksMatchFlags ==
  /\ OneIff(service, is_task_meshservice_started)
  /\ OneIff(bridge, is_task_bridgeservice_started)
-----------------------------------------------------------------------------
(* The queue of events.                                                    *)

\* An event that concerns the flag and is right settles it.
LEMMA SettlesAppendRight ==
  ASSUME NEW q \in Seq(Events), NEW e \in Events, NEW types, NEW right, NEW now,
         e.type \in types, e \in right
  PROVE  Settles(Append(q, e), types, right, now)
<1> DEFINE r == Append(q, e)
<1>1. /\ Len(r) = Len(q) + 1
      /\ r[Len(r)] = e
      /\ Len(r) \in 1 .. Len(r)
      /\ \A j \in Len(r) + 1 .. Len(r) : r[j].type \notin types
  OBVIOUS
<1> HIDE DEF r
<1>2. Settles(r, types, right, now)
  BY <1>1 DEF Settles
<1> QED
  BY <1>2 DEF r

\* An event that does not concern it changes nothing.
LEMMA SettlesAppendOther ==
  ASSUME NEW q \in Seq(Events), NEW e \in Events, NEW types, NEW right, NEW now,
         e.type \notin types, Settles(q, types, right, now)
  PROVE  Settles(Append(q, e), types, right, now)
<1> DEFINE r == Append(q, e)
<1>1. /\ Len(q) \in Nat
      /\ Len(r) = Len(q) + 1
      /\ r[Len(r)] = e
      /\ \A i \in 1 .. Len(q) : r[i] = q[i]
  OBVIOUS
<1> HIDE DEF r
<1>2. \A i \in 1 .. Len(r) : i \in 1 .. Len(q) \/ i = Len(r)
  BY <1>1
<1>3. CASE /\ \A i \in 1 .. Len(q) : q[i].type \notin types
           /\ now
  <2>1. \A i \in 1 .. Len(r) : r[i].type \notin types
    BY <1>1, <1>2, <1>3
  <2> QED
    BY <2>1, <1>3 DEF Settles, r
<1>4. ASSUME NEW i \in 1 .. Len(q), q[i].type \in types, q[i] \in right,
             \A j \in i + 1 .. Len(q) : q[j].type \notin types
      PROVE  Settles(r, types, right, now)
  <2>1. i \in 1 .. Len(r) /\ r[i] = q[i]
    BY <1>1
  <2>2. ASSUME NEW j \in i + 1 .. Len(r) PROVE r[j].type \notin types
    <3>1. j \in i + 1 .. Len(q) \/ j = Len(r)
      BY <1>1
    <3>2. j \in i + 1 .. Len(q) => r[j] = q[j]
      BY <1>1
    <3> QED
      BY <3>1, <3>2, <1>1, <1>4
  <2> QED
    BY <2>1, <2>2, <1>4 DEF Settles
<1> QED
  BY <1>3, <1>4 DEF Settles, r

\* The first event is handled: what it does, if it concerns the flag, must be
\* right when it is right itself.
LEMMA SettlesTail ==
  ASSUME NEW q \in Seq(Events), q # <<>>, NEW types, NEW right, NEW now, NEW now2,
         Settles(q, types, right, now),
         Head(q).type \in types /\ Head(q) \in right => now2,
         Head(q).type \notin types /\ now => now2
  PROVE  Settles(Tail(q), types, right, now2)
<1> DEFINE r == Tail(q)
<1>1. /\ Len(q) \in Nat /\ Len(q) >= 1
      /\ Len(r) = Len(q) - 1
      /\ Head(q) = q[1]
      /\ \A i \in 1 .. Len(r) : r[i] = q[i + 1]
  OBVIOUS
<1> HIDE DEF r
<1>2. \A i \in 1 .. Len(r) : i + 1 \in 1 .. Len(q)
  BY <1>1
<1>3. CASE (\A i \in 1 .. Len(q) : q[i].type \notin types) /\ now
  <2>1. \A i \in 1 .. Len(r) : r[i].type \notin types
    BY <1>1, <1>2, <1>3
  <2>2. now2
    <3>1. 1 \in 1 .. Len(q)
      BY <1>1
    <3> QED
      BY <3>1, <1>1, <1>3
  <2> QED
    BY <2>1, <2>2 DEF Settles, r
<1>4. ASSUME NEW i \in 1 .. Len(q), q[i].type \in types, q[i] \in right,
             \A j \in i + 1 .. Len(q) : q[j].type \notin types
      PROVE  Settles(r, types, right, now2)
  <2>1. CASE i = 1
    <3>1. ASSUME NEW k \in 1 .. Len(r) PROVE r[k].type \notin types
      <4>1. k + 1 \in i + 1 .. Len(q) /\ r[k] = q[k + 1]
        BY <1>1, <2>1
      <4> QED
        BY <4>1, <1>4
    <3>2. now2
      BY <1>1, <1>4, <2>1
    <3> QED
      BY <3>1, <3>2 DEF Settles
  <2>2. CASE i # 1
    <3>1. i - 1 \in 1 .. Len(r) /\ r[i - 1] = q[i]
      BY <1>1, <2>2
    <3>2. ASSUME NEW k \in (i - 1) + 1 .. Len(r) PROVE r[k].type \notin types
      <4>1. k + 1 \in i + 1 .. Len(q) /\ r[k] = q[k + 1]
        BY <1>1
      <4> QED
        BY <4>1, <1>4
    <3> QED
      BY <3>1, <3>2, <1>4 DEF Settles
  <2> QED
    BY <2>1, <2>2
<1> QED
  BY <1>3, <1>4 DEF Settles, r

\* More may be right than before.
LEMMA SettlesMore ==
  ASSUME NEW q, NEW types, NEW right, NEW right2, NEW now, NEW now2,
         Settles(q, types, right, now), right \subseteq right2, now => now2
  PROVE  Settles(q, types, right2, now2)
BY DEF Settles

\* Without events the flag is right.
LEMMA SettlesEmpty ==
  ASSUME NEW types, NEW right, NEW now, Settles(<<>>, types, right, now)
  PROVE  now
<1>1. Len(<<>>) = 0
  OBVIOUS
<1>2. 1 .. 0 = {}
  OBVIOUS
<1> QED
  BY <1>1, <1>2 DEF Settles
-----------------------------------------------------------------------------
(* The inductive invariant.                                                *)

IInv == TypeOK /\ TasksMatchFlags /\ SocketHasOwner /\ FlagsSettle

\* The board starts with no event, no task, no socket and every flag down.
LEMMA InitIInv ==
  Init => IInv
<1> SUFFICES ASSUME Init PROVE IInv
  OBVIOUS
<1>1. TypeOK
  <2>1. <<>> \in Seq(Events) /\ Len(<<>>) = 0 /\ 0 <= MaxQueue
    BY NodeLifecycleAssumption
  <2>2. /\ [t \in TaskIds |-> "none"] \in [TaskIds -> {"none", "start", "adv", "loop", "turn", "exit"}]
        /\ [t \in TaskIds |-> "none"] \in [TaskIds -> {"none", "wait", "create", "loop", "recv",
                                                      "forward", "close", "exit"}]
    OBVIOUS
  <2> QED
    BY <2>1, <2>2 DEF Init, TypeOK
<1>2. TasksMatchFlags /\ SocketHasOwner
  BY DEF Init, TasksMatchFlags, OneIff, SocketHasOwner
<1>3. FlagsSettle
  <2>1. 1 .. Len(events) = {}
    BY DEF Init
  <2> HIDE DEF Init
  <2>2. ConnectionSettles
    BY <2>1 DEF Init, ConnectionSettles, Settles
  <2>3. AddressSettles
    BY <2>1 DEF Init, AddressSettles, Settles
  <2>4. IpSettles
    BY <2>1 DEF Init, IpSettles, Settles
  <2> QED
    BY <2>2, <2>3, <2>4 DEF FlagsSettle
<1> QED
  BY <1>1, <1>2, <1>3 DEF IInv

\* What the stack posts is an event, and the queue keeps its bound.
LEMMA PostIsTyped ==
  ASSUME TypeOK, NEW e \in Events, Post(e)
  PROVE  /\ events' = Append(events, e)
         /\ events' \in Seq(Events) /\ Len(events') <= MaxQueue
BY NodeLifecycleAssumption DEF TypeOK, Post

\* So does the queue without its first event, which is an event.
LEMMA HandleIsTyped ==
  ASSUME TypeOK, NEW type, Handle(type)
  PROVE  /\ events' = Tail(events)
         /\ events \in Seq(Events) /\ events # <<>>
         /\ events' \in Seq(Events) /\ Len(events') <= MaxQueue
         /\ Head(events) \in Events /\ Head(events).type = type
<1>1. Len(events) \in Nat /\ Len(Tail(events)) = Len(events) - 1
  BY DEF TypeOK, Handle
<1> QED
  BY <1>1, NodeLifecycleAssumption DEF TypeOK, Handle

\* The type invariant in four parts: the queue of events, the Booleans, the
\* board's other data, and the places of the tasks.
QueueTyped ==
  events \in Seq(Events) /\ Len(events) <= MaxQueue

BooleansTyped ==
  /\ up \in BOOLEAN /\ is_root \in BOOLEAN /\ dhcp \in BOOLEAN
  /\ is_mesh_connected \in BOOLEAN /\ gotSTAIP \in BOOLEAN
  /\ is_task_meshservice_started \in BOOLEAN
  /\ is_task_bridgeservice_started \in BOOLEAN

DataTyped ==
  /\ parent \in AnyParent \cup {NoParent}
  /\ handler \in {"idle", "dhcp", "start_mesh_task", "start_bridge_task"}
  /\ mesh_parent_addr \in AnyParent \cup {NoParent}
  /\ udpSocket \in {-1, 0, 1}
  /\ advertised \in AnyParent \cup {NoParent}

TasksTyped ==
  /\ service \in [TaskIds -> {"none", "start", "adv", "loop", "turn", "exit"}]
  /\ bridge \in [TaskIds -> {"none", "wait", "create", "loop", "recv", "forward",
                             "close", "exit"}]

\* Every step keeps the types.
LEMMA TypeStep ==
  TypeOK /\ [Next]_vars => TypeOK'
<1> SUFFICES ASSUME TypeOK, [Next]_vars PROVE TypeOK'
  OBVIOUS
<1>t. QueueTyped /\ BooleansTyped /\ DataTyped /\ TasksTyped
  BY DEF TypeOK, QueueTyped, BooleansTyped, DataTyped, TasksTyped
<1>p. QueueTyped' /\ BooleansTyped' /\ DataTyped' /\ TasksTyped' => TypeOK'
  BY DEF TypeOK, QueueTyped, BooleansTyped, DataTyped, TasksTyped
<1> USE DEF stackVars, flagVars, startVars, taskVars
<1>1. ASSUME NEW p \in AnyParent, LinkUp(p) PROVE TypeOK'
  <2>1. [type |-> "parent_connected", parent |-> p] \in Events
    BY DEF Events
  <2>2. QueueTyped'
    BY <1>1, <2>1, PostIsTyped DEF LinkUp, QueueTyped
  <2>3. BooleansTyped'
    BY <1>t, <1>1 DEF LinkUp, BooleansTyped
  <2>4. DataTyped'
    BY <1>t, <1>1 DEF LinkUp, DataTyped
  <2>5. TasksTyped'
    BY <1>t, <1>1 DEF LinkUp, TasksTyped
  <2> QED
    BY <1>p, <2>2, <2>3, <2>4, <2>5
<1>2. ASSUME LinkDown PROVE TypeOK'
  <2>1. Event("parent_disconnected") \in Events
    BY DEF Events, Event
  <2>2. QueueTyped'
    BY <1>2, <2>1, PostIsTyped DEF LinkDown, QueueTyped
  <2>3. BooleansTyped'
    BY <1>t, <1>2 DEF LinkDown, BooleansTyped
  <2>4. DataTyped'
    BY <1>t, <1>2 DEF LinkDown, DataTyped
  <2>5. TasksTyped'
    BY <1>t, <1>2 DEF LinkDown, TasksTyped
  <2> QED
    BY <1>p, <2>2, <2>3, <2>4, <2>5
<1>3. ASSUME RootSwitch PROVE TypeOK'
  <2>1. Event("root_switch_ack") \in Events
    BY DEF Events, Event
  <2>2. QueueTyped'
    BY <1>3, <2>1, PostIsTyped DEF RootSwitch, QueueTyped
  <2>3. BooleansTyped'
    BY <1>t, <1>3 DEF RootSwitch, BooleansTyped
  <2>4. DataTyped'
    BY <1>t, <1>3 DEF RootSwitch, DataTyped, AnyParent
  <2>5. TasksTyped'
    BY <1>t, <1>3 DEF RootSwitch, TasksTyped
  <2> QED
    BY <1>p, <2>2, <2>3, <2>4, <2>5
<1>4. ASSUME AddressAcquired PROVE TypeOK'
  <2>1. Event("got_ip") \in Events
    BY DEF Events, Event
  <2>2. QueueTyped'
    BY <1>4, <2>1, PostIsTyped DEF AddressAcquired, QueueTyped
  <2>3. BooleansTyped'
    BY <1>t, <1>4 DEF AddressAcquired, BooleansTyped
  <2>4. DataTyped'
    BY <1>t, <1>4 DEF AddressAcquired, DataTyped
  <2>5. TasksTyped'
    BY <1>t, <1>4 DEF AddressAcquired, TasksTyped
  <2> QED
    BY <1>p, <2>2, <2>3, <2>4, <2>5
<1>5. ASSUME ParentConnected PROVE TypeOK'
  <2>1. Head(events).parent \in AnyParent \cup {NoParent}
    BY <1>5, HandleIsTyped DEF ParentConnected, Events
  <2>2. QueueTyped'
    BY <1>5, HandleIsTyped DEF ParentConnected, QueueTyped
  <2>3. BooleansTyped'
    BY <1>t, <1>5 DEF ParentConnected, BooleansTyped
  <2>4. DataTyped'
    BY <1>t, <1>5, <2>1 DEF ParentConnected, DataTyped
  <2>5. TasksTyped'
    BY <1>t, <1>5 DEF ParentConnected, TasksTyped
  <2> QED
    BY <1>p, <2>2, <2>3, <2>4, <2>5
<1>6. ASSUME ParentDisconnected PROVE TypeOK'
  <2>2. QueueTyped'
    BY <1>6, HandleIsTyped DEF ParentDisconnected, QueueTyped
  <2>3. BooleansTyped'
    BY <1>t, <1>6 DEF ParentDisconnected, BooleansTyped
  <2>4. DataTyped'
    BY <1>t, <1>6 DEF ParentDisconnected, DataTyped
  <2>5. TasksTyped'
    BY <1>t, <1>6 DEF ParentDisconnected, TasksTyped
  <2> QED
    BY <1>p, <2>2, <2>3, <2>4, <2>5
<1>7. ASSUME RootSwitchAck PROVE TypeOK'
  <2>2. QueueTyped'
    BY <1>7, HandleIsTyped DEF RootSwitchAck, QueueTyped
  <2>3. BooleansTyped'
    BY <1>t, <1>7 DEF RootSwitchAck, BooleansTyped
  <2>4. DataTyped'
    BY <1>t, <1>7 DEF RootSwitchAck, DataTyped
  <2>5. TasksTyped'
    BY <1>t, <1>7 DEF RootSwitchAck, TasksTyped
  <2> QED
    BY <1>p, <2>2, <2>3, <2>4, <2>5
<1>8. ASSUME ip_event_handler PROVE TypeOK'
  <2>2. QueueTyped'
    BY <1>8, HandleIsTyped DEF ip_event_handler, QueueTyped
  <2>3. BooleansTyped'
    BY <1>t, <1>8 DEF ip_event_handler, BooleansTyped
  <2>4. DataTyped'
    BY <1>t, <1>8 DEF ip_event_handler, DataTyped
  <2>5. TasksTyped'
    BY <1>t, <1>8 DEF ip_event_handler, TasksTyped
  <2> QED
    BY <1>p, <2>2, <2>3, <2>4, <2>5
<1>9. ASSUME startDHCPC PROVE TypeOK'
  <2>1. QueueTyped'
    BY <1>t, <1>9 DEF startDHCPC, QueueTyped
  <2>2. BooleansTyped'
    BY <1>t, <1>9 DEF startDHCPC, BooleansTyped
  <2>3. DataTyped'
    BY <1>t, <1>9 DEF startDHCPC, DataTyped
  <2>4. TasksTyped'
    BY <1>t, <1>9 DEF startDHCPC, TasksTyped
  <2> QED
    BY <1>p, <2>1, <2>2, <2>3, <2>4
<1>10. ASSUME esp_start_mesh_task PROVE TypeOK'
  <2>1. QueueTyped'
    BY <1>t, <1>10 DEF esp_start_mesh_task, QueueTyped
  <2>2. BooleansTyped'
    BY <1>t, <1>10 DEF esp_start_mesh_task, BooleansTyped
  <2>3. DataTyped'
    BY <1>t, <1>10 DEF esp_start_mesh_task, DataTyped
  <2>4. TasksTyped'
    BY <1>t, <1>10 DEF esp_start_mesh_task, TasksTyped
  <2> QED
    BY <1>p, <2>1, <2>2, <2>3, <2>4
<1>11. ASSUME esp_start_bridge_task PROVE TypeOK'
  <2>1. QueueTyped'
    BY <1>t, <1>11 DEF esp_start_bridge_task, QueueTyped
  <2>2. BooleansTyped'
    BY <1>t, <1>11 DEF esp_start_bridge_task, BooleansTyped
  <2>3. DataTyped'
    BY <1>t, <1>11 DEF esp_start_bridge_task, DataTyped
  <2>4. TasksTyped'
    BY <1>t, <1>11 DEF esp_start_bridge_task, TasksTyped
  <2> QED
    BY <1>p, <2>1, <2>2, <2>3, <2>4
<1>12. ASSUME NEW t \in TaskIds, Service(t) PROVE TypeOK'
  <2> DEFINE Places == {"none", "start", "adv", "loop", "turn", "exit"}
  <2>1. \E to \in Places : service' = [service EXCEPT ![t] = to]
    BY <1>12 DEF Service, ServiceStart, SendAdv, ServiceTest, ServiceTurn, ServiceExit,
                 ServiceGoes
  <2>2. service' \in [TaskIds -> Places]
    BY <2>1 DEF TypeOK
  <2>3. /\ UNCHANGED serviceFrame
        /\ is_task_meshservice_started' \in BOOLEAN
        /\ advertised' \in AnyParent \cup {NoParent}
    BY <1>12 DEF Service, ServiceStart, SendAdv, ServiceTest, ServiceTurn, ServiceExit, TypeOK
  <2> QED
    BY <2>2, <2>3 DEF serviceFrame, TypeOK
<1>13. ASSUME NEW t \in TaskIds, Bridge(t) PROVE TypeOK'
  <2> DEFINE Places == {"none", "wait", "create", "loop", "recv", "forward", "close", "exit"}
  <2>1. \E to \in Places : bridge' = [bridge EXCEPT ![t] = to]
    BY <1>13 DEF Bridge, BridgeProgress, BridgeWait, BridgeCreate, BridgeTest, BridgeReceive,
                 BridgeReceiveFails, BridgeForward, BridgeClose, BridgeExit, BridgeGoes
  <2>2. bridge' \in [TaskIds -> Places]
    BY <2>1 DEF TypeOK
  <2>3. /\ UNCHANGED bridgeFrame
        /\ is_task_bridgeservice_started' \in BOOLEAN
        /\ udpSocket' \in {-1, 0, 1}
    BY <1>13 DEF Bridge, BridgeProgress, BridgeWait, BridgeCreate, BridgeTest, BridgeReceive,
                 BridgeReceiveFails, BridgeForward, BridgeClose, BridgeExit, TypeOK
  <2> QED
    BY <2>2, <2>3 DEF bridgeFrame, TypeOK
<1>14. CASE UNCHANGED vars
  BY <1>14 DEF vars, TypeOK
<1> QED
  BY <1>1, <1>2, <1>3, <1>4, <1>5, <1>6, <1>7, <1>8, <1>9, <1>10, <1>11, <1>12, <1>13, <1>14
     DEF Next, Stack, Handlers

\* Every step keeps the flags that lag behind the link on their way to it.
LEMMA SettleStep ==
  TypeOK /\ FlagsSettle /\ [Next]_vars => FlagsSettle'
<1> SUFFICES ASSUME TypeOK, FlagsSettle, [Next]_vars PROVE FlagsSettle'
  OBVIOUS
<1> USE DEF stackVars, flagVars, startVars, taskVars
<1>q. events \in Seq(Events)
  BY DEF TypeOK
<1>c. ConnectionSettles /\ AddressSettles /\ IpSettles
  BY DEF FlagsSettle
<1>1. ASSUME NEW p \in AnyParent, LinkUp(p) PROVE FlagsSettle'
  <2> DEFINE e == [type |-> "parent_connected", parent |-> p]
  <2>1. e \in Events /\ e.type = "parent_connected" /\ e.parent = p
    BY DEF Events
  <2> HIDE DEF e
  <2>2. /\ events' = Append(events, e)
        /\ up' /\ parent' = p /\ UNCHANGED gotSTAIP /\ ~ up
    BY <1>1 DEF LinkUp, Post, e
  <2>3. ConnectionSettles'
    <3>1. e \in RightConnections'
      BY <2>1, <2>2 DEF RightConnections
    <3> QED
      BY <1>q, <2>1, <2>2, <3>1, SettlesAppendRight DEF ConnectionSettles, ConnectionTypes
  <2>4. AddressSettles'
    <3>1. e \in RightAddresses'
      BY <2>1, <2>2 DEF RightAddresses
    <3> QED
      BY <1>q, <2>1, <2>2, <3>1, SettlesAppendRight DEF AddressSettles, AddressTypes
  <2>5. IpSettles'
    <3>1. RightIps \subseteq RightIps'
      BY <2>2 DEF RightIps
    <3>2. Settles(events, IpTypes, RightIps', (gotSTAIP => up /\ is_root)')
      BY <1>c, <2>2, <3>1, SettlesMore DEF IpSettles
    <3> QED
      BY <1>q, <2>1, <2>2, <3>2, SettlesAppendOther DEF IpSettles, IpTypes
  <2> QED
    BY <2>3, <2>4, <2>5 DEF FlagsSettle
<1>2. ASSUME LinkDown PROVE FlagsSettle'
  <2> DEFINE e == Event("parent_disconnected")
  <2>1. e \in Events /\ e.type = "parent_disconnected"
    BY DEF Events, Event
  <2> HIDE DEF e
  <2>2. /\ events' = Append(events, e)
        /\ ~ up' /\ UNCHANGED <<parent, mesh_parent_addr>>
    BY <1>2 DEF LinkDown, Post, e
  <2>3. ConnectionSettles'
    <3>1. e \in RightConnections'
      BY <2>1, <2>2 DEF RightConnections
    <3> QED
      BY <1>q, <2>1, <2>2, <3>1, SettlesAppendRight DEF ConnectionSettles, ConnectionTypes
  <2>4. AddressSettles'
    <3>1. RightAddresses' = RightAddresses
      BY <2>2 DEF RightAddresses
    <3> QED
      BY <1>q, <1>c, <2>1, <2>2, <3>1, SettlesAppendOther DEF AddressSettles, AddressTypes
  <2>5. IpSettles'
    <3>1. e \in RightIps'
      BY <2>1 DEF RightIps
    <3> QED
      BY <1>q, <2>1, <2>2, <3>1, SettlesAppendRight DEF IpSettles, IpTypes
  <2> QED
    BY <2>3, <2>4, <2>5 DEF FlagsSettle
<1>3. ASSUME RootSwitch PROVE FlagsSettle'
  <2> DEFINE e == Event("root_switch_ack")
  <2>1. e \in Events /\ e.type = "root_switch_ack"
    BY DEF Events, Event
  <2> HIDE DEF e
  <2>2. /\ events' = Append(events, e)
        /\ UNCHANGED <<up, is_mesh_connected, gotSTAIP>> /\ is_root' /\ ~ is_root
    BY <1>3 DEF RootSwitch, Post, e
  <2>3. ConnectionSettles'
    <3>1. RightConnections' = RightConnections
      BY <2>2 DEF RightConnections
    <3> QED
      BY <1>q, <1>c, <2>1, <2>2, <3>1, SettlesAppendOther
         DEF ConnectionSettles, ConnectionTypes
  <2>4. AddressSettles'
    <3>1. e \in RightAddresses'
      BY <2>1 DEF RightAddresses
    <3> QED
      BY <1>q, <2>1, <2>2, <3>1, SettlesAppendRight DEF AddressSettles, AddressTypes
  <2>5. IpSettles'
    <3>1. RightIps \subseteq RightIps'
      BY <2>2 DEF RightIps
    <3>2. Settles(events, IpTypes, RightIps', (gotSTAIP => up /\ is_root)')
      BY <1>c, <2>2, <3>1, SettlesMore DEF IpSettles
    <3> QED
      BY <1>q, <2>1, <2>2, <3>2, SettlesAppendOther DEF IpSettles, IpTypes
  <2> QED
    BY <2>3, <2>4, <2>5 DEF FlagsSettle
<1>4. ASSUME AddressAcquired PROVE FlagsSettle'
  <2> DEFINE e == Event("got_ip")
  <2>1. e \in Events /\ e.type = "got_ip"
    BY DEF Events, Event
  <2> HIDE DEF e
  <2>2. /\ events' = Append(events, e)
        /\ UNCHANGED <<up, is_root, parent, is_mesh_connected, mesh_parent_addr>>
        /\ up /\ is_root
    BY <1>4 DEF AddressAcquired, Post, e
  <2>3. ConnectionSettles'
    <3>1. RightConnections' = RightConnections
      BY <2>2 DEF RightConnections
    <3> QED
      BY <1>q, <1>c, <2>1, <2>2, <3>1, SettlesAppendOther
         DEF ConnectionSettles, ConnectionTypes
  <2>4. AddressSettles'
    <3>1. RightAddresses' = RightAddresses
      BY <2>2 DEF RightAddresses
    <3> QED
      BY <1>q, <1>c, <2>1, <2>2, <3>1, SettlesAppendOther DEF AddressSettles, AddressTypes
  <2>5. IpSettles'
    <3>1. e \in RightIps'
      BY <2>1, <2>2 DEF RightIps
    <3> QED
      BY <1>q, <2>1, <2>2, <3>1, SettlesAppendRight DEF IpSettles, IpTypes
  <2> QED
    BY <2>3, <2>4, <2>5 DEF FlagsSettle
<1>5. ASSUME NEW type, Handle(type), UNCHANGED <<up, parent, is_root>>,
             type = "parent_connected" =>
               /\ is_mesh_connected' /\ UNCHANGED gotSTAIP
               /\ mesh_parent_addr' = Head(events).parent,
             type = "parent_disconnected" =>
               ~ is_mesh_connected' /\ ~ gotSTAIP' /\ UNCHANGED mesh_parent_addr,
             type = "root_switch_ack" =>
               mesh_parent_addr' = parent /\ UNCHANGED <<is_mesh_connected, gotSTAIP>>,
             type = "got_ip" => UNCHANGED <<is_mesh_connected, mesh_parent_addr>>,
             type \in {"parent_connected", "parent_disconnected", "root_switch_ack", "got_ip"}
      PROVE  FlagsSettle'
  <2>1. /\ events' = Tail(events) /\ events # <<>>
        /\ Head(events) \in Events /\ Head(events).type = type
    BY <1>5, HandleIsTyped
  <2>2. /\ RightConnections' = RightConnections
        /\ RightAddresses' = RightAddresses
        /\ RightIps' = RightIps
    BY <1>5 DEF RightConnections, RightAddresses, RightIps
  <2>3. ConnectionSettles'
    <3> DEFINE now == is_mesh_connected <=> up
    <3>1. type \in ConnectionTypes /\ Head(events) \in RightConnections => now'
      BY <1>5, <2>1 DEF ConnectionTypes, RightConnections
    <3>2. type \notin ConnectionTypes /\ now => now'
      BY <1>5 DEF ConnectionTypes
    <3>3. Settles(events, ConnectionTypes, RightConnections, now)
      BY <1>c DEF ConnectionSettles
    <3> HIDE DEF now
    <3>4. Settles(Tail(events), ConnectionTypes, RightConnections, now')
      BY <1>q, <2>1, <3>1, <3>2, <3>3, SettlesTail
    <3> QED
      BY <2>1, <2>2, <3>4 DEF ConnectionSettles, now
  <2>4. AddressSettles'
    <3> DEFINE now == mesh_parent_addr = parent
    <3>1. type \in AddressTypes /\ Head(events) \in RightAddresses => now'
      BY <1>5, <2>1 DEF AddressTypes, RightAddresses
    <3>2. type \notin AddressTypes /\ now => now'
      BY <1>5 DEF AddressTypes
    <3>3. Settles(events, AddressTypes, RightAddresses, now)
      BY <1>c DEF AddressSettles
    <3> HIDE DEF now
    <3>4. Settles(Tail(events), AddressTypes, RightAddresses, now')
      BY <1>q, <2>1, <3>1, <3>2, <3>3, SettlesTail
    <3> QED
      BY <2>1, <2>2, <3>4 DEF AddressSettles, now
  <2>5. IpSettles'
    <3> DEFINE now == gotSTAIP => up /\ is_root
    <3>1. type \in IpTypes /\ Head(events) \in RightIps => now'
      BY <1>5, <2>1 DEF IpTypes, RightIps
    <3>2. type \notin IpTypes /\ now => now'
      BY <1>5 DEF IpTypes
    <3>3. Settles(events, IpTypes, RightIps, now)
      BY <1>c DEF IpSettles
    <3> HIDE DEF now
    <3>4. Settles(Tail(events), IpTypes, RightIps, now')
      BY <1>q, <2>1, <3>1, <3>2, <3>3, SettlesTail
    <3> QED
      BY <2>1, <2>2, <3>4 DEF IpSettles, now
  <2> QED
    BY <2>3, <2>4, <2>5 DEF FlagsSettle
<1>6. ASSUME UNCHANGED <<up, parent, is_root, events, flagVars>> PROVE FlagsSettle'
  BY <1>6, <1>c DEF FlagsSettle, ConnectionSettles, AddressSettles, IpSettles, Settles,
     RightConnections, RightAddresses, RightIps
<1>7. CASE ParentConnected
  BY <1>7, <1>5 DEF ParentConnected
<1>8. CASE ParentDisconnected
  BY <1>8, <1>5 DEF ParentDisconnected
<1>9. CASE RootSwitchAck
  BY <1>9, <1>5 DEF RootSwitchAck
<1>10. CASE ip_event_handler
  BY <1>10, <1>5 DEF ip_event_handler
<1>11. CASE startDHCPC \/ esp_start_mesh_task \/ esp_start_bridge_task
  BY <1>11, <1>6 DEF startDHCPC, esp_start_mesh_task, esp_start_bridge_task
<1>12. ASSUME NEW t \in TaskIds, Service(t) PROVE FlagsSettle'
  BY <1>12, <1>6 DEF Service, ServiceStart, SendAdv, ServiceTest, ServiceTurn, ServiceExit,
                     serviceFrame
<1>13. ASSUME NEW t \in TaskIds, Bridge(t) PROVE FlagsSettle'
  BY <1>13, <1>6 DEF Bridge, BridgeProgress, BridgeWait, BridgeCreate, BridgeTest,
     BridgeReceive, BridgeReceiveFails, BridgeForward, BridgeClose, BridgeExit, bridgeFrame
<1>14. CASE UNCHANGED vars
  BY <1>14, <1>6 DEF vars
<1> QED
  BY <1>1, <1>2, <1>3, <1>4, <1>7, <1>8, <1>9, <1>10, <1>11, <1>12, <1>13, <1>14
     DEF Next, Stack, Handlers

\* Every step keeps the started flags equal to what runs.
LEMMA TaskStep ==
  TypeOK /\ TasksMatchFlags /\ [Next]_vars => TasksMatchFlags'
<1> SUFFICES ASSUME TypeOK, TasksMatchFlags, [Next]_vars PROVE TasksMatchFlags'
  OBVIOUS
<1> USE DEF stackVars, startVars, taskVars
<1>t. /\ is_task_meshservice_started \in BOOLEAN
      /\ is_task_bridgeservice_started \in BOOLEAN
      /\ service \in [TaskIds -> {"none", "start", "adv", "loop", "turn", "exit"}]
      /\ bridge \in [TaskIds -> {"none", "wait", "create", "loop", "recv", "forward",
                                 "close", "exit"}]
  BY DEF TypeOK
<1>o. /\ OneIff(service, is_task_meshservice_started)
      /\ OneIff(bridge, is_task_bridgeservice_started)
  BY DEF TasksMatchFlags
<1>1. ASSUME UNCHANGED <<service, bridge, startVars>> PROVE TasksMatchFlags'
  BY <1>1, <1>o DEF TasksMatchFlags, OneIff
<1>2. CASE Stack
  BY <1>1, <1>2 DEF Stack, LinkUp, LinkDown, RootSwitch, AddressAcquired
<1>3. CASE ParentConnected \/ startDHCPC \/ ParentDisconnected \/ RootSwitchAck \/ ip_event_handler
  BY <1>1, <1>3 DEF ParentConnected, startDHCPC, ParentDisconnected, RootSwitchAck, ip_event_handler
<1>4. CASE esp_start_mesh_task
  <2>1. OneIff(bridge, is_task_bridgeservice_started)'
    BY <1>4, <1>o DEF esp_start_mesh_task, OneIff
  <2>2. CASE is_task_meshservice_started
    BY <1>4, <2>2, <1>1 DEF esp_start_mesh_task
  <2>3. CASE ~ is_task_meshservice_started
    <3>1. is_task_meshservice_started = FALSE /\ OneIff(service, FALSE)
      BY <1>t, <1>o, <2>3
    <3>2. /\ is_task_meshservice_started' = TRUE
          /\ \E t \in TaskIds : service' = [service EXCEPT ![t] = "start"]
      BY <1>4, <2>3 DEF esp_start_mesh_task
    <3>3. OneIff(service', TRUE)
      BY <1>t, <3>1, <3>2 DEF OneIff
    <3> QED
      BY <2>1, <3>2, <3>3 DEF TasksMatchFlags
  <2> QED
    BY <2>2, <2>3
<1>5. CASE esp_start_bridge_task
  <2>1. OneIff(service, is_task_meshservice_started)'
    BY <1>5, <1>o DEF esp_start_bridge_task, OneIff
  <2>2. CASE is_task_bridgeservice_started \/ ~ is_root
    BY <1>5, <2>2, <1>1 DEF esp_start_bridge_task
  <2>3. CASE ~ (is_task_bridgeservice_started \/ ~ is_root)
    <3>1. is_task_bridgeservice_started = FALSE /\ OneIff(bridge, FALSE)
      BY <1>t, <1>o, <2>3
    <3>2. /\ is_task_bridgeservice_started' = TRUE
          /\ \E t \in TaskIds : bridge' = [bridge EXCEPT ![t] = "wait"]
      BY <1>5, <2>3 DEF esp_start_bridge_task
    <3>3. OneIff(bridge', TRUE)
      BY <1>t, <3>1, <3>2 DEF OneIff
    <3> QED
      BY <2>1, <3>2, <3>3 DEF TasksMatchFlags
  <2> QED
    BY <2>2, <2>3
<1>6. ASSUME NEW t \in TaskIds, Service(t) PROVE TasksMatchFlags'
  <2>1. OneIff(bridge, is_task_bridgeservice_started)'
    BY <1>6, <1>o DEF Service, ServiceStart, SendAdv, ServiceTest, ServiceTurn, ServiceExit,
                      serviceFrame, OneIff
  <2>2. service[t] # "none"
    BY <1>6 DEF Service, ServiceStart, SendAdv, ServiceTest, ServiceTurn, ServiceExit, ServiceGoes
  <2>3. \/ /\ UNCHANGED is_task_meshservice_started
           /\ \E to : to # "none" /\ service' = [service EXCEPT ![t] = to]
        \/ /\ is_task_meshservice_started' = FALSE
           /\ service' = [service EXCEPT ![t] = "none"]
    BY <1>6 DEF Service, ServiceStart, SendAdv, ServiceTest, ServiceTurn, ServiceExit, ServiceGoes
  <2>4. OneIff(service', is_task_meshservice_started')
    BY <1>t, <1>o, <2>2, <2>3 DEF OneIff
  <2> QED
    BY <2>1, <2>4 DEF TasksMatchFlags
<1>7. ASSUME NEW t \in TaskIds, Bridge(t) PROVE TasksMatchFlags'
  <2>1. OneIff(service, is_task_meshservice_started)'
    BY <1>7, <1>o DEF Bridge, BridgeProgress, BridgeWait, BridgeCreate, BridgeTest, BridgeReceive,
       BridgeReceiveFails, BridgeForward, BridgeClose, BridgeExit, bridgeFrame, OneIff
  <2>2. bridge[t] # "none"
    BY <1>7 DEF Bridge, BridgeProgress, BridgeWait, BridgeCreate, BridgeTest, BridgeReceive,
       BridgeReceiveFails, BridgeForward, BridgeClose, BridgeExit, BridgeGoes
  <2>3. \/ /\ UNCHANGED is_task_bridgeservice_started
           /\ \E to : to # "none" /\ bridge' = [bridge EXCEPT ![t] = to]
        \/ /\ is_task_bridgeservice_started' = FALSE
           /\ bridge' = [bridge EXCEPT ![t] = "none"]
    BY <1>7 DEF Bridge, BridgeProgress, BridgeWait, BridgeCreate, BridgeTest, BridgeReceive,
       BridgeReceiveFails, BridgeForward, BridgeClose, BridgeExit, BridgeGoes
  <2>4. OneIff(bridge', is_task_bridgeservice_started')
    BY <1>t, <1>o, <2>2, <2>3 DEF OneIff
  <2> QED
    BY <2>1, <2>4 DEF TasksMatchFlags
<1>8. CASE UNCHANGED vars
  BY <1>8, <1>1 DEF vars
<1> QED
  BY <1>2, <1>3, <1>4, <1>5, <1>6, <1>7, <1>8 DEF Next, Handlers

\* A bridge opens the socket on its way into the loop and closes it on its way
\* out; the one that runs is the only one that touches it.
LEMMA SocketStep ==
  TypeOK /\ SocketHasOwner /\ [Next]_vars => SocketHasOwner'
<1> SUFFICES ASSUME TypeOK, SocketHasOwner, [Next]_vars PROVE SocketHasOwner'
  OBVIOUS
<1> USE DEF stackVars, startVars, taskVars
<1>t. bridge \in [TaskIds -> {"none", "wait", "create", "loop", "recv", "forward",
                              "close", "exit"}]
  BY DEF TypeOK
<1> DEFINE Owners == {"loop", "recv", "forward", "close"}
<1>1. ASSUME UNCHANGED <<udpSocket, bridge>> PROVE SocketHasOwner'
  BY <1>1 DEF SocketHasOwner
<1>2. CASE Stack
  BY <1>1, <1>2 DEF Stack, LinkUp, LinkDown, RootSwitch, AddressAcquired
<1>3. CASE Handlers /\ ~ esp_start_bridge_task
  BY <1>1, <1>3 DEF Handlers, ParentConnected, startDHCPC, esp_start_mesh_task,
                    ParentDisconnected, RootSwitchAck, ip_event_handler
\* A step of one bridge that leaves the socket alone: it may lose the socket
\* only by leaving the owners' part of the task.
<1>4. ASSUME NEW t \in TaskIds, NEW to, bridge' = [bridge EXCEPT ![t] = to],
             UNCHANGED udpSocket, bridge[t] \in Owners => to \in Owners
      PROVE  SocketHasOwner'
  BY <1>4, <1>t DEF SocketHasOwner
<1>5. CASE esp_start_bridge_task
  BY <1>5, <1>4, <1>1 DEF esp_start_bridge_task
<1>6. ASSUME NEW t \in TaskIds, Service(t) PROVE SocketHasOwner'
  BY <1>1, <1>6 DEF Service, ServiceStart, SendAdv, ServiceTest, ServiceTurn, ServiceExit,
                    serviceFrame
<1>7. ASSUME NEW t \in TaskIds, Bridge(t) PROVE SocketHasOwner'
  <2>1. CASE BridgeCreate(t)
    BY <2>1, <1>t DEF BridgeCreate, BridgeGoes, SocketHasOwner
  <2>2. CASE BridgeClose(t)
    BY <2>2, <1>t DEF BridgeClose, BridgeGoes, SocketHasOwner
  <2>3. CASE BridgeWait(t) \/ BridgeTest(t) \/ BridgeReceive(t) \/ BridgeReceiveFails(t)
             \/ BridgeForward(t) \/ BridgeExit(t)
    BY <2>3, <1>4 DEF BridgeWait, BridgeTest, BridgeReceive, BridgeReceiveFails,
       BridgeForward, BridgeExit, BridgeGoes
  <2> QED
    BY <1>7, <2>1, <2>2, <2>3 DEF Bridge, BridgeProgress
<1>8. CASE UNCHANGED vars
  BY <1>8, <1>1 DEF vars
<1> QED
  BY <1>2, <1>3, <1>5, <1>6, <1>7, <1>8 DEF Next

\* The invariant holds in every state.
LEMMA Invariant ==
  Spec => []IInv
<1>1. IInv /\ [Next]_vars => IInv'
  BY TypeStep, TaskStep, SocketStep, SettleStep DEF IInv
<1> QED
  BY <1>1, InitIInv, PTL DEF Spec
-----------------------------------------------------------------------------
(* The theorems.                                                           *)

\* The tasks stay in their programs and the queue within its bound.
THEOREM TypeCorrectness ==
  Spec => []TypeOK
<1>1. IInv => TypeOK
  BY DEF IInv
<1> QED
  BY <1>1, Invariant, PTL

\* However the board loses and regains its link, it runs at most one task of
\* each kind, and the started flags say which ones run.
THEOREM TasksAreUnique ==
  Spec => []OneTaskOfEachKind
<1>1. ASSUME NEW S, NEW task \in [TaskIds -> S], NEW started \in BOOLEAN, OneIff(task, started)
      PROVE  Cardinality(Running(task)) = IF started THEN 1 ELSE 0
  <2>1. CASE started
    <3>1. PICK t \in TaskIds : task[t] # "none" /\ \A u \in TaskIds \ {t} : task[u] = "none"
      BY <1>1, <2>1 DEF OneIff
    <3>2. Running(task) = {t}
      BY <3>1 DEF Running
    <3> QED
      BY <2>1, <3>2, FS_Singleton
  <2>2. CASE ~ started
    <3>1. Running(task) = {}
      BY <1>1, <2>2 DEF OneIff, Running
    <3> QED
      BY <2>2, <3>1, FS_EmptySet
  <2> QED
    BY <2>1, <2>2
<1>2. IInv => OneTaskOfEachKind
  BY <1>1 DEF IInv, TypeOK, TasksMatchFlags, OneTaskOfEachKind
<1> QED
  BY <1>2, Invariant, PTL

\* An open socket always has a bridge that will close it.
THEOREM SocketIsOwned ==
  Spec => []SocketHasOwner
<1>1. IInv => SocketHasOwner
  BY DEF IInv
<1> QED
  BY <1>1, Invariant, PTL

\* Once the posted events are handled the flags tell the state of the link.
THEOREM FlagsAgree ==
  Spec => []FlagsFollowLink
<1>1. IInv => FlagsFollowLink
  <2> SUFFICES ASSUME IInv, Quiet PROVE FlagsFollowLink
    BY DEF FlagsFollowLink
  <2>1. events = <<>>
    BY DEF Quiet
  <2>2. /\ Settles(<<>>, ConnectionTypes, RightConnections, is_mesh_connected <=> up)
        /\ Settles(<<>>, AddressTypes, RightAddresses, mesh_parent_addr = parent)
        /\ Settles(<<>>, IpTypes, RightIps, gotSTAIP => up /\ is_root)
    BY <2>1 DEF IInv, FlagsSettle, ConnectionSettles, AddressSettles, IpSettles
  <2>3. is_mesh_connected <=> up
    BY <2>2, SettlesEmpty
  <2>4. mesh_parent_addr = parent
    BY <2>2, SettlesEmpty
  <2>5. gotSTAIP => up /\ is_root
    BY <2>2, SettlesEmpty
  <2>6. is_mesh_connected \in BOOLEAN /\ up \in BOOLEAN
    BY DEF IInv, TypeOK
  <2> QED
    BY <2>3, <2>4, <2>5, <2>6 DEF FlagsFollowLink
<1> QED
  BY <1>1, Invariant, PTL
-----------------------------------------------------------------------------
(* The bridges make one lease of the socket after another.                 *)

lease == <<Bridges, Holders, Open>>

\* From one of these points to another of them a bridge holds the socket.
Holding == {"loop", "recv", "forward", "close"}

\* Which points lie between them, and which outside.
LEMMA OutsideHolding ==
  /\ "loop" \in Holding /\ "close" \in Holding
  /\ "none" \notin Holding /\ "wait" \notin Holding /\ "create" \notin Holding
  /\ "exit" \notin Holding
BY DEF Holding

\* Which bridges run and hold the socket when all but one are not there: what
\* it does says it all. The same once it, or a new one, has moved.
LEMMA BridgesNow ==
  ASSUME NEW t \in TaskIds, \A u \in TaskIds \ {t} : bridge[u] = "none"
  PROVE  /\ Bridges = IF bridge[t] = "none" THEN {} ELSE {t}
         /\ Holders = IF bridge[t] \in Holding THEN {t} ELSE {}
<1>1. Bridges = IF bridge[t] = "none" THEN {} ELSE {t}
  BY DEF Bridges, Running
<1>2. Holders = IF bridge[t] \in Holding THEN {t} ELSE {}
  BY DEF Holders, Holding
<1> QED
  BY <1>1, <1>2

LEMMA BridgesNext ==
  ASSUME NEW t \in TaskIds, \A u \in TaskIds \ {t} : bridge'[u] = "none"
  PROVE  /\ Bridges' = IF bridge'[t] = "none" THEN {} ELSE {t}
         /\ Holders' = IF bridge'[t] \in Holding THEN {t} ELSE {}
<1>1. Bridges' = IF bridge'[t] = "none" THEN {} ELSE {t}
  BY DEF Bridges, Running
<1>2. Holders' = IF bridge'[t] \in Holding THEN {t} ELSE {}
  BY DEF Holders, Holding
<1> QED
  BY <1>1, <1>2

\* Every step of the board is a step of the lease, or none.
LEMMA LeaseStep ==
  ASSUME TypeOK, TasksMatchFlags, SocketHasOwner, [Next]_vars
  PROVE  [Lease!Next]_lease
<1> USE DEF stackVars, startVars, taskVars
<1>t. bridge \in [TaskIds -> {"none", "wait", "create", "loop", "recv", "forward",
                              "close", "exit"}]
  BY DEF TypeOK
<1>1. ASSUME UNCHANGED <<udpSocket, bridge>> PROVE UNCHANGED lease
  BY <1>1 DEF lease, Bridges, Running, Holders, Open
<1>2. CASE Stack
  BY <1>1, <1>2 DEF Stack, LinkUp, LinkDown, RootSwitch, AddressAcquired
<1>3. CASE Handlers /\ ~ esp_start_bridge_task
  BY <1>1, <1>3 DEF Handlers, ParentConnected, startDHCPC, esp_start_mesh_task,
                    ParentDisconnected, RootSwitchAck, ip_event_handler
<1>4. CASE esp_start_bridge_task
  <2>1. CASE is_task_bridgeservice_started \/ ~ is_root
    BY <1>1, <1>4, <2>1 DEF esp_start_bridge_task
  <2>2. CASE ~ (is_task_bridgeservice_started \/ ~ is_root)
    <3>1. PICK t \in TaskIds : bridge' = [bridge EXCEPT ![t] = "wait"]
      BY <1>4, <2>2 DEF esp_start_bridge_task
    <3>2. (\A u \in TaskIds : bridge[u] = "none") /\ UNCHANGED udpSocket
      BY <1>4, <2>2 DEF esp_start_bridge_task, TasksMatchFlags, OneIff
    <3>3. bridge'[t] = "wait" /\ \A u \in TaskIds \ {t} : bridge'[u] = "none"
      BY <1>t, <3>1, <3>2
    <3>4. Bridges = {} /\ Holders = {}
      BY <3>2, BridgesNow, OutsideHolding
    <3>5. Bridges' = {t} /\ Holders' = {}
      BY <3>3, BridgesNext, OutsideHolding
    <3>6. ~ Open /\ UNCHANGED Open
      BY <3>2 DEF SocketHasOwner, Open
    <3>7. Lease!Enter(t)
      BY <3>4, <3>5, <3>6, Zenon DEF Lease!Enter
    <3> QED
      BY <3>7 DEF Lease!Next
  <2> QED
    BY <2>1, <2>2
<1>5. ASSUME NEW t \in TaskIds, Service(t) PROVE [Lease!Next]_lease
  BY <1>1, <1>5 DEF Service, ServiceStart, SendAdv, ServiceTest, ServiceTurn, ServiceExit,
                    serviceFrame
<1>6. ASSUME NEW t \in TaskIds, Bridge(t) PROVE [Lease!Next]_lease
  <2> DEFINE OthersGone == \A u \in TaskIds \ {t} : bridge[u] = "none"
  <2>1. bridge[t] # "none"
    BY <1>6 DEF Bridge, BridgeProgress, BridgeWait, BridgeCreate, BridgeTest, BridgeReceive,
       BridgeReceiveFails, BridgeForward, BridgeClose, BridgeExit, BridgeGoes
  <2>2. \A u \in TaskIds \ {t} : bridge[u] = "none"
    BY <2>1 DEF TasksMatchFlags, OneIff
  <2>3. udpSocket = 1 => bridge[t] \in {"loop", "recv", "forward", "close"}
    BY <2>2 DEF SocketHasOwner
  <2>4. CASE BridgeCreate(t)
    <3>1. bridge[t] = "create" /\ bridge'[t] = "loop" /\ OthersGone'
      BY <1>t, <2>2, <2>4 DEF BridgeCreate, BridgeGoes
    <3>2. Bridges = {t} /\ Bridges' = {t} /\ Holders = {} /\ Holders' = {t}
      BY <2>2, <3>1, BridgesNow, BridgesNext, OutsideHolding
    <3>3. udpSocket # 1
      BY <2>3, <3>1
    <3>4. Lease!Take(t)
      BY <3>2, <3>3 DEF Lease!Take, Open
    <3> QED
      BY <3>4 DEF Lease!Next
  <2>5. CASE BridgeClose(t)
    <3>1. bridge[t] = "close" /\ bridge'[t] = "exit" /\ OthersGone'
      BY <1>t, <2>2, <2>5 DEF BridgeClose, BridgeGoes
    <3>2. Bridges = {t} /\ Bridges' = {t} /\ Holders = {t} /\ Holders' = {}
      BY <2>2, <3>1, BridgesNow, BridgesNext, OutsideHolding
    <3>3. Open' = FALSE
      BY <2>5 DEF BridgeClose, Open
    <3>4. Lease!GiveBack(t)
      BY <3>2, <3>3, Zenon DEF Lease!GiveBack
    <3> QED
      BY <3>4 DEF Lease!Next
  <2>6. CASE BridgeExit(t)
    <3>1. bridge[t] = "exit" /\ bridge'[t] = "none" /\ OthersGone'
      BY <1>t, <2>2, <2>6 DEF BridgeExit, BridgeGoes
    <3>2. Bridges = {t} /\ Bridges' = {} /\ Holders = {} /\ Holders' = {}
      BY <2>2, <3>1, BridgesNow, BridgesNext, OutsideHolding
    <3>3. ~ Open /\ UNCHANGED Open
      BY <2>3, <2>6, <3>1 DEF Open, BridgeExit
    <3>4. Lease!Leave(t)
      BY <3>2, <3>3, Zenon DEF Lease!Leave
    <3> QED
      BY <3>4 DEF Lease!Next
  <2>7. CASE BridgeWait(t)
    <3>1. bridge[t] = "wait" /\ bridge'[t] = "create" /\ OthersGone'
      BY <1>t, <2>2, <2>7 DEF BridgeWait, BridgeGoes
    <3>2. Bridges = {t} /\ Bridges' = {t} /\ Holders = {} /\ Holders' = {}
      BY <2>2, <3>1, BridgesNow, BridgesNext, OutsideHolding
    <3> QED
      BY <2>7, <3>2 DEF lease, Open, BridgeWait
  <2>8. CASE BridgeTest(t) \/ BridgeReceive(t) \/ BridgeReceiveFails(t) \/ BridgeForward(t)
    <3>1. UNCHANGED udpSocket /\ bridge[t] \in {"loop", "recv", "forward"}
      BY <2>8 DEF BridgeTest, BridgeReceive, BridgeReceiveFails, BridgeForward, BridgeGoes
    <3>2. bridge'[t] \in {"loop", "recv", "forward", "close"} /\ OthersGone'
      BY <1>t, <2>2, <2>8
      DEF BridgeTest, BridgeReceive, BridgeReceiveFails, BridgeForward, BridgeGoes
    <3>3. Bridges = {t} /\ Bridges' = {t} /\ Holders = {t} /\ Holders' = {t}
      BY <2>2, <3>1, <3>2, BridgesNow, BridgesNext DEF Holding
    <3> QED
      BY <3>1, <3>3 DEF lease, Open
  <2> QED
    BY <1>6, <2>4, <2>5, <2>6, <2>7, <2>8 DEF Bridge, BridgeProgress
<1>7. CASE UNCHANGED vars
  BY <1>1, <1>7 DEF vars
<1> QED
  BY <1>2, <1>3, <1>4, <1>5, <1>6, <1>7 DEF Next

\* However the link comes and goes, and whatever fails, the bridges take the
\* socket one after the other and leave it closed (mesh_main.c:387-510).
THEOREM BoardImplementsLease ==
  Spec => ImplementsLease
<1>1. Init => Lease!Init
  BY DEF Init, Lease!Init, Bridges, Running, Holders, Open
<1>2. IInv /\ [Next]_vars => [Lease!Next]_lease
  BY LeaseStep DEF IInv
<1> QED
  BY <1>1, <1>2, Invariant, PTL DEF Spec, ImplementsLease, Lease!Spec, lease
=============================================================================
