---------------------------- MODULE NodeLifecycle ----------------------------
(***************************************************************************)
(* How a board starts and stops its two tasks as its link to the mesh      *)
(* comes and goes: the flags of mesh_main.c, the handlers of mesh and IP   *)
(* events that set them, the mesh service task and the bridge task that    *)
(* poll them, and the UDP socket the two tasks share.                      *)
(*                                                                         *)
(* The mesh stack changes the link and posts an event; the event task      *)
(* handles the events one by one, some time later.  No flag is protected   *)
(* by a lock: a handler sets one and goes on to test another, while the    *)
(* tasks test and set the same flags on the other core.                    *)
(***************************************************************************)
EXTENDS Integers, Sequences, FiniteSets

CONSTANTS
  Parents,     \* the access points of other boards that may be the parent
  Router,      \* the Wi-Fi router, the parent of the root
  NoParent,    \* mesh_parent_addr before the first connection
  TaskIds,     \* task handles, to tell apart tasks that run at the same time
  MaxQueue     \* bound: events posted and not yet handled

ASSUME NodeLifecycleAssumption ==
  /\ Router \notin Parents
  /\ NoParent \notin Parents \cup {Router}
  /\ MaxQueue \in Nat \ {0}

VARIABLES
  \* The mesh stack.
  up,              \* there is a link to a parent
  parent,          \* whose it is
  is_root,         \* esp_mesh_is_root()
  dhcp,            \* the DHCP client of the station interface runs
  events,          \* posted events
  \* The event task and the flags.
  handler,         \* what the handler at work does next
  is_mesh_connected, gotSTAIP,
  is_task_meshservice_started, is_task_bridgeservice_started,
  mesh_parent_addr,
  udpSocket,       \* 0 before createSocket and after closeSocket, -1 if it failed
  \* The tasks.
  service,         \* where each mesh service task is
  bridge,          \* where each bridge task is
  advertised       \* the parent an ADV was sent to since the link came up

stackVars  == <<up, parent, is_root, dhcp>>
flagVars   == <<is_mesh_connected, gotSTAIP, mesh_parent_addr>>
startVars  == <<is_task_meshservice_started, is_task_bridgeservice_started>>
taskVars   == <<service, bridge>>
vars == <<stackVars, events, handler, flagVars, startVars, udpSocket, taskVars,
          advertised>>

AnyParent == Parents \cup {Router}

Events == [type : {"parent_connected"}, parent : AnyParent] \cup
          [type : {"parent_disconnected", "root_switch_ack", "got_ip"},
           parent : {NoParent}]

TypeOK ==
  /\ up \in BOOLEAN
  /\ parent \in AnyParent \cup {NoParent}
  /\ is_root \in BOOLEAN
  /\ dhcp \in BOOLEAN
  /\ events \in Seq(Events) /\ Len(events) <= MaxQueue
  /\ handler \in {"idle", "dhcp", "start_mesh_task", "start_bridge_task"}
  /\ is_mesh_connected \in BOOLEAN
  /\ gotSTAIP \in BOOLEAN
  /\ is_task_meshservice_started \in BOOLEAN
  /\ is_task_bridgeservice_started \in BOOLEAN
  /\ mesh_parent_addr \in AnyParent \cup {NoParent}
  /\ udpSocket \in {-1, 0, 1}
  /\ service \in [TaskIds -> {"none", "start", "adv", "loop", "turn", "exit"}]
  /\ bridge \in [TaskIds -> {"none", "wait", "create", "loop", "recv", "forward",
                             "close", "exit"}]
  /\ advertised \in AnyParent \cup {NoParent}

\* app_main has started the mesh: MESH_EVENT_STARTED has cleared the flags.
Init ==
  /\ up = FALSE
  /\ parent = NoParent
  /\ is_root = FALSE
  /\ dhcp = FALSE
  /\ events = <<>>
  /\ handler = "idle"
  /\ is_mesh_connected = FALSE
  /\ gotSTAIP = FALSE
  /\ is_task_meshservice_started = FALSE
  /\ is_task_bridgeservice_started = FALSE
  /\ mesh_parent_addr = NoParent
  /\ udpSocket = 0
  /\ service = [t \in TaskIds |-> "none"]
  /\ bridge = [t \in TaskIds |-> "none"]
  /\ advertised = NoParent
-----------------------------------------------------------------------------
(* The mesh stack (not the repository's code).                             *)

Event(type) == [type |-> type, parent |-> NoParent]

Post(event) == Len(events) < MaxQueue /\ events' = Append(events, event)

LinkUp(p) ==
  /\ ~ up
  /\ up' = TRUE
  /\ parent' = p
  /\ is_root' = (p = Router)
  /\ advertised' = NoParent
  /\ Post([type |-> "parent_connected", parent |-> p])
  /\ UNCHANGED <<dhcp, handler, flagVars, startVars, udpSocket, taskVars>>

LinkDown ==
  /\ up
  /\ up' = FALSE
  /\ Post(Event("parent_disconnected"))
  /\ UNCHANGED <<parent, is_root, dhcp, handler, flagVars, startVars, udpSocket,
                 taskVars, advertised>>

\* A board that takes over from the root gets the router for a parent
\* without losing its link.
RootSwitch ==
  /\ up
  /\ ~ is_root
  /\ parent' = Router
  /\ is_root' = TRUE
  /\ Post(Event("root_switch_ack"))
  /\ UNCHANGED <<up, dhcp, handler, flagVars, startVars, udpSocket, taskVars,
                 advertised>>

AddressAcquired ==
  /\ up
  /\ is_root
  /\ dhcp
  /\ Post(Event("got_ip"))
  /\ UNCHANGED <<stackVars, handler, flagVars, startVars, udpSocket, taskVars,
                 advertised>>

Stack == (\E p \in AnyParent : LinkUp(p)) \/ LinkDown \/ RootSwitch \/ AddressAcquired
-----------------------------------------------------------------------------
(* The event task: mesh_event_handler and ip_event_handler.                *)

Handle(type) ==
  /\ handler = "idle"
  /\ events # <<>>
  /\ Head(events).type = type
  /\ events' = Tail(events)

ParentConnected ==
  /\ Handle("parent_connected")
  /\ mesh_parent_addr' = Head(events).parent
  /\ is_mesh_connected' = TRUE
  /\ handler' = "dhcp"
  /\ UNCHANGED <<stackVars, gotSTAIP, startVars, udpSocket, taskVars, advertised>>

startDHCPC ==
  /\ handler = "dhcp"
  /\ dhcp' = (dhcp \/ is_root)
  /\ handler' = "start_mesh_task"
  /\ UNCHANGED <<up, parent, is_root, events, flagVars, startVars, udpSocket,
                 taskVars, advertised>>

\* While the flag is set only the task itself clears it: test and set are
\* one step.
esp_start_mesh_task ==
  /\ handler = "start_mesh_task"
  /\ handler' = "idle"
  /\ IF is_task_meshservice_started
     THEN UNCHANGED <<is_task_meshservice_started, service>>
     ELSE /\ is_task_meshservice_started' = TRUE
          /\ \E t \in TaskIds : /\ service[t] = "none"
                                /\ service' = [service EXCEPT ![t] = "start"]
  /\ UNCHANGED <<stackVars, events, flagVars, is_task_bridgeservice_started,
                 udpSocket, bridge, advertised>>

\* Mutants: the address, or the connection, is not given up.
ParentDisconnectedKeepsAddress ==
  /\ Handle("parent_disconnected")
  /\ is_mesh_connected' = FALSE
  /\ UNCHANGED <<stackVars, handler, gotSTAIP, mesh_parent_addr, startVars,
                 udpSocket, taskVars, advertised>>

ParentDisconnectedStaysConnected ==
  /\ Handle("parent_disconnected")
  /\ gotSTAIP' = FALSE
  /\ UNCHANGED <<stackVars, handler, is_mesh_connected, mesh_parent_addr,
                 startVars, udpSocket, taskVars, advertised>>

\* MESH_EVENT_STOPPED does the same, but nothing ever stops the mesh.
ParentDisconnected ==
  /\ Handle("parent_disconnected")
  /\ is_mesh_connected' = FALSE
  /\ gotSTAIP' = FALSE
  /\ UNCHANGED <<stackVars, handler, mesh_parent_addr, startVars, udpSocket,
                 taskVars, advertised>>

RootSwitchAck ==
  /\ Handle("root_switch_ack")
  /\ mesh_parent_addr' = parent
  /\ UNCHANGED <<stackVars, handler, is_mesh_connected, gotSTAIP, startVars,
                 udpSocket, taskVars, advertised>>

ip_event_handler ==
  /\ Handle("got_ip")
  /\ gotSTAIP' = TRUE
  /\ handler' = "start_bridge_task"
  /\ UNCHANGED <<stackVars, is_mesh_connected, mesh_parent_addr, startVars,
                 udpSocket, taskVars, advertised>>

esp_start_bridge_task ==
  /\ handler = "start_bridge_task"
  /\ handler' = "idle"
  /\ IF is_task_bridgeservice_started \/ ~ is_root
     THEN UNCHANGED <<is_task_bridgeservice_started, bridge>>
     ELSE /\ is_task_bridgeservice_started' = TRUE
          /\ \E t \in TaskIds : /\ bridge[t] = "none"
                                /\ bridge' = [bridge EXCEPT ![t] = "wait"]
  /\ UNCHANGED <<stackVars, events, flagVars, is_task_meshservice_started,
                 udpSocket, service, advertised>>

Handlers ==
  \/ ParentConnected \/ startDHCPC \/ esp_start_mesh_task
  \/ ParentDisconnected \/ RootSwitchAck
  \/ ip_event_handler \/ esp_start_bridge_task
-----------------------------------------------------------------------------
(* The mesh service task.                                                  *)

ServiceGoes(t, from, to) ==
  /\ service[t] = from
  /\ service' = [service EXCEPT ![t] = to]

serviceFrame == <<stackVars, events, handler, flagVars,
                  is_task_bridgeservice_started, udpSocket, bridge>>

\* An ADV is sent once in the life of the task, and not by the root.
ServiceStart(t) ==
  /\ ServiceGoes(t, "start", IF is_mesh_connected /\ ~ is_root THEN "adv" ELSE "loop")
  /\ UNCHANGED <<serviceFrame, is_task_meshservice_started, advertised>>

\* createAdvFrame and the send, whose failure is only logged.
SendAdv(t) ==
  /\ ServiceGoes(t, "adv", "loop")
  /\ advertised' = mesh_parent_addr
  /\ UNCHANGED <<serviceFrame, is_task_meshservice_started>>

\* Mutant: the started flag is cleared on the way out of the loop.
ServiceTestClearsStarted(t) ==
  /\ ServiceGoes(t, "loop", IF is_mesh_connected THEN "turn" ELSE "exit")
  /\ is_task_meshservice_started' = is_mesh_connected
  /\ UNCHANGED <<serviceFrame, advertised>>

ServiceTest(t) ==
  /\ ServiceGoes(t, "loop", IF is_mesh_connected THEN "turn" ELSE "exit")
  /\ UNCHANGED <<serviceFrame, is_task_meshservice_started, advertised>>

\* A turn of the loop up to its vTaskDelay (see SensorNode).
ServiceTurn(t) ==
  /\ ServiceGoes(t, "turn", "loop")
  /\ UNCHANGED <<serviceFrame, is_task_meshservice_started, advertised>>

\* Mutant: the task returns from its function instead of deleting itself.
ServiceExitReturns(t) ==
  /\ ServiceGoes(t, "exit", "returned")
  /\ is_task_meshservice_started' = FALSE
  /\ UNCHANGED <<serviceFrame, advertised>>

ServiceExit(t) ==
  /\ ServiceGoes(t, "exit", "none")
  /\ is_task_meshservice_started' = FALSE
  /\ UNCHANGED <<serviceFrame, advertised>>

Service(t) ==
  ServiceStart(t) \/ SendAdv(t) \/ ServiceTest(t) \/ ServiceTurn(t) \/ ServiceExit(t)
-----------------------------------------------------------------------------
(* The bridge task.                                                        *)

BridgeGoes(t, from, to) ==
  /\ bridge[t] = from
  /\ bridge' = [bridge EXCEPT ![t] = to]

bridgeFrame == <<stackVars, events, handler, flagVars,
                 is_task_meshservice_started, service, advertised>>

\* A turn of the loop that waits for an address.
BridgeWait(t) ==
  /\ ~ (is_root /\ ~ gotSTAIP)
  /\ BridgeGoes(t, "wait", "create")
  /\ UNCHANGED <<bridgeFrame, is_task_bridgeservice_started, udpSocket>>

\* createSocket (which may fail) and bindSocket.
BridgeCreate(t) ==
  /\ BridgeGoes(t, "create", "loop")
  /\ IF is_root THEN udpSocket' \in {1, -1} ELSE UNCHANGED udpSocket
  /\ UNCHANGED <<bridgeFrame, is_task_bridgeservice_started>>

BridgeTest(t) ==
  /\ BridgeGoes(t, "loop", IF gotSTAIP /\ is_root THEN "recv" ELSE "close")
  /\ UNCHANGED <<bridgeFrame, is_task_bridgeservice_started, udpSocket>>

\* receiveUDP returns a datagram: a valid TIME frame, or anything else.
BridgeReceive(t) ==
  /\ udpSocket = 1
  /\ BridgeGoes(t, "recv", "forward") \/ BridgeGoes(t, "recv", "loop")
  /\ UNCHANGED <<bridgeFrame, is_task_bridgeservice_started, udpSocket>>

\* receiveUDP fails: "EOF server", and out of the loop.
BridgeReceiveFails(t) ==
  /\ BridgeGoes(t, "recv", "close")
  /\ UNCHANGED <<bridgeFrame, is_task_bridgeservice_started, udpSocket>>

\* The time is set and the frame goes to every board of the routing table.
BridgeForward(t) ==
  /\ BridgeGoes(t, "forward", "loop")
  /\ UNCHANGED <<bridgeFrame, is_task_bridgeservice_started, udpSocket>>

\* Mutants: the started flag is cleared with the close, before the task ends; the
\* socket is left open.
BridgeCloseClearsStarted(t) ==
  /\ BridgeGoes(t, "close", "exit")
  /\ udpSocket' = IF udpSocket = 1 THEN 0 ELSE udpSocket
  /\ is_task_bridgeservice_started' = FALSE
  /\ UNCHANGED bridgeFrame

BridgeCloseLeavesSocket(t) ==
  /\ BridgeGoes(t, "close", "exit")
  /\ UNCHANGED <<bridgeFrame, udpSocket, is_task_bridgeservice_started>>

BridgeClose(t) ==
  /\ BridgeGoes(t, "close", "exit")
  /\ udpSocket' = IF udpSocket = 1 THEN 0 ELSE udpSocket
  /\ UNCHANGED <<bridgeFrame, is_task_bridgeservice_started>>

BridgeExit(t) ==
  /\ BridgeGoes(t, "exit", "none")
  /\ is_task_bridgeservice_started' = FALSE
  /\ UNCHANGED <<bridgeFrame, udpSocket>>

\* Everything but a datagram or an error that need not come.
BridgeProgress(t) ==
  \/ BridgeWait(t) \/ BridgeCreate(t) \/ BridgeTest(t)
  \/ udpSocket # 1 /\ BridgeReceiveFails(t)
  \/ BridgeForward(t) \/ BridgeClose(t) \/ BridgeExit(t)

Bridge(t) == BridgeProgress(t) \/ BridgeReceive(t) \/ BridgeReceiveFails(t)
-----------------------------------------------------------------------------
Next == Stack \/ Handlers \/ \E t \in TaskIds : Service(t) \/ Bridge(t)

Spec == Init /\ [][Next]_vars

\* The scheduler runs every task that is ready; nothing is assumed of the
\* stack, nor that a datagram ever comes.
Fairness ==
  /\ WF_vars(Handlers)
  /\ \A t \in TaskIds : WF_vars(Service(t)) /\ WF_vars(BridgeProgress(t))

FairSpec == Spec /\ Fairness
-----------------------------------------------------------------------------
(* Safety                                                                  *)

Running(task) == {t \in TaskIds : task[t] # "none"}

\* The tasks keep their frames in static buffers (task_meshservice_rx_buf and
\* the others): no reconnection, however fast, ever starts a second task of a
\* kind while the first still runs, and the flags say which tasks run.
OneTaskOfEachKind ==
  /\ Cardinality(Running(service)) = IF is_task_meshservice_started THEN 1 ELSE 0
  /\ Cardinality(Running(bridge)) = IF is_task_bridgeservice_started THEN 1 ELSE 0

\* The socket is the bridge task's: it is open only while that task is
\* between createSocket and closeSocket, so none is left open.
SocketHasOwner ==
  udpSocket = 1 => \E t \in TaskIds : bridge[t] \in {"loop", "recv", "forward", "close"}

Bridges == Running(bridge)
Holders == {t \in TaskIds : bridge[t] \in {"loop", "recv", "forward", "close"}}
Open    == udpSocket = 1

Lease == INSTANCE SocketLease WITH
  Tasks <- TaskIds, users <- Bridges, holders <- Holders, open <- Open

\* The flag that starts bridges, the address they wait for and the socket they
\* share (mesh_main.c:387-510) make one lease after another: no bridge starts
\* before the last one has closed its socket and gone, none opens the socket
\* over an open one, and none takes the socket away from another.
ImplementsLease == Lease!Spec

\* Once the posted events are handled the flags tell the state of the link:
\* in particular no address survives a lost link.
Quiet == events = <<>> /\ handler = "idle"

FlagsFollowLink ==
  Quiet => /\ is_mesh_connected = up
           /\ up => mesh_parent_addr = parent
           /\ gotSTAIP => up /\ is_root
-----------------------------------------------------------------------------
(* Liveness                                                                *)

\* A link that is lost for good ends the mesh service task.
ServiceEndsWithoutLink ==
  <>[](Quiet /\ ~ up) => <>[](Running(service) = {})

\* And it ends every bridge and closes the socket, so that the next address can
\* start another, wherever the bridge was when its flags changed: all but one
\* that waits for an address as a root (mesh_main.c:392), or that got into
\* receiveUDP, which has no timeout, before it was told (mesh_main.c:406).
BridgeEndsWithoutLink ==
  <>[](Quiet /\ ~ up) =>
    <>[](\/ Running(bridge) = {} /\ udpSocket # 1
         \/ \E t \in TaskIds :
              /\ Running(bridge) = {t}
              /\ \/ bridge[t] = "wait" /\ is_root
                 \/ bridge[t] = "recv" /\ udpSocket = 1)
-----------------------------------------------------------------------------
(* What the comments and the docs say, and the code does not do.           *)

\* mesh_main.c:225 "Invio pacchetto adv al padre solo se non sono root": a
\* board in its loop has sent an ADV to the parent it has, unless it is root.
ParentKnowsChild ==
  \A t \in TaskIds :
    Quiet /\ up /\ ~ is_root /\ service[t] \in {"loop", "turn"} =>
      advertised = parent

\* firmware/README.md:15-17 "root send and receive", "other nodes receive": a
\* board whose link stays up has its mesh service task running.
ConnectedBoardReceives ==
  <>[](Quiet /\ up) => <>[](Running(service) # {})

\* README.md:6, the cluster head and the gateway talk UDP: a root that keeps
\* its address keeps a socket.
RootKeepsSocket ==
  <>[](Quiet /\ gotSTAIP) => <>[](Running(bridge) # {})
=============================================================================
