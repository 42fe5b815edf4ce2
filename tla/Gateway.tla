------------------------------ MODULE Gateway ------------------------------
(***************************************************************************)
(* The UDP exchange of the mesh's root with the server.  The root sends    *)
(* SENSOR frames over a network that loses, duplicates and reorders        *)
(* datagrams; the board that is the root changes, and its bridge task, who *)
(* has the socket, may end while it is the root.  The server is one        *)
(* of three programs, which share their loop up to the frame type:         *)
(*                                                                         *)
(*   - udpserver answers more than TIME_TICKS frames with one TIME frame,  *)
(*     sent to the address its last datagram came from;                    *)
(*   - azureserver also hands every frame to the queue of an Azure IoT     *)
(*     hub, and serves that queue once in every turn of its loop;          *)
(*   - benchserver answers nothing and reports rates instead.              *)
(*                                                                         *)
(* The loop has one receive buffer, which it converts to host byte order   *)
(* in place.  It reads that buffer again when receiveUDP fails, because    *)
(* the result -1 is compared with a size_t.                                *)
(***************************************************************************)
EXTENDS Integers

CONSTANTS
  Boards,       \* the boards that may be the root, each with a socket of its
                \* own: one with a new socket has a new port, and is another
  Stranger,     \* a sender without the key
  Nobody,       \* cliaddr before the first datagram
  TIME_TICKS,   \* also the bound on what benchserver counts before it reports
  Times,        \* what gettimeofday may return: seconds and microseconds
  MILLION,      \* microseconds in a second
  MaxWaiting,   \* bound: messages in the queue of the hub, or more
  MaxCopies     \* bound: datagrams in flight between a board and the server

ASSUME GatewayAssumption ==
  /\ Boards # {}
  /\ Stranger \notin Boards
  /\ Nobody \notin Boards \cup {Stranger}
  /\ TIME_TICKS \in Nat
  /\ MILLION \in Nat
  /\ Times # {} /\ Times \subseteq [sec : Nat, usec : 0 .. MILLION - 1]
  /\ MaxWaiting \in Nat \ {0}
  /\ MaxCopies \in Nat \ {0}

VARIABLES
  root,         \* the board that is the root now, or was last
  bridge,       \* its bridge task: "runs" with an open socket, or "ended"
  clock,        \* the root's clock: "set" by a TIME frame, "drifted" later
  sensorFrames, \* SENSOR datagrams on their way, by the board that sent them
  timeFrames,   \* TIME datagrams on their way, by the board they are for
  program,      \* which of the three programs the server is
  sockfd,       \* the server's socket, -1 if it could not be created
  server,       \* where the server is in its loop
  n,            \* the result of receiveUDP
  bufferrx,     \* what the buffer holds
  cliaddr,
  ticks,
  waiting,      \* azureserver: messages handed to the hub and not confirmed
  tv, tv_start, \* benchserver: the last receive, the last report
  heard,        \* history: SENSOR datagrams received since the last TIME or report
  heardFrom     \* history: who sent the last of them

boardVars   == <<root, bridge, clock>>
netVars     == <<sensorFrames, timeFrames>>
historyVars == <<heard, heardFrom>>
hostVars    == <<program, sockfd>>
timeVars    == <<tv, tv_start>>
serverVars  == <<hostVars, server, n, bufferrx, cliaddr, ticks, waiting, timeVars>>
vars == <<boardVars, netVars, serverVars, historyVars>>

NoTime == CHOOSE t \in Times : TRUE

Programs == {"udpserver", "azureserver", "benchserver"}

\* The results of receiveUDP: an error, fewer bytes than a frame, a frame.
ERROR == -1
SHORT == 0
FRAME == 1

\* n >= sizeof(app_frame_hmac_t), an unsigned comparison.
LongEnough(len) == len # SHORT

\* A buffer is a valid SENSOR frame as it was sent, or the HMAC does not
\* match it: noise, or a frame whose header is no longer in network order.
Contents == {"SENSOR", "mismatch"}

TypeOK ==
  /\ root \in Boards
  /\ bridge \in {"runs", "ended"}
  /\ clock \in {"set", "drifted"}
  /\ sensorFrames \in [Boards -> 0 .. MaxCopies]
  /\ timeFrames \in [Boards -> 0 .. MaxCopies]
  /\ program \in Programs
  /\ sockfd \in {-1, 3}
  /\ server \in {"receive", "parse", "answer", "work"}
  /\ n \in {ERROR, SHORT, FRAME}
  /\ bufferrx \in Contents
  /\ cliaddr \in Boards \cup {Stranger, Nobody}
  /\ ticks \in 0 .. TIME_TICKS + 1
  /\ waiting \in 0 .. MaxWaiting
  /\ tv \in Times /\ tv_start \in Times
  /\ heard \in Nat
  /\ heardFrom \in Boards \cup {Nobody}

\* azureserver: without a handle of the hub the program ends at once.
InitHub == waiting = 0

\* benchserver: the time of its start.
InitTimes ==
  /\ tv_start \in Times /\ tv = tv_start
  /\ program # "benchserver" => tv_start = NoTime

Init ==
  /\ root \in Boards
  /\ bridge = "ended"
  /\ clock = "drifted"
  /\ sensorFrames = [b \in Boards |-> 0]
  /\ timeFrames = [b \in Boards |-> 0]
  /\ program \in Programs
  /\ sockfd \in {-1, 3}
  /\ server = "receive"
  /\ n = ERROR
  /\ bufferrx = "mismatch"
  /\ cliaddr = Nobody
  /\ ticks = 0
  /\ InitHub
  /\ InitTimes
  /\ heard = 0
  /\ heardFrom = Nobody
-----------------------------------------------------------------------------
(* The network (not the repository's code).                                *)

\* A datagram is put on its way, perhaps twice.
Put(frames, b, frames2) ==
  \E copies \in {1, 2} :
    frames2 = [frames EXCEPT ![b] = IF @ + copies < MaxCopies THEN @ + copies
                                                              ELSE MaxCopies]

Take(frames, b) == [frames EXCEPT ![b] = @ - 1]

Lose(b) ==
  /\ \/ /\ sensorFrames[b] > 0
        /\ sensorFrames' = Take(sensorFrames, b)
        /\ UNCHANGED timeFrames
     \/ /\ timeFrames[b] > 0
        /\ timeFrames' = Take(timeFrames, b)
        /\ UNCHANGED sensorFrames
  /\ UNCHANGED <<boardVars, serverVars, historyVars>>
-----------------------------------------------------------------------------
(* The root.                                                               *)

\* A root gets an address, its first or a new one, and no bridge runs: one is
\* started and opens the socket.
BridgeStarts(b) ==
  /\ bridge = "ended"
  /\ bridge' = "runs"
  /\ root' = b
  /\ clock' = "drifted"
  /\ UNCHANGED <<netVars, serverVars, historyVars>>

\* Out of the loop with a receive that failed, or because the board is not the
\* root or has no address any more.  What is on its way to it can only be lost.
BridgeEnds ==
  /\ bridge = "runs"
  /\ bridge' = "ended"
  /\ UNCHANGED <<root, clock, netVars, serverVars, historyVars>>

ClockDrifts ==
  /\ clock' = "drifted"
  /\ UNCHANGED <<root, bridge, netVars, serverVars, historyVars>>

\* An aggregate or a frame passed on.  A sendUDP that fails is a datagram that
\* the network loses; without a socket it sends none.
SendSensor ==
  /\ bridge = "runs"
  /\ Put(sensorFrames, root, sensorFrames')
  /\ UNCHANGED <<boardVars, timeFrames, serverVars, historyVars>>

\* The bridge task takes the TIME.
ReceiveTime ==
  /\ bridge = "runs"
  /\ timeFrames[root] > 0
  /\ timeFrames' = Take(timeFrames, root)
  /\ clock' = "set"
  /\ UNCHANGED <<root, bridge, sensorFrames, serverVars, historyVars>>
-----------------------------------------------------------------------------
(* The server's loop: receive, parse, then what the program is for.        *)

Receives(len, contents) ==
  /\ server = "receive"
  /\ server' = "parse"
  /\ n' = len
  /\ bufferrx' = contents
  /\ IF program = "benchserver" THEN tv' \in Times ELSE UNCHANGED tv
  /\ UNCHANGED <<boardVars, timeFrames, hostVars, ticks, waiting, tv_start>>

ReceiveSensor(b) ==
  /\ sockfd > 0
  /\ sensorFrames[b] > 0
  /\ program = "benchserver" => ticks <= TIME_TICKS
  /\ Receives(FRAME, "SENSOR")
  /\ sensorFrames' = Take(sensorFrames, b)
  /\ cliaddr' = b
  /\ heard' = heard + 1
  /\ heardFrom' = b

\* Any datagram sets cliaddr and overwrites the buffer, or its beginning.
ReceiveOther(len) ==
  /\ sockfd > 0
  /\ Receives(len, "mismatch")
  /\ cliaddr' = Stranger
  /\ UNCHANGED <<sensorFrames, historyVars>>

ReceiveFails ==
  /\ Receives(ERROR, bufferrx)
  /\ UNCHANGED <<sensorFrames, cliaddr, historyVars>>

\* Mutant: the conversion works on a copy.
ntohFrameHMAC_copied(contents) == [valid |-> contents = "SENSOR", left |-> contents]

\* ntohFrameHMAC: a frame that is found valid is converted in place, which
\* changes its timestamp, and would not be found valid again.
ntohFrameHMAC(contents) == [valid |-> contents = "SENSOR", left |-> "mismatch"]

\* A message of the frame's fields joins the queue of the SDK, which keeps a
\* copy of it.
SendEventAsync == waiting' = IF waiting < MaxWaiting THEN waiting + 1 ELSE waiting

\* A valid SENSOR frame is counted; azureserver hands it to the hub.
Parse ==
  /\ server = "parse"
  /\ server' = "answer"
  /\ IF LongEnough(n)
     THEN LET frame == ntohFrameHMAC(bufferrx)
          IN  /\ bufferrx' = frame.left
              /\ ticks' = IF frame.valid THEN ticks + 1 ELSE ticks
              /\ IF frame.valid /\ program = "azureserver" THEN SendEventAsync
                                                           ELSE UNCHANGED waiting
     ELSE UNCHANGED <<bufferrx, ticks, waiting>>
  /\ UNCHANGED <<boardVars, netVars, hostVars, n, cliaddr, timeVars, historyVars>>

\* createTimeFrame and sendUDP to cliaddr.
SendTime ==
  IF cliaddr \in Boards THEN Put(timeFrames, cliaddr, timeFrames') ELSE UNCHANGED timeFrames

AfterAnswer == IF program = "azureserver" THEN "work" ELSE "receive"

answerFrame == <<boardVars, sensorFrames, hostVars, n, bufferrx, cliaddr, waiting,
                 timeVars, heardFrom>>

\* Mutants: the answer comes a frame early; the counter is not reset; it is
\* reset in every turn; the hub is only served when there was no datagram.
AnswerEarly ==
  /\ server = "answer"
  /\ program # "benchserver"
  /\ server' = AfterAnswer
  /\ IF ticks >= TIME_TICKS THEN SendTime /\ ticks' = 0 /\ heard' = 0
                            ELSE UNCHANGED <<timeFrames, ticks, heard>>
  /\ UNCHANGED answerFrame

AnswerKeepsTicks ==
  /\ server = "answer"
  /\ program # "benchserver"
  /\ server' = AfterAnswer
  /\ IF ticks > TIME_TICKS THEN SendTime /\ heard' = 0 ELSE UNCHANGED <<timeFrames, heard>>
  /\ UNCHANGED <<answerFrame, ticks>>

AnswerAlwaysResets ==
  /\ server = "answer"
  /\ program # "benchserver"
  /\ server' = AfterAnswer
  /\ IF ticks > TIME_TICKS THEN SendTime ELSE UNCHANGED timeFrames
  /\ ticks' = 0
  /\ heard' = 0
  /\ UNCHANGED answerFrame

AnswerWorksWhenIdle ==
  /\ server = "answer"
  /\ program # "benchserver"
  /\ server' = IF n = ERROR THEN AfterAnswer ELSE "receive"
  /\ IF ticks > TIME_TICKS THEN SendTime /\ ticks' = 0 /\ heard' = 0
                           ELSE UNCHANGED <<timeFrames, ticks, heard>>
  /\ UNCHANGED answerFrame

\* The counter starts again even if the send fails.
Answer ==
  /\ server = "answer"
  /\ program # "benchserver"
  /\ server' = AfterAnswer
  /\ IF ticks > TIME_TICKS THEN SendTime /\ ticks' = 0 /\ heard' = 0
                           ELSE UNCHANGED <<timeFrames, ticks, heard>>
  /\ UNCHANGED answerFrame

\* IoTHubDeviceClient_LL_DoWork confirms any number of messages: none while
\* the hub cannot be reached.
DoWork ==
  /\ server = "work"
  /\ server' = "receive"
  /\ waiting' \in 0 .. waiting
  /\ UNCHANGED <<boardVars, netVars, hostVars, n, bufferrx, cliaddr, ticks, timeVars,
                 historyVars>>

\* Mutant: any two different times will do for a report.
ReportDue_early == tv # tv_start

ReportDue == tv.sec - tv_start.sec >= 1

\* Rates over the time since the last report, which starts again now: time
\* has passed since tv was read.
Report ==
  /\ server = "answer"
  /\ program = "benchserver"
  /\ server' = "receive"
  /\ IF ReportDue THEN tv_start' \in Times /\ ticks' = 0 /\ heard' = 0
                  ELSE UNCHANGED <<tv_start, ticks, heard>>
  /\ UNCHANGED <<boardVars, netVars, hostVars, n, bufferrx, cliaddr, waiting, tv, heardFrom>>

Server ==
  \/ \E b \in Boards : ReceiveSensor(b)
  \/ ReceiveOther(SHORT) \/ ReceiveOther(FRAME)
  \/ ReceiveFails
  \/ Parse
  \/ Answer \/ DoWork \/ Report
-----------------------------------------------------------------------------
Next ==
  \/ \E b \in Boards : Lose(b) \/ BridgeStarts(b)
  \/ BridgeEnds \/ ClockDrifts \/ SendSensor \/ ReceiveTime
  \/ Server

Spec == Init /\ [][Next]_vars

\* A root with a socket has something to send again and again, and not only
\* while the server is busy; the server does not stop; a datagram that is sent
\* over and over gets through in the end; and the hub can be reached again and
\* again.  Nothing is assumed of the bridge: it may end, and none may start.
Fairness ==
  /\ SF_vars(server = "receive" /\ SendSensor)
  /\ SF_vars(ReceiveTime)
  /\ \A b \in Boards : SF_vars(ReceiveSensor(b))
  /\ WF_vars(Parse) /\ WF_vars(Answer) /\ WF_vars(DoWork) /\ WF_vars(Report)
  /\ SF_vars(DoWork /\ waiting' < waiting)

FairSpec == Spec /\ Fairness
-----------------------------------------------------------------------------
(* Properties                                                              *)

\* ticks counts the valid SENSOR datagrams since the last TIME or report:
\* each is counted once, although the buffer is read again after every failed
\* receive (udpserver.c:49) and other datagrams come in between; and the
\* counter never waits for the next datagram with a TIME due.
TicksAreReceptions ==
  server = "receive" =>
    ticks = heard /\ (program # "benchserver" => ticks <= TIME_TICKS)

\* cliaddr is whoever sent the last datagram (udpserver.c:47), valid or not,
\* and yet a TIME that is due always goes to the board whose SENSOR frame
\* made it due.
TimeGoesToSensorSender ==
  program # "benchserver" /\ ticks > TIME_TICKS => cliaddr = heardFrom

\* benchserver divides by the time since the last report, of which it has
\* only compared the seconds (benchserver.c:68-72): it is never zero nor
\* negative, whatever the clock of the host does.
RatesAreDefined ==
  server = "answer" /\ program = "benchserver" /\ ReportDue =>
    (tv.sec - tv_start.sec) * MILLION + (tv.usec - tv_start.usec) > 0

Answers == program # "benchserver"

\* A frame in the buffer that Parse is going to count.
Uncounted == server = "parse" /\ LongEnough(n) /\ ntohFrameHMAC(bufferrx).valid

Count == IF Uncounted THEN ticks + 1 ELSE ticks

Service == INSTANCE TimeService WITH
  answering <- Answers,
  count     <- Count,
  last      <- heardFrom,
  replies   <- timeFrames

\* The loop with its buffer that is read again, its address that anybody may
\* set and its counter (udpserver.c:47-88) gives a TIME exactly when one is
\* due, to the board that it is due to, and no frame counts for two.
ImplementsTimeService == Service!Spec

\* A root whose bridge goes on has its clock set again and again, through a
\* network that loses, duplicates and reorders, and whatever else reaches the
\* server's port.  (That it goes on is not promised: mesh_main.c:408.)
RootIsSynchronised ==
  \A b \in Boards :
    sockfd > 0 /\ program # "benchserver" /\ <>[](root = b /\ bridge = "runs")
      => []<>(clock = "set")

\* The hub is served in the loop that waits for datagrams
\* (azureserver.c:119, 203): while roots keep sending, whichever they are and
\* however often their bridges end, messages keep getting out.  (When nothing
\* is received they stay: recvfrom has no timeout.)
MessagesGetOut ==
  []<>(bridge = "runs") => []<>(waiting = 0) \/ []<><<waiting' < waiting>>_vars
=============================================================================
