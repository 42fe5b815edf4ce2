--------------------------- MODULE Gateway_proofs ---------------------------
(***************************************************************************)
(* The server counts every SENSOR datagram once and sends TIME to the      *)
(* board that is due, whichever of the three programs it is, and the       *)
(* rates of benchserver are defined, for any number of boards, any         *)
(* TIME_TICKS and any clock.  So the loop implements TimeService: a frame  *)
(* counts there when it is received, and here when it is parsed.           *)
(***************************************************************************)
EXTENDS Gateway, TLAPS

\* Where a valid frame may be in the buffer, and what has been counted then.
\* Only a datagram received in this turn is ever found valid.
Counted ==
  /\ server # "parse" => bufferrx = "mismatch" /\ ticks = heard
  /\ program # "benchserver" /\ server # "answer" => ticks <= TIME_TICKS
  /\ server = "parse" =>
       IF bufferrx = "SENSOR"
       THEN n = FRAME /\ heard = ticks + 1 /\ ticks <= TIME_TICKS /\ cliaddr = heardFrom
       ELSE heard = ticks
  /\ program # "benchserver" /\ ticks > TIME_TICKS => cliaddr = heardFrom
  /\ heard > 0 => heardFrom \in Boards

IInv == TypeOK /\ Counted

\* The invariant holds before the first datagram.
LEMMA InitIInv == Init => IInv
BY GatewayAssumption DEF Init, InitHub, InitTimes, IInv, TypeOK, Counted, Contents,
                         ERROR, SHORT, FRAME

\* A datagram put on its way, once or twice, keeps the count within bounds.
LEMMA PutType ==
  ASSUME NEW frames \in [Boards -> 0 .. MaxCopies], NEW b \in Boards,
         NEW frames2, Put(frames, b, frames2)
  PROVE  frames2 \in [Boards -> 0 .. MaxCopies]
<1>1. PICK copies \in {1, 2} :
        frames2 = [frames EXCEPT ![b] = IF @ + copies < MaxCopies THEN @ + copies
                                                                  ELSE MaxCopies]
  BY DEF Put
<1>2. frames[b] \in 0 .. MaxCopies
  OBVIOUS
<1>3. (IF frames[b] + copies < MaxCopies THEN frames[b] + copies ELSE MaxCopies)
        \in 0 .. MaxCopies
  BY <1>2, GatewayAssumption
<1> QED
  BY <1>1, <1>3

\* A datagram that was there can be taken off the network.
LEMMA TakeType ==
  ASSUME NEW frames \in [Boards -> 0 .. MaxCopies], NEW b \in Boards, frames[b] > 0
  PROVE  Take(frames, b) \in [Boards -> 0 .. MaxCopies]
<1>1. frames[b] - 1 \in 0 .. MaxCopies
  BY GatewayAssumption
<1> QED
  BY <1>1 DEF Take

\* The invariant is inductive: one step per action.
LEMMA NextIInv == IInv /\ [Next]_vars => IInv'
<1> SUFFICES ASSUME IInv, [Next]_vars PROVE IInv'
  OBVIOUS
<1> USE DEF IInv
<1>1. ASSUME NEW b \in Boards, Lose(b) PROVE IInv'
  <2>1. sensorFrames' \in [Boards -> 0 .. MaxCopies]
    BY <1>1, TakeType DEF Lose, TypeOK
  <2>2. timeFrames' \in [Boards -> 0 .. MaxCopies]
    BY <1>1, TakeType DEF Lose, TypeOK
  <2> QED
    BY <1>1, <2>1, <2>2
       DEF Lose, TypeOK, Counted, boardVars, serverVars, hostVars, timeVars, historyVars
<1>2. CASE (\E b \in Boards : BridgeStarts(b)) \/ BridgeEnds \/ ClockDrifts
  <2>1. /\ root' \in Boards /\ bridge' \in {"runs", "ended"} /\ clock' \in {"set", "drifted"}
        /\ UNCHANGED <<netVars, serverVars, historyVars>>
    BY <1>2 DEF BridgeStarts, BridgeEnds, ClockDrifts, TypeOK
  <2> QED
    BY <2>1 DEF TypeOK, Counted, netVars, serverVars, hostVars, timeVars, historyVars
<1>3. CASE SendSensor
  <2>1. sensorFrames' \in [Boards -> 0 .. MaxCopies]
    BY <1>3, PutType DEF SendSensor, TypeOK
  <2> QED
    BY <1>3, <2>1
       DEF SendSensor, TypeOK, Counted, boardVars, serverVars, hostVars, timeVars, historyVars
<1>4. CASE ReceiveTime
  <2>1. timeFrames' \in [Boards -> 0 .. MaxCopies]
    BY <1>4, TakeType DEF ReceiveTime, TypeOK
  <2> QED
    BY <1>4, <2>1 DEF ReceiveTime, TypeOK, Counted, serverVars, hostVars, timeVars, historyVars
<1>5. ASSUME NEW len, NEW contents, Receives(len, contents)
      PROVE  /\ server = "receive" /\ server' = "parse"
             /\ n' = len /\ bufferrx' = contents
             /\ tv' \in Times
             /\ UNCHANGED <<root, bridge, clock, timeFrames, program, sockfd, ticks, waiting, tv_start>>
  BY <1>5 DEF Receives, TypeOK, boardVars, hostVars
<1>6. ASSUME NEW b \in Boards, ReceiveSensor(b) PROVE IInv'
  <2>0. Receives(FRAME, "SENSOR")
    BY <1>6 DEF ReceiveSensor
  <2>1. sensorFrames' \in [Boards -> 0 .. MaxCopies]
    BY <1>6, TakeType DEF ReceiveSensor, TypeOK
  <2>2. TypeOK'
    BY <1>6, <1>5, <2>0, <2>1 DEF ReceiveSensor, TypeOK, Contents, FRAME
  <2>3. Counted'
    BY <1>6, <1>5, <2>0, GatewayAssumption DEF ReceiveSensor, TypeOK, Counted, FRAME
  <2> QED
    BY <2>2, <2>3
<1>7. ASSUME NEW len \in {SHORT, FRAME}, ReceiveOther(len) PROVE IInv'
  <2>0. Receives(len, "mismatch")
    BY <1>7 DEF ReceiveOther
  <2>1. TypeOK'
    BY <1>7, <1>5, <2>0 DEF ReceiveOther, TypeOK, historyVars, Contents
  <2>2. Counted'
    BY <1>7, <1>5, <2>0, GatewayAssumption DEF ReceiveOther, TypeOK, Counted, historyVars
  <2> QED
    BY <2>1, <2>2
<1>8. CASE ReceiveFails
  <2>0. Receives(ERROR, bufferrx)
    BY <1>8 DEF ReceiveFails
  <2>1. TypeOK'
    BY <1>8, <1>5, <2>0 DEF ReceiveFails, TypeOK, historyVars
  <2>2. Counted'
    BY <1>8, <1>5, <2>0 DEF ReceiveFails, TypeOK, Counted, historyVars
  <2> QED
    BY <2>1, <2>2
<1>9. CASE Parse
  <2>1. /\ bufferrx' = "mismatch"
        /\ ticks' = IF bufferrx = "SENSOR" THEN ticks + 1 ELSE ticks
    <3>1. bufferrx \in {"SENSOR", "mismatch"} /\ (bufferrx = "SENSOR" => n = FRAME)
      BY <1>9 DEF Parse, TypeOK, Counted, Contents
    <3>2. CASE bufferrx = "SENSOR"
      <4>1. LongEnough(n)
        BY <3>1, <3>2 DEF LongEnough, SHORT, FRAME
      <4>2. /\ bufferrx' = ntohFrameHMAC(bufferrx).left
            /\ ticks' = IF ntohFrameHMAC(bufferrx).valid THEN ticks + 1 ELSE ticks
        BY <1>9, <4>1 DEF Parse
      <4> QED
        BY <3>1, <3>2, <4>2 DEF ntohFrameHMAC
    <3>3. CASE bufferrx = "mismatch"
      <4>1. \/ UNCHANGED <<bufferrx, ticks>>
            \/ /\ bufferrx' = ntohFrameHMAC(bufferrx).left
               /\ ticks' = IF ntohFrameHMAC(bufferrx).valid THEN ticks + 1 ELSE ticks
        BY <1>9 DEF Parse
      <4> QED
        BY <3>3, <4>1 DEF ntohFrameHMAC
    <3> QED
      BY <3>1, <3>2, <3>3
  <2>2. waiting' \in 0 .. MaxWaiting
    <3>1. waiting' = waiting \/ SendEventAsync
      BY <1>9 DEF Parse
    <3>2. waiting \in 0 .. MaxWaiting /\ MaxWaiting \in Nat
      BY GatewayAssumption DEF TypeOK
    <3>3. waiting' = waiting \/ (waiting < MaxWaiting /\ waiting' = waiting + 1)
      BY <3>1 DEF SendEventAsync
    <3> QED
      BY <3>2, <3>3
  <2>3. ticks' \in 0 .. TIME_TICKS + 1
    <3>1. bufferrx = "SENSOR" => ticks <= TIME_TICKS
      BY <1>9 DEF Parse, Counted
    <3> QED
      BY <2>1, <3>1, GatewayAssumption DEF TypeOK
  <2>4. TypeOK'
    BY <1>9, <2>1, <2>2, <2>3
       DEF Parse, TypeOK, boardVars, netVars, hostVars, timeVars, historyVars, Contents
  <2>5. Counted'
    BY <1>9, <2>1, GatewayAssumption DEF Parse, TypeOK, Counted, hostVars, historyVars, Contents
  <2> QED
    BY <2>4, <2>5
<1>10. CASE Answer
  <2>1. timeFrames' \in [Boards -> 0 .. MaxCopies]
    BY <1>10, PutType DEF Answer, SendTime, TypeOK
  <2>2. ticks' \in 0 .. TIME_TICKS /\ ticks' = heard'
    BY <1>10, GatewayAssumption DEF Answer, TypeOK, Counted
  <2>3. heard' \in Nat /\ server' \in {"receive", "work"}
    BY <1>10 DEF Answer, TypeOK, AfterAnswer
  <2>4. TypeOK'
    BY <1>10, <2>1, <2>2, <2>3, GatewayAssumption
       DEF Answer, answerFrame, TypeOK, boardVars, hostVars, timeVars
  <2>5. Counted'
    BY <1>10, <2>2, <2>3, GatewayAssumption DEF Answer, answerFrame, TypeOK, Counted, hostVars
  <2> QED
    BY <2>4, <2>5
<1>11. CASE DoWork
  <2>1. waiting' \in 0 .. MaxWaiting
    BY <1>11, GatewayAssumption DEF DoWork, TypeOK
  <2> QED
    BY <1>11, <2>1 DEF DoWork, TypeOK, Counted, boardVars, netVars, hostVars, timeVars, historyVars
<1>12. CASE Report
  <2>1. \/ tv_start' \in Times /\ ticks' = 0 /\ heard' = 0
        \/ UNCHANGED <<tv_start, ticks, heard>>
    BY <1>12 DEF Report
  <2>2. TypeOK'
    BY <1>12, <2>1, GatewayAssumption DEF Report, TypeOK, boardVars, netVars, hostVars
  <2>3. Counted'
    BY <1>12, <2>1, GatewayAssumption DEF Report, TypeOK, Counted, hostVars
  <2> QED
    BY <2>2, <2>3
<1>13. CASE UNCHANGED vars
  BY <1>13 DEF vars, boardVars, netVars, serverVars, hostVars, timeVars, historyVars, TypeOK, Counted
<1> QED
  BY <1>1, <1>2, <1>3, <1>4, <1>6, <1>7, <1>8, <1>9, <1>10, <1>11, <1>12, <1>13 DEF Next, Server

\* What is counted stays tied to what is in the buffer in every run.
THEOREM Invariance == Spec => []IInv
<1>1. Init => IInv
  BY InitIInv
<1>2. IInv /\ [Next]_vars => IInv'
  BY NextIInv
<1> QED
  BY <1>1, <1>2, PTL DEF Spec

\* The counter of udpserver.c:28 never leaves 0..TIME_TICKS+1, and no other
\* variable of the exchange its set.
THEOREM TypeCorrectness == Spec => []TypeOK
<1>1. IInv => TypeOK
  BY DEF IInv
<1> QED
  BY <1>1, Invariance, PTL

\* Every valid SENSOR datagram is counted once, and none twice when a failed
\* receive has the buffer read again (udpserver.c:47-71).
THEOREM CountsAreExact == Spec => []TicksAreReceptions
<1>1. IInv => TicksAreReceptions
  BY DEF IInv, Counted, TicksAreReceptions
<1> QED
  BY <1>1, Invariance, PTL

\* A TIME that is due goes to the board that made it due (udpserver.c:77-86).
THEOREM TimeIsAddressed == Spec => []TimeGoesToSensorSender
<1>1. IInv => TimeGoesToSensorSender
  BY DEF IInv, Counted, TimeGoesToSensorSender
<1> QED
  BY <1>1, Invariance, PTL

\* benchserver never divides by zero: a difference of a second, whatever the
\* microseconds, is a positive time (benchserver.c:68-72).
THEOREM RatesHaveADivisor == Spec => []RatesAreDefined
<1>1. TypeOK => RatesAreDefined
  <2> SUFFICES ASSUME TypeOK, ReportDue
               PROVE  (tv.sec - tv_start.sec) * MILLION + (tv.usec - tv_start.usec) > 0
    BY DEF RatesAreDefined
  <2> DEFINE secs == tv.sec - tv_start.sec
             usecs == tv.usec - tv_start.usec
  <2>1. /\ tv.sec \in Nat /\ tv_start.sec \in Nat /\ MILLION \in Nat
        /\ tv.usec \in 0 .. MILLION - 1 /\ tv_start.usec \in 0 .. MILLION - 1
    BY GatewayAssumption DEF TypeOK
  <2>2. secs \in Nat /\ secs >= 1
    BY <2>1 DEF ReportDue
  <2>3. usecs \in Int /\ usecs > 0 - MILLION
    BY <2>1
  <2> HIDE DEF secs, usecs
  <2>4. secs * MILLION >= MILLION
    BY <2>1, <2>2
  <2>5. secs * MILLION \in Int
    BY <2>1, <2>2
  <2>6. secs * MILLION + usecs > 0
    BY <2>1, <2>3, <2>4, <2>5
  <2> QED
    BY <2>6 DEF secs, usecs
<1> QED
  BY <1>1, TypeCorrectness, PTL
-----------------------------------------------------------------------------
(* The server is a TimeService.                                            *)

\* The count that TimeService sees is the number of SENSOR datagrams heard,
\* also before Parse.
Exact == Count = heard

LEMMA CountIsHeard == IInv => Exact
<1> SUFFICES ASSUME IInv PROVE Count = heard
  BY DEF Exact
<1>1. Uncounted <=> server = "parse" /\ bufferrx = "SENSOR"
  <2>1. ntohFrameHMAC(bufferrx).valid <=> bufferrx = "SENSOR"
    BY DEF ntohFrameHMAC
  <2>2. server = "parse" /\ bufferrx = "SENSOR" => LongEnough(n)
    BY DEF IInv, Counted, LongEnough, SHORT, FRAME
  <2> QED
    BY <2>1, <2>2 DEF Uncounted
<1>2. CASE Uncounted
  BY <1>1, <1>2 DEF IInv, Counted, Count
<1>3. CASE ~ Uncounted
  BY <1>1, <1>3 DEF IInv, Counted, Count
<1> QED
  BY <1>2, <1>3

\* A copy of TIME that goes to a board goes to no other, and takes none away.
LEMMA PutReplies ==
  ASSUME NEW frames \in [Boards -> 0 .. MaxCopies], NEW b \in Boards,
         NEW frames2, Put(frames, b, frames2)
  PROVE  frames2 = [frames EXCEPT ![b] = frames2[b]] /\ frames2[b] >= frames[b]
<1>1. PICK copies \in {1, 2} :
        frames2 = [frames EXCEPT ![b] = IF @ + copies < MaxCopies THEN @ + copies
                                                                  ELSE MaxCopies]
  BY DEF Put
<1>2. frames[b] \in 0 .. MaxCopies /\ MaxCopies \in Nat
  BY GatewayAssumption
<1>3. frames2[b] = IF frames[b] + copies < MaxCopies THEN frames[b] + copies ELSE MaxCopies
  BY <1>1
<1>4. frames2[b] >= frames[b]
  BY <1>2, <1>3
<1>5. frames2 = [frames EXCEPT ![b] = frames2[b]]
  BY <1>1, <1>3
<1> QED
  BY <1>4, <1>5

\* Every step of the exchange is a step of TimeService, or none.
LEMMA NextService ==
  ASSUME IInv, Exact, Exact', [Next]_vars
  PROVE  [Service!Next]_<<Answers, Count, heardFrom, timeFrames>>
<1> DEFINE abstract == <<Answers, Count, heardFrom, timeFrames>>
<1> USE DEF IInv, Exact
<1>0. timeFrames \in [Boards -> 0 .. MaxCopies] /\ heard \in Nat
  BY DEF TypeOK
<1>1. ASSUME UNCHANGED <<program, heard, heardFrom, timeFrames>> PROVE UNCHANGED abstract
  BY <1>1 DEF Answers
<1>2. ASSUME NEW b \in Boards, Lose(b) PROVE [Service!Next]_abstract
  <2>1. UNCHANGED <<program, heard, heardFrom>>
    BY <1>2 DEF Lose, serverVars, hostVars, historyVars
  <2>2. CASE UNCHANGED timeFrames
    BY <1>1, <2>1, <2>2
  <2>3. CASE timeFrames[b] > 0 /\ timeFrames' = Take(timeFrames, b)
    <3>1. Service!Arrive(b)
      BY <2>1, <2>3 DEF Service!Arrive, Take, Answers
    <3> QED
      BY <3>1 DEF Service!Next
  <2> QED
    BY <1>2, <2>2, <2>3 DEF Lose
<1>3. CASE (\E b \in Boards : BridgeStarts(b)) \/ BridgeEnds \/ ClockDrifts
  <2>1. UNCHANGED <<netVars, serverVars, historyVars>>
    BY <1>3 DEF BridgeStarts, BridgeEnds, ClockDrifts
  <2> QED
    BY <1>1, <2>1 DEF netVars, serverVars, hostVars, historyVars
<1>4. CASE SendSensor
  BY <1>1, <1>4 DEF SendSensor, serverVars, hostVars, historyVars
<1>5. CASE ReceiveTime
  <2>1. /\ root \in Boards
        /\ UNCHANGED <<program, heard, heardFrom>>
        /\ timeFrames[root] > 0 /\ timeFrames' = Take(timeFrames, root)
    BY <1>5 DEF ReceiveTime, serverVars, hostVars, historyVars, TypeOK
  <2>2. Service!Arrive(root)
    BY <2>1 DEF Service!Arrive, Take, Answers
  <2> QED
    BY <2>1, <2>2 DEF Service!Next
<1>6. ASSUME NEW b \in Boards, ReceiveSensor(b) PROVE [Service!Next]_abstract
  <2>1. /\ server = "receive" /\ heard' = heard + 1 /\ heardFrom' = b
        /\ UNCHANGED <<program, timeFrames>>
    BY <1>6 DEF ReceiveSensor, Receives, hostVars
  <2>2. program # "benchserver" => heard <= TIME_TICKS
    BY <2>1 DEF Counted
  <2>3. Service!Hear(b)
    BY <2>1, <2>2 DEF Service!Hear, Answers
  <2> QED
    BY <2>3 DEF Service!Next
<1>7. ASSUME NEW len, ReceiveOther(len) PROVE [Service!Next]_abstract
  BY <1>1, <1>7 DEF ReceiveOther, Receives, hostVars, historyVars
<1>8. CASE ReceiveFails
  BY <1>1, <1>8 DEF ReceiveFails, Receives, hostVars, historyVars
<1>9. CASE Parse
  BY <1>1, <1>9 DEF Parse, netVars, hostVars, historyVars
<1>10. CASE Answer
  <2>1. UNCHANGED <<program, heardFrom>> /\ program # "benchserver" /\ ticks = heard
    BY <1>10 DEF Answer, answerFrame, hostVars, Counted
  <2>2. CASE ticks > TIME_TICKS
    <3>1. heard > TIME_TICKS /\ heard > 0
      BY <2>1, <2>2, GatewayAssumption DEF TypeOK
    <3>2. cliaddr = heardFrom /\ heardFrom \in Boards
      BY <2>1, <2>2, <3>1 DEF Counted
    <3>3. Put(timeFrames, heardFrom, timeFrames') /\ heard' = 0
      BY <1>10, <2>2, <3>2 DEF Answer, SendTime
    <3>4. /\ timeFrames' = [timeFrames EXCEPT ![heardFrom] = timeFrames'[heardFrom]]
          /\ timeFrames'[heardFrom] >= timeFrames[heardFrom]
      BY <1>0, <3>2, <3>3, PutReplies
    <3>5. Service!Reply
      BY <2>1, <3>1, <3>3, <3>4 DEF Service!Reply, Answers
    <3> QED
      BY <3>5 DEF Service!Next
  <2>3. CASE ~ (ticks > TIME_TICKS)
    BY <1>1, <1>10, <2>1, <2>3 DEF Answer
  <2> QED
    BY <2>2, <2>3
<1>11. CASE DoWork
  BY <1>1, <1>11 DEF DoWork, netVars, hostVars, historyVars
<1>12. CASE Report
  <2>1. UNCHANGED <<program, heardFrom, timeFrames>> /\ program = "benchserver"
    BY <1>12 DEF Report, netVars, hostVars
  <2>2. heard' = 0 \/ heard' = heard
    BY <1>12 DEF Report
  <2>3. CASE heard' = 0
    <3>1. Service!StartAgain
      BY <2>1, <2>3 DEF Service!StartAgain, Answers
    <3> QED
      BY <3>1 DEF Service!Next
  <2>4. CASE heard' = heard
    BY <1>1, <2>1, <2>4
  <2> QED
    BY <2>2, <2>3, <2>4
<1>13. CASE UNCHANGED vars
  BY <1>1, <1>13 DEF vars, netVars, serverVars, hostVars, historyVars
<1> QED
  BY <1>2, <1>3, <1>4, <1>5, <1>6, <1>7, <1>8, <1>9, <1>10, <1>11, <1>12, <1>13
     DEF Next, Server

\* For any boards, TIME_TICKS and network: TIME goes out exactly when more than
\* TIME_TICKS frames have come since the last, to the board that sent the last
\* of them (udpserver.c:47-88).
THEOREM ServerImplementsTimeService == Spec => ImplementsTimeService
<1>1. Init => Service!Init
  BY DEF Init, Service!Init, Answers, Count, Uncounted
<1>2. IInv /\ Exact /\ Exact' /\ [Next]_vars
        => [Service!Next]_<<Answers, Count, heardFrom, timeFrames>>
  BY NextService
<1> QED
  BY <1>1, <1>2, CountIsHeard, Invariance, PTL DEF Spec, ImplementsTimeService, Service!Spec
=============================================================================
