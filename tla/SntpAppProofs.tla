----------------------------- MODULE SntpAppProofs -----------------------------
(***************************************************************************)
(* Theorems about SntpApp: type correctness, what holds whenever the run   *)
(* loop works, and how many sockets the application holds.                 *)
(***************************************************************************)
EXTENDS SntpApp, SntpTimeProofs

USE DEF vars, dataVars, reqVars, busVars, netVars, envVars

LEMMA NoCountsType == NoCounts \in Counters
  BY AppAssumption DEF NoCounts, Counters

LEMMA IncrType ==
  ASSUME cnts \in Counters
  PROVE  /\ Incr8("CommandCounter") \in Counters
         /\ Incr8("CommandErrorCounter") \in Counters
         /\ Incr16("SntpReqRcv") \in Counters
         /\ Incr16("SntpBadRequests") \in Counters
         /\ Incr16("SntpInvalidRequests") \in Counters
<1>1. \A n \in 0 .. Uint8Size - 1 : (n + 1) % Uint8Size \in 0 .. Uint8Size - 1
  BY AppAssumption
<1>2. \A n \in 0 .. Uint16Size - 1 : (n + 1) % Uint16Size \in 0 .. Uint16Size - 1
  BY AppAssumption
<1>3. ASSUME NEW c \in {"CommandCounter", "CommandErrorCounter"}
      PROVE  Incr8(c) \in Counters
  BY <1>1 DEF Counters, Incr8
<1>4. ASSUME NEW c \in {"SntpReqRcv", "SntpBadRequests", "SntpInvalidRequests"}
      PROVE  Incr16(c) \in Counters
  BY <1>2 DEF Counters, Incr16
<1>5. QED BY <1>3, <1>4

LEMMA EmptyQueues == /\ << >> \in Seq(Messages) /\ << >> \in Seq(Datagram)
                     /\ Len(<< >>) <= SNTP_PIPE_DEPTH /\ Len(<< >>) <= SocketDepth
  BY AppAssumption

LEMMA EventTypes ==
  /\ Silent \in Observation
  /\ \A k \in {"start", "register_failed", "pipe_failed", "subscribe_failed",
              "socket_failed", "bind_failed", "startup", "exit", "poll_failed",
              "invalid_request", "recv_failed", "exit_request"} : Event(k) \in Observation
  BY DEF Silent, Event, Observation

(* What the type invariant says of a step is said for each action apart.   *)
LEMMA TypeInit == Init => TypeOK
<1> SUFFICES ASSUME Init PROVE TypeOK
  OBVIOUS
<1>1. Htonl(0) \in NetWord
  BY ZeroWord, HtonlType
<1>2. QED BY <1>1, NoCountsType, EmptyQueues, EventTypes DEF Init, TypeOK, Places

LEMMA TypeInitStep ==
  ASSUME TypeOK,
         Start \/ Register \/ CreatePipe \/ SubscribeHk \/ SubscribeCmd \/ InitUDPSocket
  PROVE  TypeOK'
<1> USE EmptyQueues, EventTypes DEF TypeOK, Places, InitSteps, LoopSteps
<1>1. CASE Start
  BY <1>1, NoCountsType DEF Start
<1>2. CASE Register
  BY <1>2, NoCountsType DEF Register, InitFails
<1>3. CASE CreatePipe
  BY <1>3 DEF CreatePipe, InitFails
<1>4. CASE SubscribeHk
  BY <1>4 DEF SubscribeHk, Subscribe, InitFails, MsgIds
<1>5. CASE SubscribeCmd
  BY <1>5 DEF SubscribeCmd, Subscribe, InitFails, MsgIds
<1>6. CASE InitUDPSocket
  <2>1. CASE InitFails("socket_failed") \/ InitFails("bind_failed")
    BY <2>1 DEF InitFails
  <2>2. CASE BindSucceeds
    BY <2>2 DEF BindSucceeds
  <2>3. QED BY <1>6, <2>1, <2>2 DEF InitUDPSocket, BindFails
<1>7. QED BY <1>1, <1>2, <1>3, <1>4, <1>5, <1>6

LEMMA TypeLoopStep == ASSUME TypeOK, RunLoop \/ ExitApp PROVE TypeOK'
<1> USE EmptyQueues, EventTypes DEF TypeOK, Places, InitSteps, LoopSteps
<1>1. CASE RunLoop
  BY <1>1 DEF RunLoop
<1>2. CASE ExitApp
  BY <1>2 DEF ExitApp
<1>3. QED BY <1>1, <1>2

(* A packet changes the counters and the telemetry payload within their    *)
(* types, and is answered by something that can be shown.                  *)
LEMMA CommandTypes ==
  ASSUME TypeOK, NEW m \in Messages, ProcessCommandPacket(m)
  PROVE  cnts' \in Counters /\ HkTlm' \in Counters /\ obs' \in Observation
<1> USE DEF TypeOK, Observation, CommandEvent
<1>1. CASE ProcessGroundCommand(m)
  BY <1>1, IncrType, NoCountsType
  DEF ProcessGroundCommand, Noop, ResetCounters, LengthError
<1>2. CASE ReportHousekeeping(m)
  BY <1>2 DEF ReportHousekeeping, Telemetry
<1>3. CASE obs' = CommandEvent("invalid_mid", m) /\ UNCHANGED << cnts, HkTlm >>
  BY <1>3
<1>4. QED BY <1>1, <1>2, <1>3 DEF ProcessCommandPacket

LEMMA TypePollStep == ASSUME TypeOK, PollCommand \/ PollNothing PROVE TypeOK'
<1>1. CASE PollCommand
  <2>1. Head(pipe) \in Messages /\ Tail(pipe) \in Seq(Messages)
        /\ Len(Tail(pipe)) <= SNTP_PIPE_DEPTH
    BY <1>1, AppAssumption DEF PollCommand, TypeOK
  <2>2. cnts' \in Counters /\ HkTlm' \in Counters /\ obs' \in Observation
    BY <1>1, <2>1, CommandTypes DEF PollCommand
  <2>3. QED BY <1>1, <2>1, <2>2 DEF PollCommand, TypeOK, Places, LoopSteps
<1>2. CASE PollNothing
  BY <1>2, EventTypes DEF PollNothing, TypeOK, Places, LoopSteps
<1>3. QED BY <1>1, <1>2

LEMMA TypeReceiveStep ==
  ASSUME TypeOK,
         ReceiveRequest \/ ReceiveInvalid \/ ReceiveEmpty \/ ReceiveTimeout \/ ReceiveError
  PROVE  TypeOK'
<1> USE EventTypes DEF TypeOK, Places, LoopSteps
<1>1. ASSUME NEW d \in Datagram, Receive(d)
      PROVE  /\ rxq' \in Seq(Datagram) /\ Len(rxq') <= SocketDepth
             /\ d.client \in Clients /\ d.xmt \in NetWord
             /\ << d.xmt[1], netBuf[2] >> \in NetWord
  BY <1>1, AppAssumption DEF Receive, Datagram, NetWord
<1>2. CASE ReceiveRequest
  <2>1. PICK d \in Datagram : /\ Receive(d) /\ netBuf' = d.xmt /\ pc' = "stamp"
                              /\ cnts' = Incr16("SntpReqRcv") /\ obs' = Request(d)
    BY <1>2 DEF ReceiveRequest
  <2>2. QED BY <2>1, <1>1, IncrType DEF Receive, Request, Observation
<1>3. CASE ReceiveInvalid
  <2>1. PICK d \in Datagram : /\ Receive(d) /\ pc' = "run"
                              /\ netBuf' \in {netBuf, << d.xmt[1], netBuf[2] >>}
                              /\ cnts' = Incr16("SntpInvalidRequests")
                              /\ obs' = Event("invalid_request")
    BY <1>3 DEF ReceiveInvalid
  <2>2. QED BY <2>1, <1>1, IncrType DEF Receive
<1>4. CASE ReceiveEmpty
  BY <1>4, <1>1 DEF ReceiveEmpty, Receive
<1>5. CASE ReceiveTimeout
  BY <1>5 DEF ReceiveTimeout
<1>6. CASE ReceiveError
  BY <1>6, IncrType DEF ReceiveError
<1>7. QED BY <1>2, <1>3, <1>4, <1>5, <1>6

(* Whatever the clock says is a time stamp that fits the packet.           *)
LEMMA ReadingType == ASSUME TypeOK PROVE EncodeTime(SntpTimeOf(clock)) \in NetWord
  BY HtonlType, SntpTimeType DEF TypeOK, Word, EncodeTime

LEMMA TypeAnswerStep == ASSUME TypeOK, StampReceiveTime \/ Reply PROVE TypeOK'
<1> USE EventTypes DEF TypeOK, Places, LoopSteps
<1>1. CASE StampReceiveTime
  BY <1>1, ReadingType DEF StampReceiveTime
<1>2. CASE Reply
  <2>1. PICK t \in NetWord :
          \/ /\ obs' = Outcome("reply", clientAddr, EncodeTime(DeserializeRequest(netBuf)),
                               receiveTime, t)
             /\ UNCHANGED cnts
          \/ /\ obs' = Outcome("send_failed", clientAddr, EncodeTime(DeserializeRequest(netBuf)),
                               receiveTime, t)
             /\ cnts' = Incr16("SntpBadRequests")
    BY <1>2, ReadingType DEF Reply
  <2>2. EncodeTime(DeserializeRequest(netBuf)) \in NetWord
    BY EchoIsExact
  <2>3. QED BY <1>2, <2>1, <2>2, IncrType DEF Reply, Outcome, Observation
<1>3. QED BY <1>1, <1>2

LEMMA TypeEnvironmentStep == ASSUME TypeOK, Environment PROVE TypeOK'
<1> USE EventTypes DEF TypeOK, Places, InitSteps, LoopSteps
<1>1. CASE Start
  BY <1>1, TypeInitStep
<1>2. CASE RequestExit
  BY <1>2 DEF RequestExit
<1>3. ASSUME NEW m \in Messages, Publish(m) PROVE TypeOK'
  BY <1>3, AppAssumption DEF Publish
<1>4. ASSUME NEW d \in Datagram, Arrive(d) PROVE TypeOK'
  BY <1>4, AppAssumption DEF Arrive
<1>5. CASE ClockMoves
  BY <1>5 DEF ClockMoves
<1>6. CASE ForeignPort
  BY <1>6 DEF ForeignPort
<1>7. QED BY <1>1, <1>2, <1>3, <1>4, <1>5, <1>6 DEF Environment

LEMMA TypeNext == TypeOK /\ [Next]_vars => TypeOK'
<1> SUFFICES ASSUME TypeOK, [Next]_vars PROVE TypeOK'
  OBVIOUS
<1>1. CASE Task
  BY <1>1, TypeInitStep, TypeLoopStep, TypePollStep, TypeReceiveStep, TypeAnswerStep DEF Task
<1>2. CASE Environment
  BY <1>2, TypeEnvironmentStep
<1>3. CASE UNCHANGED vars
  BY <1>3 DEF TypeOK
<1>4. QED BY <1>1, <1>2, <1>3 DEF Next

(* Every variable keeps its type: in particular the counters never leave   *)
(* the range of their C types and the queues never exceed their depths.    *)
THEOREM TypeCorrect == Spec => []TypeOK
<1>1. Init => TypeOK
  BY TypeInit
<1>2. TypeOK /\ [Next]_vars => TypeOK'
  BY TypeNext
<1>3. QED BY <1>1, <1>2, PTL DEF Spec

-------------------------------------------------------------------------------
(* ServingIsReady holds because initialisation builds it up step by step,  *)
(* and because a run status of APP_RUN at the run loop means that the last *)
(* step was taken.  This is what is inductive.                             *)
BothIds == {"SNTP_CMD_MID", "SNTP_SEND_HK_MID"}

Progress ==
    /\ subs \subseteq BothIds
    /\ pc \in {"sub_cmd", "socket"} => "SNTP_SEND_HK_MID" \in subs
    /\ pc = "socket" => "SNTP_CMD_MID" \in subs
    /\ pc \in LoopSteps \/ (pc = "run" /\ RunStatus = "APP_RUN") =>
          subs = BothIds /\ port = "app"
    /\ pc \in LoopSteps => RunStatus = "APP_RUN"

LEMMA ProgressInit == Init => Progress
  BY DEF Init, Progress, LoopSteps

LEMMA ProgressInitSteps ==
  ASSUME Progress,
         Start \/ Register \/ CreatePipe \/ SubscribeHk \/ SubscribeCmd \/ InitUDPSocket
  PROVE  Progress'
<1> USE DEF Progress, LoopSteps, BothIds
<1>1. CASE Start
  BY <1>1 DEF Start
<1>2. CASE Register
  BY <1>2 DEF Register, InitFails
<1>3. CASE CreatePipe
  BY <1>3 DEF CreatePipe, InitFails
<1>4. CASE SubscribeHk
  BY <1>4 DEF SubscribeHk, Subscribe, InitFails
<1>5. CASE SubscribeCmd
  BY <1>5 DEF SubscribeCmd, Subscribe, InitFails
<1>6. CASE InitUDPSocket
  BY <1>6 DEF InitUDPSocket, BindFails, BindSucceeds, InitFails
<1>7. QED BY <1>1, <1>2, <1>3, <1>4, <1>5, <1>6

LEMMA ProgressNext == Progress /\ [Next]_vars => Progress'
<1> SUFFICES ASSUME Progress, [Next]_vars PROVE Progress'
  OBVIOUS
<1> USE DEF Progress, LoopSteps
<1>1. CASE Start \/ Register \/ CreatePipe \/ SubscribeHk \/ SubscribeCmd \/ InitUDPSocket
  BY <1>1, ProgressInitSteps
<1>2. CASE RunLoop
  BY <1>2 DEF RunLoop
<1>3. CASE ExitApp
  BY <1>3 DEF ExitApp
<1>4. CASE PollCommand \/ PollNothing
  BY <1>4 DEF PollCommand, PollNothing
<1>5. CASE ReceiveRequest \/ ReceiveInvalid \/ ReceiveEmpty
  BY <1>5 DEF ReceiveRequest, ReceiveInvalid, ReceiveEmpty, Receive
<1>6. CASE ReceiveTimeout \/ ReceiveError
  BY <1>6 DEF ReceiveTimeout, ReceiveError
<1>7. CASE StampReceiveTime \/ Reply
  BY <1>7 DEF StampReceiveTime, Reply
<1>8. CASE RequestExit \/ ClockMoves \/ ForeignPort
  BY <1>8 DEF RequestExit, ClockMoves, ForeignPort
<1>9. CASE \E m \in Messages : Publish(m)
  BY <1>9 DEF Publish
<1>10. CASE \E d \in Datagram : Arrive(d)
  BY <1>10 DEF Arrive
<1>11. CASE UNCHANGED vars
  BY <1>11
<1>12. QED
  BY <1>1, <1>2, <1>3, <1>4, <1>5, <1>6, <1>7, <1>8, <1>9, <1>10, <1>11
  DEF Next, Task, Environment

(* The loop body runs only after an initialisation that succeeded in full, *)
(* whichever calls of this or an earlier start failed.                     *)
THEOREM ServingIsReadyAlways == Spec => []ServingIsReady
<1>1. Init => Progress
  BY ProgressInit
<1>2. Progress /\ [Next]_vars => Progress'
  BY ProgressNext
<1>3. Progress => ServingIsReady
  BY DEF Progress, ServingIsReady, BothIds
<1>4. QED BY <1>1, <1>2, <1>3, PTL DEF Spec

-------------------------------------------------------------------------------
LEMMA DescriptorsNext == DescriptorsBounded /\ [Next]_vars => DescriptorsBounded'
<1> SUFFICES ASSUME DescriptorsBounded, [Next]_vars PROVE DescriptorsBounded'
  OBVIOUS
<1> USE DEF DescriptorsBounded
<1>1. CASE InitUDPSocket
  BY <1>1 DEF InitUDPSocket, BindFails, BindSucceeds, InitFails
<1>2. CASE ExitApp
  BY <1>2 DEF ExitApp
<1>3. CASE ForeignPort
  BY <1>3 DEF ForeignPort
<1>4. CASE UNCHANGED << openSockets, port >>
  BY <1>4
<1>5. [Next]_vars => \/ InitUDPSocket \/ ExitApp \/ ForeignPort
                     \/ UNCHANGED << openSockets, port >>
  BY DEF Next, Task, Environment, Start, Register, CreatePipe, SubscribeHk, SubscribeCmd,
         Subscribe, InitFails, RunLoop, PollCommand, PollNothing, ReceiveRequest,
         ReceiveInvalid, ReceiveEmpty, Receive, ReceiveTimeout, ReceiveError,
         StampReceiveTime, Reply, RequestExit, Publish, Arrive, ClockMoves
<1>6. QED BY <1>1, <1>2, <1>3, <1>4, <1>5

(* However often the application is started and fails or exits, it has one *)
(* socket open at most, and none that nobody is bound with.                *)
THEOREM DescriptorsBoundedAlways == Spec => []DescriptorsBounded
<1>1. Init => DescriptorsBounded
  BY DEF Init, DescriptorsBounded
<1>2. DescriptorsBounded /\ [Next]_vars => DescriptorsBounded'
  BY DescriptorsNext
<1>3. QED BY <1>1, <1>2, PTL DEF Spec
===============================================================================
