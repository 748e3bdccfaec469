-------------------------------- MODULE SntpApp --------------------------------
(***************************************************************************)
(* The cFE application of fsw/src/sntp.c: one task that initialises        *)
(* itself, then alternates between its software-bus pipe (commands) and    *)
(* its UDP socket (SNTP requests) until it is told to exit.                *)
(*                                                                         *)
(* The task runs concurrently with everything around it: publishers on     *)
(* the software bus, the network, executive services (start and exit),     *)
(* other processes that want the SNTP port, and the clock.  Each action    *)
(* of the task is the code between two points at which that environment    *)
(* is consulted, a call of a cFE or of an operating-system service.        *)
(***************************************************************************)
EXTENDS SntpTime, Sequences

CONSTANTS
  Clients,            \* UDP addresses datagrams come from
  Messages,           \* packets others publish on the software bus
  XmtTimes,           \* transmit time stamps clients send, in wire order
  Sizes,              \* sizes of datagrams, a subset of DatagramSizes
  Faults,             \* services that may fail, a subset of FaultyServices
  Uint8Size,          \* 2^8 in the code
  Uint16Size,         \* 2^16 in the code
  SNTP_PIPE_DEPTH,    \* 32 in the code
  SocketDepth         \* datagrams the kernel keeps for the socket

(* A datagram has no bytes, fewer than NET_BUF_SIZE, as many, or more.     *)
DatagramSizes == {"empty", "short", "exact", "long"}

(* register, pipe, subscribe: the cFE calls of SNTP_Init; socket, sockopt, *)
(* recv, send, clock: the system calls; poll: CFE_SB_ReceiveBuffer;        *)
(* foreign: another process may take the SNTP port.                        *)
FaultyServices == {"register", "pipe", "subscribe", "socket", "sockopt",
                   "poll", "recv", "send", "clock", "foreign"}

MsgIds == {"SNTP_CMD_MID", "SNTP_SEND_HK_MID", "other"}

SNTP_NOOP_CC           == 0
SNTP_RESET_COUNTERS_CC == 1
SNTP_PROCESS_CC        == 2

(* sizeof(SNTP_NoArgsCmd_t): a command header and nothing else.            *)
NoArgsCmdSize == "header"

Message  == [mid : MsgIds, cc : Nat, size : {NoArgsCmdSize, "other"}]
Datagram == [client : Clients, size : Sizes, xmt : XmtTimes]

ASSUME AppAssumption == /\ Messages \subseteq Message
                        /\ XmtTimes \subseteq NetWord
                        /\ Sizes \subseteq DatagramSizes
                        /\ Faults \subseteq FaultyServices
                        /\ Uint8Size \in Nat \ {0}
                        /\ Uint16Size \in Nat \ {0}
                        /\ SNTP_PIPE_DEPTH \in Nat \ {0}
                        /\ SocketDepth \in Nat \ {0}

VARIABLES
  pc,             \* where the task stands
  RunStatus,      \* SNTP_Data.RunStatus
  cnts,           \* SNTP_Data.cnts
  HkTlm,          \* SNTP_Data.HkTlm.Payload
  netBuf,         \* the transmit time field of netBuf
  clientAddr,     \* sender of the last datagram
  receiveTime,    \* response.receiveTime
  subs,           \* message ids SNTP_Data.CommandPipe is subscribed to
  pipe,           \* packets waiting in SNTP_Data.CommandPipe
  exitRequest,    \* executive services want the application to end
  openSockets,    \* sockets this application has open
  port,           \* who is bound to SNTP_PORT
  rcvTimeo,       \* SO_RCVTIMEO is set on SNTP_Data.sockfd
  rxq,            \* datagrams waiting in SNTP_Data.sockfd
  clock,          \* the clock getCurrentSntpTime reads
  obs             \* what the last step showed to the outside

dataVars == << RunStatus, cnts, HkTlm >>
reqVars  == << netBuf, clientAddr, receiveTime >>
busVars  == << subs, pipe >>
netVars  == << openSockets, port, rcvTimeo, rxq >>
envVars  == << exitRequest, clock >>
vars     == << pc, dataVars, reqVars, busVars, netVars, envVars, obs >>

Counters == [CommandErrorCounter : 0 .. Uint8Size - 1,
             CommandCounter      : 0 .. Uint8Size - 1,
             SntpReqRcv          : 0 .. Uint16Size - 1,
             SntpBadRequests     : 0 .. Uint16Size - 1,
             SntpInvalidRequests : 0 .. Uint16Size - 1]

NoCounts == [CommandErrorCounter |-> 0, CommandCounter |-> 0, SntpReqRcv |-> 0,
             SntpBadRequests |-> 0, SntpInvalidRequests |-> 0]

(* c++ on an unsigned field of the payload.                                *)
WideIncr8(c) == [cnts EXCEPT ![c] = @ + 1]     \* faulty: the counter is wider than its field
Incr8(c)  == [cnts EXCEPT ![c] = (@ + 1) % Uint8Size]
Incr16(c) == [cnts EXCEPT ![c] = (@ + 1) % Uint16Size]

(* What a step shows: an event message, a packet, a line of the system     *)
(* log or of the console.                                                  *)
Silent                   == [kind |-> "none"]
Event(k)                 == [kind |-> k]
CommandEvent(k, m)       == [kind |-> k, msg |-> m]
Telemetry(p, m)          == [kind |-> "telemetry", payload |-> p, msg |-> m]
Request(d)               == [kind |-> "request", client |-> d.client, xmt |-> d.xmt]
Outcome(k, c, o, r, t)   == [kind |-> k, client |-> c, origin |-> o,
                             receive |-> r, transmit |-> t]

Observation ==
    [kind : {"none", "start", "register_failed", "pipe_failed", "subscribe_failed",
             "socket_failed", "bind_failed", "startup", "exit", "poll_failed",
             "invalid_request", "recv_failed", "exit_request"}]
    \cup [kind : {"noop", "reset", "length_error", "invalid_code", "invalid_mid"},
          msg : Messages]
    \cup [kind : {"telemetry"}, payload : Counters, msg : Messages]
    \cup [kind : {"request"}, client : Clients, xmt : NetWord]
    \cup [kind : {"reply", "send_failed"}, client : Clients, origin : NetWord,
          receive : NetWord, transmit : NetWord]

InitSteps == {"register", "pipe", "sub_hk", "sub_cmd", "socket"}
LoopSteps == {"poll", "recv", "stamp", "reply"}
Places    == InitSteps \cup LoopSteps \cup {"down", "run", "exit"}

Init == /\ pc = "down"
        /\ RunStatus = "UNDEFINED"
        /\ cnts = NoCounts /\ HkTlm = NoCounts
        /\ netBuf = Htonl(0) /\ receiveTime = Htonl(0)
        /\ clientAddr \in Clients
        /\ subs = {} /\ pipe = << >>
        /\ exitRequest = FALSE
        /\ openSockets = 0 /\ port = "free"
        /\ rcvTimeo = FALSE /\ rxq = << >>
        /\ clock \in Word
        /\ obs = Silent

-------------------------------------------------------------------------------
(* SNTP_Init, one step for each call that can fail.  SNTP_Main turns a     *)
(* failure into a run status that the run loop refuses.                    *)

Start == /\ pc = "down"
         /\ pc' = "register"
         /\ RunStatus' = "APP_RUN"
         /\ cnts' = NoCounts
         /\ obs' = Event("start")
         /\ UNCHANGED << HkTlm, reqVars, busVars, netVars, envVars >>

(* Faulty: SNTP_Main does not look at the status SNTP_Init returns.        *)
InitFailsUnnoticed(reason) ==
    /\ pc' = "run" /\ obs' = Event(reason)
    /\ UNCHANGED << dataVars, reqVars, busVars, netVars, envVars >>

InitFails(reason) == /\ RunStatus' = "APP_ERROR"
                     /\ pc' = "run" /\ obs' = Event(reason)
                     /\ UNCHANGED << cnts, HkTlm, reqVars, busVars, netVars, envVars >>

Register == /\ pc = "register"
            /\ \/ /\ HkTlm' = NoCounts
                  /\ pc' = "pipe" /\ obs' = Silent
                  /\ UNCHANGED << RunStatus, cnts, reqVars, busVars, netVars, envVars >>
               \/ /\ "register" \in Faults
                  /\ InitFails("register_failed")

CreatePipe == /\ pc = "pipe"
              /\ \/ /\ pipe' = << >>
                    /\ pc' = "sub_hk" /\ obs' = Silent
                    /\ UNCHANGED << dataVars, reqVars, subs, netVars, envVars >>
                 \/ /\ "pipe" \in Faults
                    /\ InitFails("pipe_failed")

Subscribe(mid, next) ==
    \/ /\ subs' = subs \cup {mid}
       /\ pc' = next
       /\ obs' = Silent
       /\ UNCHANGED << dataVars, reqVars, pipe, netVars, envVars >>
    \/ /\ "subscribe" \in Faults
       /\ InitFails("subscribe_failed")

SubscribeHk  == pc = "sub_hk"  /\ Subscribe("SNTP_SEND_HK_MID", "sub_cmd")
SubscribeCmd == pc = "sub_cmd" /\ Subscribe("SNTP_CMD_MID", "socket")

(* initUDPSocket.  A socket that cannot be bound is closed again; whether  *)
(* the timeout could be set is not looked at.                              *)
(* Faulty: the socket is not closed.                                       *)
BindFailsUnclosed == /\ port # "free"
                     /\ openSockets' = openSockets + 1
                     /\ RunStatus' = "APP_ERROR"
                     /\ pc' = "run" /\ obs' = Event("bind_failed")
                     /\ UNCHANGED << cnts, HkTlm, reqVars, busVars, port, rcvTimeo, rxq, envVars >>
BindFails == /\ port # "free"
             /\ InitFails("bind_failed")

BindSucceeds == /\ port = "free"
                /\ port' = "app"
                /\ openSockets' = openSockets + 1
                /\ rxq' = << >>
                /\ rcvTimeo' \in BOOLEAN
                /\ rcvTimeo' = FALSE => "sockopt" \in Faults
                /\ pc' = "run" /\ obs' = Event("startup")
                /\ UNCHANGED << dataVars, reqVars, busVars, envVars >>

InitUDPSocket == /\ pc = "socket"
                 /\ \/ "socket" \in Faults /\ InitFails("socket_failed")
                    \/ BindFails
                    \/ BindSucceeds

-------------------------------------------------------------------------------
(* CFE_ES_RunLoop and CFE_ES_ExitApp.  Executive services release what     *)
(* the application holds on the software bus; its socket stays open.       *)

RunLoop ==
    /\ pc = "run"
    /\ \/ /\ RunStatus = "APP_RUN" /\ ~exitRequest
          /\ pc' = "poll"
          /\ UNCHANGED RunStatus
       \/ /\ RunStatus # "APP_RUN" \/ exitRequest
          /\ pc' = "exit"
          /\ RunStatus' = IF RunStatus = "APP_RUN" THEN "APP_EXIT" ELSE RunStatus
    /\ obs' = Silent
    /\ UNCHANGED << cnts, HkTlm, reqVars, busVars, netVars, envVars >>

ExitApp == /\ pc = "exit"
           /\ pc' = "down"
           /\ subs' = {}
           /\ pipe' = << >>
           /\ exitRequest' = FALSE
           /\ port' = IF port = "app" THEN "leaked" ELSE port
           /\ rcvTimeo' = FALSE
           /\ rxq' = << >>
           /\ obs' = Event("exit")
           /\ UNCHANGED << dataVars, reqVars, openSockets, clock >>

-------------------------------------------------------------------------------
(* One command at most per turn of the loop.                               *)

Noop(m) == /\ cnts' = Incr8("CommandCounter")
           /\ obs' = CommandEvent("noop", m)
           /\ UNCHANGED HkTlm

(* Faulty: only the command counters are reset.                            *)
ResetCommandCounters(m) == /\ cnts' = [cnts EXCEPT !.CommandCounter = 0, !.CommandErrorCounter = 0]
                           /\ obs' = CommandEvent("reset", m)
                           /\ UNCHANGED HkTlm
ResetCounters(m) == /\ cnts' = NoCounts
                    /\ obs' = CommandEvent("reset", m)
                    /\ UNCHANGED HkTlm

(* Faulty: the packet is sent before it is filled.                         *)
ReportLastHousekeeping(m) == /\ HkTlm' = cnts
                             /\ obs' = Telemetry(HkTlm, m)
                             /\ UNCHANGED cnts
ReportHousekeeping(m) == /\ HkTlm' = cnts
                         /\ obs' = Telemetry(HkTlm', m)
                         /\ UNCHANGED cnts

(* SNTP_VerifyCmdLength: its result, and what it does when that is false.  *)
LengthIsRight(m) == m.size = NoArgsCmdSize
LengthError(m) == /\ cnts' = Incr8("CommandErrorCounter")
                  /\ obs' = CommandEvent("length_error", m)
                  /\ UNCHANGED HkTlm

ProcessGroundCommand(m) ==
    \/ m.cc = SNTP_NOOP_CC /\ LengthIsRight(m) /\ Noop(m)
    \/ m.cc = SNTP_RESET_COUNTERS_CC /\ LengthIsRight(m) /\ ResetCounters(m)
    \/ /\ m.cc \in {SNTP_NOOP_CC, SNTP_RESET_COUNTERS_CC}
       /\ ~LengthIsRight(m)
       /\ LengthError(m)
    \/ /\ m.cc \notin {SNTP_NOOP_CC, SNTP_RESET_COUNTERS_CC}
       /\ obs' = CommandEvent("invalid_code", m)
       /\ UNCHANGED << cnts, HkTlm >>

ProcessCommandPacket(m) ==
    \/ m.mid = "SNTP_CMD_MID" /\ ProcessGroundCommand(m)
    \/ m.mid = "SNTP_SEND_HK_MID" /\ ReportHousekeeping(m)
    \/ /\ m.mid \notin {"SNTP_CMD_MID", "SNTP_SEND_HK_MID"}
       /\ obs' = CommandEvent("invalid_mid", m)
       /\ UNCHANGED << cnts, HkTlm >>

(* Faulty: the pipe is drained before the socket is looked at.             *)
PollAllCommands == /\ pc = "poll"
                   /\ pipe # << >>
                   /\ pipe' = Tail(pipe)
                   /\ ProcessCommandPacket(Head(pipe))
                   /\ UNCHANGED << pc, RunStatus, reqVars, subs, netVars, envVars >>

PollCommand == /\ pc = "poll"
               /\ pipe # << >>
               /\ pipe' = Tail(pipe)
               /\ ProcessCommandPacket(Head(pipe))
               /\ pc' = "recv"
               /\ UNCHANGED << RunStatus, reqVars, subs, netVars, envVars >>

(* Any other status than success is passed over, an empty pipe or not.     *)
PollNothing == /\ pc = "poll"
               /\ \/ pipe = << >> /\ obs' = Silent
                  \/ "poll" \in Faults /\ obs' = Event("poll_failed")
               /\ pc' = "recv"
               /\ UNCHANGED << dataVars, reqVars, busVars, netVars, envVars >>

-------------------------------------------------------------------------------
(* One datagram at most per turn of the loop.  recvfrom cuts a datagram    *)
(* that is longer than netBuf; one that is shorter overwrites the start of *)
(* netBuf, and reaches no further than into the field modelled here.       *)

(* Faulty: the sender of the first datagram is kept.                       *)
ReceiveUnsigned(d) == /\ pc = "recv"
                      /\ rxq # << >>
                      /\ d = Head(rxq)
                      /\ rxq' = Tail(rxq)
                      /\ UNCHANGED << RunStatus, HkTlm, clientAddr, receiveTime, busVars,
                                      openSockets, port, rcvTimeo, envVars >>
Receive(d) == /\ pc = "recv"
              /\ rxq # << >>
              /\ d = Head(rxq)
              /\ rxq' = Tail(rxq)
              /\ clientAddr' = d.client
              /\ UNCHANGED << RunStatus, HkTlm, receiveTime, busVars,
                              openSockets, port, rcvTimeo, envVars >>

ReceiveRequest == \E d \in Datagram :
    /\ Receive(d)
    /\ d.size \in {"exact", "long"}
    /\ netBuf' = d.xmt
    /\ cnts' = Incr16("SntpReqRcv")
    /\ pc' = "stamp" /\ obs' = Request(d)

ReceiveInvalid == \E d \in Datagram :
    /\ Receive(d)
    /\ d.size = "short"
    /\ netBuf' \in {netBuf, << d.xmt[1], netBuf[2] >>}
    /\ cnts' = Incr16("SntpInvalidRequests")
    /\ pc' = "run" /\ obs' = Event("invalid_request")

ReceiveEmpty == \E d \in Datagram :
    /\ Receive(d)
    /\ d.size = "empty"
    /\ pc' = "run" /\ obs' = Silent
    /\ UNCHANGED << netBuf, cnts >>

(* Faulty: recvfrom is called again until there is a datagram.             *)
ReceiveRetry == /\ pc = "recv"
                /\ rxq = << >> /\ rcvTimeo
                /\ obs' = Silent
                /\ UNCHANGED << pc, dataVars, reqVars, busVars, netVars, envVars >>

ReceiveTimeout == /\ pc = "recv"
                  /\ rxq = << >> /\ rcvTimeo
                  /\ pc' = "run" /\ obs' = Silent
                  /\ UNCHANGED << dataVars, reqVars, busVars, netVars, envVars >>

ReceiveError == /\ pc = "recv"
                /\ "recv" \in Faults
                /\ cnts' = Incr16("SntpInvalidRequests")
                /\ pc' = "run" /\ obs' = Event("recv_failed")
                /\ UNCHANGED << RunStatus, HkTlm, reqVars, busVars, netVars, envVars >>

-------------------------------------------------------------------------------
(* process_sntp_request, in two steps: it reads the clock twice.  A        *)
(* reading that fails leaves the variable it should fill as it was: at     *)
(* first uninitialised, then holding the first reading.                    *)

StampReceiveTime ==
    /\ pc = "stamp"
    /\ \/ receiveTime' = EncodeTime(SntpTimeOf(clock))
       \/ "clock" \in Faults /\ receiveTime' \in NetWord
    /\ pc' = "reply" /\ obs' = Silent
    /\ UNCHANGED << dataVars, netBuf, clientAddr, busVars, netVars, envVars >>

Reply == /\ pc = "reply"
         /\ \E transmitTime \in {EncodeTime(SntpTimeOf(clock))} \cup
                                (IF "clock" \in Faults THEN {receiveTime} ELSE {}) :
              LET Answer(k) == Outcome(k, clientAddr, EncodeTime(DeserializeRequest(netBuf)),
                                       receiveTime, transmitTime)
              IN  \/ obs' = Answer("reply") /\ UNCHANGED cnts
                  \/ /\ "send" \in Faults
                     /\ obs' = Answer("send_failed")
                     /\ cnts' = Incr16("SntpBadRequests")
         /\ pc' = "run"
         /\ UNCHANGED << RunStatus, HkTlm, reqVars, busVars, netVars, envVars >>

-------------------------------------------------------------------------------
(* The environment.  The bus delivers only what the pipe is subscribed to, *)
(* and drops what a full pipe or a full socket cannot take: such a packet  *)
(* changes nothing here.                                                   *)

Publish(m) == /\ m.mid \in subs
              /\ Len(pipe) < SNTP_PIPE_DEPTH
              /\ pipe' = Append(pipe, m)
              /\ obs' = Silent
              /\ UNCHANGED << pc, dataVars, reqVars, subs, netVars, envVars >>

Arrive(d) == /\ port = "app"
             /\ Len(rxq) < SocketDepth
             /\ rxq' = Append(rxq, d)
             /\ obs' = Silent
             /\ UNCHANGED << pc, dataVars, reqVars, busVars, openSockets, port,
                             rcvTimeo, envVars >>

RequestExit == /\ pc # "down"
               /\ ~exitRequest
               /\ exitRequest' = TRUE
               /\ obs' = Event("exit_request")
               /\ UNCHANGED << pc, dataVars, reqVars, busVars, netVars, clock >>

(* The clock goes on, or time synchronisation moves it either way.         *)
ClockMoves == /\ clock' \in Word \ {clock}
              /\ obs' = Silent
              /\ UNCHANGED << pc, dataVars, reqVars, busVars, netVars, exitRequest >>

ForeignPort == /\ "foreign" \in Faults
               /\ \/ port = "free" /\ port' = "foreign"
                  \/ port = "foreign" /\ port' = "free"
               /\ obs' = Silent
               /\ UNCHANGED << pc, dataVars, reqVars, busVars, openSockets, rcvTimeo,
                               rxq, envVars >>

-------------------------------------------------------------------------------
(* Everything the task does by itself once executive services started it.  *)
Task == \/ Register \/ CreatePipe \/ SubscribeHk \/ SubscribeCmd \/ InitUDPSocket
        \/ RunLoop \/ ExitApp
        \/ PollCommand \/ PollNothing
        \/ ReceiveRequest \/ ReceiveInvalid \/ ReceiveEmpty
        \/ ReceiveTimeout \/ ReceiveError
        \/ StampReceiveTime \/ Reply

Environment == \/ Start \/ RequestExit
               \/ \E m \in Messages : Publish(m)
               \/ \E d \in Datagram : Arrive(d)
               \/ ClockMoves \/ ForeignPort

Next == Task \/ Environment

Spec == Init /\ [][Next]_vars

(* The scheduler runs the task whenever it can go on, and the kernel ends  *)
(* a recvfrom whose timeout is set.  Nothing is asked of the environment.  *)
FairSpec == Spec /\ WF_vars(Task)

-------------------------------------------------------------------------------
(* Every variable keeps to its values; the counters fit their C types and  *)
(* the queues their depths.                                                *)
TypeOK == /\ pc \in Places
          /\ RunStatus \in {"UNDEFINED", "APP_RUN", "APP_ERROR", "APP_EXIT"}
          /\ cnts \in Counters
          /\ HkTlm \in Counters
          /\ netBuf \in NetWord
          /\ clientAddr \in Clients
          /\ receiveTime \in NetWord
          /\ subs \subseteq MsgIds
          /\ pipe \in Seq(Messages) /\ Len(pipe) <= SNTP_PIPE_DEPTH
          /\ exitRequest \in BOOLEAN
          /\ openSockets \in Nat
          /\ port \in {"free", "app", "leaked", "foreign"}
          /\ rcvTimeo \in BOOLEAN
          /\ rxq \in Seq(Datagram) /\ Len(rxq) <= SocketDepth
          /\ clock \in Word
          /\ obs \in Observation

(* The body of the run loop is entered only by an application whose whole  *)
(* initialisation succeeded: a failure at any point of SNTP_Init, of this  *)
(* or of an earlier start, never lets the loop poll a pipe that misses a   *)
(* subscription or receive from a socket that is not bound.                *)
ServingIsReady ==
    pc \in LoopSteps => /\ RunStatus = "APP_RUN"
                        /\ subs = {"SNTP_CMD_MID", "SNTP_SEND_HK_MID"}
                        /\ port = "app"

(* However often the application fails to start, exits and is started      *)
(* again, it holds one socket at most: the one that is bound to the port,  *)
(* or that an earlier run left bound.                                      *)
DescriptorsBounded ==
    openSockets = IF port \in {"app", "leaked"} THEN 1 ELSE 0

(* The receive timeout could not be set and no datagram is there: recvfrom *)
(* does not return.  Datagrams end this, a command or an exit does not.    *)
Blocked == pc = "recv" /\ rxq = << >> /\ ~rcvTimeo
ReceivesEnd == []<>~Blocked

(* A packet at the head of the pipe is handled, whatever the network and   *)
(* the other publishers do, unless the application exits.  Where the       *)
(* timeout could not be set, datagrams that come again and again are       *)
(* enough.                                                                 *)
Handled(m) == "msg" \in DOMAIN obs /\ obs.msg = m
CommandsServed ==
    ReceivesEnd => \A m \in Messages :
        (pipe # << >> /\ Head(pipe) = m) ~> (Handled(m) \/ pc = "down")

(* A request at the head of the socket's queue is answered, or its answer  *)
(* fails to be sent, however many commands arrive, unless the application  *)
(* exits.                                                                  *)
Answered(d) == /\ obs.kind \in {"reply", "send_failed"}
               /\ obs.client = d.client /\ obs.origin = d.xmt
RequestsServed ==
    \A d \in Datagram :
        (rxq # << >> /\ Head(rxq) = d /\ d.size \in {"exact", "long"})
            ~> (Answered(d) \/ pc = "down")

(* A request of executive services to exit is honoured, whatever arrives   *)
(* in the meantime, under the same condition.                              *)
ExitHonoured == ReceivesEnd => (exitRequest ~> (pc = "down"))

-------------------------------------------------------------------------------
(* What texts of the repository say, and the code does not do.             *)

(* "nominal case should return CFE_SUCCESS": when nobody else owns the     *)
(* port, initialisation does not fail to bind it.                          *)
NominalInitSucceeds == obs.kind = "bind_failed" => port = "foreign"

(* "default case already found during FC vs length test": a command that   *)
(* is refused, for its code or for its length, is counted as an error.     *)
RefusalsAreCounted ==
    [][obs'.kind \in {"length_error", "invalid_code"}
          => cnts'.CommandErrorCounter # cnts.CommandErrorCounter]_vars

(* "Wait on receipt of UDP Packet, with 1s timeout for periodic checking": *)
(* the loop comes back to the pipe, datagrams or none.                     *)
PipeIsPolled == (pc = "recv") ~> (pc # "recv")
===============================================================================
