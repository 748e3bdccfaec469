---------------------------- MODULE SntpTestServer ----------------------------
(***************************************************************************)
(* tools/server_test.c: a process that binds one UDP socket, without a     *)
(* receive timeout, and serves one datagram after the other for ever.      *)
(* Each action of the server is the code between two calls at which the    *)
(* network or the clock is consulted.                                      *)
(***************************************************************************)
EXTENDS SntpTime, Sequences

CONSTANTS
  Clients,        \* UDP addresses datagrams come from
  XmtTimes,       \* transmit time stamps clients send, in wire order
  Sizes,          \* sizes of datagrams, as in SntpApp
  Faults,         \* calls that may fail: a subset of {"bind", "recv", "send", "clock"}
  SocketDepth,    \* datagrams the kernel keeps for the socket
  MaxReadings     \* clock values during one request: bounds ClockMoves

Datagram == [client : Clients, size : Sizes, xmt : XmtTimes]

ASSUME ServerAssumption == /\ XmtTimes \subseteq NetWord
                           /\ Sizes \subseteq {"empty", "short", "exact", "long"}
                           /\ SocketDepth \in Nat \ {0}
                           /\ MaxReadings \in Nat

VARIABLES
  pc,             \* where the process stands
  netBuf,         \* the transmit time field of netBuf
  clientAddr,     \* sender of the last datagram
  receiveTime,    \* response.receiveTime
  rxq,            \* datagrams waiting in sockfd
  clock,          \* the clock getCurrentSntpTime reads
  inHand,         \* the request being served, with the clock values since it
                  \* was received (auxiliary: the server does not look at it)
  sent            \* what the last step sent, or failed to send, if anything

serverVars == << pc, netBuf, clientAddr, receiveTime >>
vars       == << serverVars, rxq, clock, inHand, sent >>

NoXmt == Htonl(0)     \* netBuf has static storage

Requested(d) == {[client |-> d.client, xmt |-> d.xmt, seen |-> << clock >>]}

Init == /\ pc = "bind"
        /\ netBuf = NoXmt
        /\ clientAddr \in Clients
        /\ receiveTime = NoXmt
        /\ rxq = << >>
        /\ clock \in Word
        /\ inHand = {}
        /\ sent = {}

(* initUDPSocket: a process that cannot bind its port ends.                *)
InitUDPSocket == /\ pc = "bind"
                 /\ pc' \in {"recv"} \cup (IF "bind" \in Faults THEN {"stopped"} ELSE {})
                 /\ sent' = {}
                 /\ UNCHANGED << netBuf, clientAddr, receiveTime, rxq, clock, inHand >>

(* run_sntp_server.  recvfrom cuts what is longer than netBuf; any other   *)
(* size than netBuf's is reported and passed over, like an error.          *)
Take == /\ pc = "recv"
        /\ rxq # << >>
        /\ rxq' = Tail(rxq)
        /\ clientAddr' = Head(rxq).client
        /\ sent' = {}
        /\ UNCHANGED << receiveTime, clock >>

ReceiveRequest == /\ Take
                  /\ Head(rxq).size \in {"exact", "long"}
                  /\ netBuf' = Head(rxq).xmt
                  /\ pc' = "stamp"
                  /\ inHand' = Requested(Head(rxq))

(* Faulty: the size is not looked at.                                      *)
ServeUnexpected == /\ Take
                   /\ Head(rxq).size \notin {"exact", "long"}
                   /\ pc' = "stamp"
                   /\ inHand' = Requested(Head(rxq))
                   /\ UNCHANGED netBuf
ReceiveUnexpected == /\ Take
                     /\ Head(rxq).size \notin {"exact", "long"}
                     /\ netBuf' \in IF Head(rxq).size = "empty" THEN {netBuf}
                                    ELSE {netBuf, << Head(rxq).xmt[1], netBuf[2] >>}
                     /\ UNCHANGED << pc, inHand >>

ReceiveError == /\ pc = "recv"
                /\ "recv" \in Faults
                /\ sent' = {}
                /\ UNCHANGED << serverVars, rxq, clock, inHand >>

(* Reading the clock: a reading that fails leaves what was there.          *)
Reading(before) == {EncodeTime(SntpTimeOf(clock))}
                   \cup (IF "clock" \in Faults THEN before ELSE {})

StampReceiveTime == /\ pc = "stamp"
                    /\ receiveTime' \in Reading(NetWord)
                    /\ pc' = "reply"
                    /\ sent' = {}
                    /\ UNCHANGED << netBuf, clientAddr, rxq, clock, inHand >>

Outcome(transmitTime) == [client   |-> clientAddr,
                          origin   |-> EncodeTime(DeserializeRequest(netBuf)),
                          receive  |-> receiveTime,
                          transmit |-> transmitTime]

Send == \E transmitTime \in Reading({receiveTime}) :
            \/ sent' = {[kind |-> "reply", answer |-> Outcome(transmitTime)]}
            \/ /\ "send" \in Faults
               /\ sent' = {[kind |-> "send_failed", answer |-> Outcome(transmitTime)]}

(* Whatever run_sntp_server returns, main calls it again.                  *)
(* Faulty: main ends when a reply cannot be sent.                          *)
ReplyOrStop == /\ pc = "reply"
               /\ Send
               /\ pc' = IF \E s \in sent' : s.kind = "reply" THEN "recv" ELSE "stopped"
               /\ inHand' = {}
               /\ UNCHANGED << netBuf, clientAddr, receiveTime, rxq, clock >>
Reply == /\ pc = "reply"
         /\ Send
         /\ pc' = "recv"
         /\ inHand' = {}
         /\ UNCHANGED << netBuf, clientAddr, receiveTime, rxq, clock >>

-------------------------------------------------------------------------------
(* The environment: what the kernel has no room for is lost.               *)

Arrive(d) == /\ pc \notin {"bind", "stopped"}
             /\ Len(rxq) < SocketDepth
             /\ rxq' = Append(rxq, d)
             /\ sent' = {}
             /\ UNCHANGED << serverVars, clock, inHand >>

(* The clock goes on or is set.  MaxReadings bounds how often it does so   *)
(* during one request.                                                     *)
ClockMoves == /\ clock' \in Word \ {clock}
              /\ inHand' = {[r EXCEPT !.seen = Append(@, clock')] : r \in inHand}
              /\ \A r \in inHand' : Len(r.seen) <= MaxReadings
              /\ sent' = {}
              /\ UNCHANGED << serverVars, rxq >>

Next == \/ InitUDPSocket \/ ReceiveRequest \/ ReceiveUnexpected \/ ReceiveError
        \/ StampReceiveTime \/ Reply
        \/ \E d \in Datagram : Arrive(d)
        \/ ClockMoves

Spec == Init /\ [][Next]_vars

(* The process is scheduled, and recvfrom does not fail for ever while     *)
(* datagrams wait.                                                         *)
FairSpec == /\ Spec
            /\ WF_vars(ReceiveRequest \/ ReceiveUnexpected)
            /\ WF_vars(StampReceiveTime) /\ WF_vars(Reply)

-------------------------------------------------------------------------------
(* Every variable keeps to its values, the queue to its depth.             *)
TypeOK == /\ pc \in {"bind", "recv", "stamp", "reply", "stopped"}
          /\ netBuf \in NetWord
          /\ clientAddr \in Clients
          /\ receiveTime \in NetWord
          /\ rxq \in Seq(Datagram) /\ Len(rxq) <= SocketDepth
          /\ clock \in Word
          /\ inHand \subseteq [client : Clients, xmt : NetWord, seen : Seq(Word)]
          /\ sent \subseteq [kind : {"reply", "send_failed"},
                             answer : [client : Clients, origin : NetWord,
                                       receive : NetWord, transmit : NetWord]]

(* The test server keeps the promise of SntpService, as long as its clock  *)
(* can be read: one answer at most to each request it takes, to its sender,*)
(* with its own time stamp, and with readings taken in between; datagrams  *)
(* of other sizes leave no trace in an answer.                             *)
AsRead(answer) == [client   |-> answer.client,
                   origin   |-> answer.origin,
                   receive  |-> Ntohl(answer.receive),
                   transmit |-> Ntohl(answer.transmit)]
Shown == {AsRead(s.answer) : s \in {r \in sent : r.kind = "reply"}}
Service == INSTANCE SntpService WITH Times <- Word, answer <- Shown
ImplementsService == Service!Spec

(* A request at the head of the queue is answered, or sending its answer   *)
(* is tried in vain, whatever else arrives and whatever fails before it.   *)
RequestsAnswered ==
    \A d \in Datagram :
        (rxq # << >> /\ Head(rxq) = d /\ d.size \in {"exact", "long"})
            ~> (\E s \in sent : s.answer.client = d.client /\ s.answer.origin = d.xmt)
===============================================================================
