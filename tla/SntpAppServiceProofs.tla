------------------------- MODULE SntpAppServiceProofs -------------------------
(***************************************************************************)
(* What the application promises to its clients: it implements SntpService *)
(* while its clock can be read, its time stamps are readings of the clock, *)
(* and it answers each request once; for any clients, packets, faults of   *)
(* other services, queue depths and histories.                             *)
(***************************************************************************)
EXTENDS SntpAppHistoryProofs

USE DEF vars, dataVars, reqVars, busVars, netVars, envVars, Hand, Shown

Exchanged == {"request", "reply", "send_failed"}

(* The steps that are not those of a request in hand: before and after one *)
(* (Apart), and of the environment while there is one (Meanwhile).         *)
Apart     == /\ pc \notin Handling /\ pc' \notin Handling
             /\ clock' = clock
             /\ obs'.kind \notin Exchanged
Meanwhile == /\ obs'.kind \in {"none", "exit_request"}
             /\ UNCHANGED << pc, clock, netBuf, clientAddr, receiveTime >>

LEMMA RequestSteps ==
  ASSUME Next
  PROVE  Apart \/ Meanwhile \/ ReceiveRequest \/ StampReceiveTime \/ Reply \/ ClockMoves
<1> USE DEF Handling, Exchanged, Silent, Event
<1>1. CASE Start \/ Register \/ CreatePipe \/ SubscribeHk \/ SubscribeCmd
  BY <1>1 DEF Start, Register, CreatePipe, SubscribeHk, SubscribeCmd, Subscribe, InitFails, Apart
<1>2. CASE InitUDPSocket \/ RunLoop \/ ExitApp
  BY <1>2 DEF InitUDPSocket, BindFails, BindSucceeds, InitFails, RunLoop, ExitApp, Apart
<1>3. CASE PollCommand
  <2>1. ProcessCommandPacket(Head(pipe))
    BY <1>3 DEF PollCommand
  <2>2. obs'.kind \notin Exchanged
    BY <2>1 DEF ProcessCommandPacket, ProcessGroundCommand, Noop, ResetCounters, LengthError,
                ReportHousekeeping, CommandEvent, Telemetry
  <2>3. QED BY <1>3, <2>2 DEF PollCommand, Apart
<1>4. CASE PollNothing
  BY <1>4 DEF PollNothing, Apart
<1>5. CASE ReceiveInvalid \/ ReceiveEmpty
  BY <1>5 DEF ReceiveInvalid, ReceiveEmpty, Receive, Apart
<1>6. CASE ReceiveTimeout \/ ReceiveError
  BY <1>6 DEF ReceiveTimeout, ReceiveError, Apart
<1>7. CASE RequestExit \/ ForeignPort
  BY <1>7 DEF RequestExit, ForeignPort, Meanwhile
<1>8. CASE \E m \in Messages : Publish(m)
  BY <1>8 DEF Publish, Meanwhile
<1>9. CASE \E d \in Datagram : Arrive(d)
  BY <1>9 DEF Arrive, Meanwhile
<1>10. QED
  BY <1>1, <1>2, <1>3, <1>4, <1>5, <1>6, <1>7, <1>8, <1>9 DEF Next, Task, Environment

(* What the observer writes down at these steps.                           *)
LEMMA Observed ==
  ASSUME Observe
  PROVE  /\ obs'.kind # "request" => asked' = asked
         /\ obs'.kind = "request" => asked' = obs' /\ readings' = << clock >>
         /\ obs'.kind # "request" /\ clock' = clock => readings' = readings
         /\ obs'.kind # "request" /\ pc \in Handling /\ clock' # clock
              => readings' = Append(readings, clock')
  BY DEF Observe

-------------------------------------------------------------------------------
(* While a request is in hand, netBuf and clientAddr are still its own and *)
(* a time stamp already taken is one of the readings, of which the last    *)
(* one is what the clock says.                                             *)
InHand ==
    /\ asked.client = clientAddr /\ asked.xmt = netBuf
    /\ readings \in Seq(Word)
    /\ \E b \in DOMAIN readings : /\ readings[b] = clock
                                  /\ \A a \in DOMAIN readings : a <= b
    /\ pc = "reply" => \E a \in DOMAIN readings :
                           receiveTime = EncodeTime(SntpTimeOf(readings[a]))

HandInv == TypeOK /\ (pc \in Handling => InHand)

LEMMA WordTypes ==
  \A n \in Word : SntpTimeOf(n) \in Word /\ Ntohl(EncodeTime(SntpTimeOf(n))) = SntpTimeOf(n)
<1>1. Word \subseteq Nat
  BY TimeAssumption DEF Word, WordSize
<1>2. QED BY <1>1, SntpTimeType, NtohlHtonl DEF EncodeTime

LEMMA HandInit == HInit => HandInv
  BY TypeInit DEF HInit, Init, HandInv, Handling

LEMMA HandNext ==
  ASSUME HandInv, "clock" \notin Faults, [HNext]_hvars
  PROVE  HandInv'
<1>1. TypeOK'
  BY TypeNext DEF HandInv, HNext, hvars
<1> SUFFICES ASSUME pc' \in Handling PROVE InHand'
  BY <1>1 DEF HandInv
<1>2. CASE UNCHANGED hvars
  BY <1>2 DEF hvars, HandInv, InHand
<1> SUFFICES ASSUME Next, Observe PROVE InHand'
  BY <1>2 DEF HNext
<1>3. CASE Meanwhile
  <2>1. obs'.kind # "request" /\ clock' = clock
    BY <1>3 DEF Meanwhile
  <2>2. asked' = asked /\ readings' = readings
    BY <2>1, Observed
  <2>3. QED BY <1>3, <2>2 DEF Meanwhile, HandInv, InHand
<1>4. CASE ReceiveRequest
  <2>1. PICK d \in Datagram : /\ netBuf' = d.xmt /\ clientAddr' = d.client /\ pc' = "stamp"
                              /\ obs' = Request(d) /\ clock' = clock
    BY <1>4 DEF ReceiveRequest, Receive
  <2>2. /\ obs'.kind = "request" /\ asked' = obs' /\ readings' = << clock >>
        /\ asked'.client = clientAddr' /\ asked'.xmt = netBuf'
    BY <2>1, Observed DEF Request
  <2>3. clock \in Word
    BY DEF HandInv, TypeOK
  <2>4. readings' \in Seq(Word) /\ DOMAIN readings' = {1} /\ readings'[1] = clock'
    BY <2>1, <2>2, <2>3
  <2>5. QED BY <2>1, <2>2, <2>4 DEF InHand
<1>5. CASE StampReceiveTime
  <2>1. /\ receiveTime' = EncodeTime(SntpTimeOf(clock)) /\ obs'.kind = "none"
        /\ UNCHANGED << netBuf, clientAddr, clock >> /\ pc \in Handling
    BY <1>5 DEF StampReceiveTime, Silent, Handling
  <2>2. asked' = asked /\ readings' = readings
    BY <2>1, Observed
  <2>3. QED BY <2>1, <2>2 DEF HandInv, InHand
<1>6. CASE ClockMoves
  <2>1. /\ obs'.kind = "none" /\ clock' \in Word /\ clock' # clock
        /\ UNCHANGED << pc, netBuf, clientAddr, receiveTime >>
    BY <1>6 DEF ClockMoves, Silent
  <2>2. asked' = asked /\ readings' = Append(readings, clock') /\ InHand
    BY <2>1, Observed DEF HandInv
  <2>3. PICK n \in Nat : n = Len(readings)
    BY <2>2 DEF InHand
  <2>4. /\ DOMAIN readings = 1 .. n /\ DOMAIN readings' = 1 .. n + 1
        /\ readings' \in Seq(Word) /\ readings'[n + 1] = clock'
        /\ \A i \in 1 .. n : readings'[i] = readings[i]
    BY <2>1, <2>2, <2>3 DEF InHand
  <2>5. \E b \in DOMAIN readings' : readings'[b] = clock' /\ \A a \in DOMAIN readings' : a <= b
    BY <2>4
  <2>6. pc' = "reply" => \E a \in DOMAIN readings' :
                             receiveTime' = EncodeTime(SntpTimeOf(readings'[a]))
    BY <2>1, <2>2, <2>4 DEF InHand
  <2>7. QED BY <2>1, <2>2, <2>4, <2>5, <2>6 DEF InHand
<1>7. CASE Apart \/ Reply
  BY <1>7 DEF Apart, Reply, Handling
<1>8. QED BY <1>3, <1>4, <1>5, <1>6, <1>7, RequestSteps

(* What is shown for the request in hand: its time stamp, and two readings *)
(* of the clock.                                                           *)
LEMMA ReplyShown ==
  ASSUME HandInv, "clock" \notin Faults, Reply
  PROVE  \E a, b \in DOMAIN readings :
            /\ a <= b
            /\ obs'.kind \in {"reply", "send_failed"}
            /\ obs' = [kind     |-> obs'.kind,
                       client   |-> asked.client,
                       origin   |-> asked.xmt,
                       receive  |-> EncodeTime(SntpTimeOf(readings[a])),
                       transmit |-> EncodeTime(SntpTimeOf(readings[b]))]
<1>1. InHand /\ pc = "reply"
  BY DEF HandInv, Reply, Handling
<1>2. PICK a \in DOMAIN readings : receiveTime = EncodeTime(SntpTimeOf(readings[a]))
  BY <1>1 DEF InHand
<1>3. PICK b \in DOMAIN readings : readings[b] = clock /\ a <= b
  BY <1>1, <1>2 DEF InHand
<1>4. PICK k \in {"reply", "send_failed"} :
          obs' = Outcome(k, clientAddr, EncodeTime(DeserializeRequest(netBuf)),
                         receiveTime, EncodeTime(SntpTimeOf(clock)))
  BY DEF Reply
<1>5. EncodeTime(DeserializeRequest(netBuf)) = netBuf
  BY EchoIsExact DEF HandInv, TypeOK
<1>6. /\ obs'.kind = k
      /\ obs' = [kind |-> k, client |-> asked.client, origin |-> asked.xmt,
                 receive  |-> EncodeTime(SntpTimeOf(readings[a])),
                 transmit |-> EncodeTime(SntpTimeOf(readings[b]))]
  BY <1>1, <1>2, <1>3, <1>4, <1>5 DEF Outcome, InHand
<1>7. QED BY <1>3, <1>6

LEMMA StampsStep ==
  ASSUME HandInv, "clock" \notin Faults, StampsAreReadings, [HNext]_hvars
  PROVE  StampsAreReadings'
<1> SUFFICES ASSUME obs'.kind \in Answers
             PROVE  \E a, b \in DOMAIN readings' : /\ a <= b
                                                   /\ IsReading(obs.receive, a)'
                                                   /\ IsReading(obs.transmit, b)'
  BY DEF StampsAreReadings
<1>1. CASE UNCHANGED hvars
  BY <1>1 DEF hvars, StampsAreReadings, IsReading
<1>2. CASE HNext
  <2>1. Next /\ Observe
    BY <1>2 DEF HNext
  <2>2. Reply
    BY <2>1, RequestSteps DEF Answers, Apart, Meanwhile, Exchanged, ReceiveRequest, Request,
                              StampReceiveTime, Silent, ClockMoves
  <2>3. obs'.kind # "request" /\ clock' = clock
    BY <2>2 DEF Reply, Outcome
  <2>4. readings' = readings
    BY <2>1, <2>3, Observed
  <2>5. PICK a, b \in DOMAIN readings :
            /\ a <= b
            /\ obs'.receive = EncodeTime(SntpTimeOf(readings[a]))
            /\ obs'.transmit = EncodeTime(SntpTimeOf(readings[b]))
    BY <2>2, ReplyShown
  <2>6. readings[a] \in Word /\ readings[b] \in Word
    BY <2>2, <2>5 DEF HandInv, InHand, Reply, Handling
  <2>7. QED BY <2>4, <2>5, <2>6, WordTypes DEF IsReading, SntpTimeOf
<1>3. QED BY <1>1, <1>2

(* The two server time stamps of an answer are readings of the clock, in   *)
(* order, taken while the request was in hand, in every reachable state.   *)
THEOREM StampsAreReadingsAlways ==
  ASSUME "clock" \notin Faults
  PROVE  HSpec => []StampsAreReadings
<1>1. HInit => StampsAreReadings
  BY DEF HInit, Init, Silent, Answers, StampsAreReadings
<1>2. HandInv /\ StampsAreReadings /\ [HNext]_hvars => HandInv' /\ StampsAreReadings'
  BY HandNext, StampsStep
<1>3. QED BY <1>1, <1>2, HandInit, PTL DEF HSpec

-------------------------------------------------------------------------------
(* The refinement: taking a request accepts it, and the reply or the       *)
(* failure to send one ends it; all else the application does is quiet.    *)

LEMMA ServiceTime == \A t : Service!SntpTimeOf(t) = SntpTimeOf(t)
  BY DEF Service!SntpTimeOf, SntpTimeOf, Service!WordSize, WordSize

LEMMA ServiceTypes == Service!NetWord = NetWord
  BY DEF Service!NetWord, NetWord, Service!Byte, Byte

LEMMA QuietStep ==
  ASSUME obs'.kind # "reply", obs'.kind # "request", clock' = clock,
         pc' \in Handling <=> pc \in Handling, Observe
  PROVE  Service!Quiet
<1>1. asked' = asked /\ readings' = readings
  BY Observed
<1>2. QED BY <1>1 DEF Service!Quiet

LEMMA ReceiveAccepts ==
  ASSUME HandInv, ReceiveRequest, Observe
  PROVE  \E client \in Clients, xmt \in Service!NetWord : Service!Accept(client, xmt)
<1>1. PICK d \in Datagram : /\ pc = "recv" /\ pc' = "stamp"
                            /\ obs' = Request(d) /\ clock' = clock
  BY DEF ReceiveRequest, Receive
<1>2. /\ obs'.kind = "request" /\ asked' = obs' /\ readings' = << clock >>
      /\ asked'.client = d.client /\ asked'.xmt = d.xmt
  BY <1>1, Observed DEF Request
<1>3. d.client \in Clients /\ d.xmt \in Service!NetWord
  BY AppAssumption, ServiceTypes DEF Datagram
<1>4. Service!Accept(d.client, d.xmt)
  BY <1>1, <1>2 DEF Service!Accept, Service!Accepted, Handling
<1>5. QED BY <1>3, <1>4

LEMMA ReplyAnswersOrDrops ==
  ASSUME HandInv, "clock" \notin Faults, Reply
  PROVE  Service!Answer \/ Service!Drop
<1>1. pc \in Handling /\ pc' \notin Handling /\ clock' = clock
  BY DEF Reply, Handling
<1>2. PICK a, b \in DOMAIN readings :
          /\ a <= b
          /\ obs'.kind \in {"reply", "send_failed"}
          /\ obs' = [kind     |-> obs'.kind,
                     client   |-> asked.client,
                     origin   |-> asked.xmt,
                     receive  |-> EncodeTime(SntpTimeOf(readings[a])),
                     transmit |-> EncodeTime(SntpTimeOf(readings[b]))]
  BY ReplyShown
<1>3. readings[a] \in Word /\ readings[b] \in Word
  BY <1>1, <1>2 DEF HandInv, InHand
<1>4. /\ obs'.client = asked.client /\ obs'.origin = asked.xmt
      /\ Ntohl(obs'.receive) = SntpTimeOf(readings[a])
      /\ Ntohl(obs'.transmit) = SntpTimeOf(readings[b])
  BY <1>2, <1>3, WordTypes
<1>5. CASE obs'.kind = "reply"
  BY <1>1, <1>2, <1>4, <1>5, ServiceTime DEF Service!Answer, Service!Answered
<1>6. CASE obs'.kind = "send_failed"
  BY <1>1, <1>6 DEF Service!Drop
<1>7. QED BY <1>2, <1>5, <1>6

LEMMA ServiceStep ==
  ASSUME HandInv, "clock" \notin Faults, [HNext]_hvars
  PROVE  [Service!Next]_(Service!svars)
<1>1. CASE UNCHANGED hvars
  BY <1>1 DEF hvars, Service!svars
<1> SUFFICES ASSUME Next, Observe PROVE Service!Next
  BY <1>1 DEF HNext
<1>2. CASE Apart
  <2>1. Service!Quiet
    BY <1>2, QuietStep DEF Apart, Exchanged
  <2>2. QED BY <2>1 DEF Service!Next
<1>3. CASE Meanwhile
  <2>1. Service!Quiet
    BY <1>3, QuietStep DEF Meanwhile
  <2>2. QED BY <2>1 DEF Service!Next
<1>4. CASE ReceiveRequest
  BY <1>4, ReceiveAccepts DEF Service!Next
<1>5. CASE StampReceiveTime
  <2>1. Service!Quiet
    BY <1>5, QuietStep DEF StampReceiveTime, Silent, Handling
  <2>2. QED BY <2>1 DEF Service!Next
<1>6. CASE Reply
  BY <1>6, ReplyAnswersOrDrops DEF Service!Next
<1>7. CASE ClockMoves
  <2>1. /\ clock' \in Word \ {clock} /\ pc' = pc /\ obs'.kind = "none"
    BY <1>7 DEF ClockMoves, Silent
  <2>2. asked' = asked /\ (pc \in Handling => readings' = Append(readings, clock'))
    BY <2>1, Observed
  <2>3. CASE pc \in Handling
    <3> DEFINE given == [client |-> asked.client, xmt |-> asked.xmt, seen |-> readings]
               now == [client |-> asked.client, xmt |-> asked.xmt,
                       seen |-> Append(readings, clock')]
    <3>1. {[r EXCEPT !.seen = Append(@, clock')] : r \in {given}} = {now}
      OBVIOUS
    <3>2. Service!ClockMoves
      BY <2>1, <2>2, <2>3, <3>1 DEF Service!ClockMoves
    <3>3. QED BY <3>2 DEF Service!Next
  <2>4. CASE pc \notin Handling
    BY <2>1, <2>4 DEF Service!ClockMoves, Service!Next
  <2>5. QED BY <2>3, <2>4
<1>8. QED BY <1>2, <1>3, <1>4, <1>5, <1>6, <1>7, RequestSteps

(* The application implements SntpService as long as its clock can be      *)
(* read, through commands, exits, restarts and whatever else fails.        *)
THEOREM AppImplementsService ==
  ASSUME "clock" \notin Faults
  PROVE  HSpec => ImplementsService
<1>1. HInit => Service!Init
  BY DEF HInit, Init, Silent, Handling, Service!Init
<1>2. HandInv /\ [HNext]_hvars => HandInv'
  BY HandNext
<1>3. HandInv /\ [HNext]_hvars => [Service!Next]_(Service!svars)
  BY ServiceStep
<1>4. QED BY <1>1, <1>2, <1>3, HandInit, PTL DEF HSpec, ImplementsService, Service!Spec

-------------------------------------------------------------------------------
(* One answer to each request.  What is inductive adds that the request in *)
(* hand, which the log shows as the last one, is the one netBuf and        *)
(* clientAddr hold.                                                        *)

Open(j) == /\ log[j].kind = "request"
           /\ log[j].client = clientAddr /\ log[j].xmt = netBuf
           /\ \A k \in j + 1 .. Len(log) : log[k].kind = "exit_request"

AnswerInv == /\ TypeOK
             /\ log \in Seq(Observation)
             /\ OneAnswerPerRequest
             /\ pc \in Handling => \E j \in DOMAIN log : Open(j)

LEMMA AnswerInit == HInit => AnswerInv
<1> SUFFICES ASSUME HInit PROVE AnswerInv
  OBVIOUS
<1>1. log \in Seq(Observation) /\ DOMAIN log = {} /\ pc = "down"
  BY DEF HInit, Init
<1>2. QED BY <1>1, TypeInit DEF HInit, AnswerInv, OneAnswerPerRequest, Handling

LEMMA ExchangeKept ==
  ASSUME log \in Seq(Observation), obs' \in Observation, Observe,
         NEW i \in DOMAIN log, NEW j \in DOMAIN log, Exchange(j, i)
  PROVE  Exchange(j, i)'
<1>1. \A k \in j + 1 .. i - 1 : log'[k] = log[k]
  BY LogGrows
<1>2. log'[i] = log[i] /\ log'[j] = log[j]
  BY LogGrows
<1>3. QED BY <1>1, <1>2 DEF Exchange

(* A step that shows neither a request nor an answer.                      *)
LEMMA AnswerOther ==
  ASSUME AnswerInv, TypeOK', Observe, Apart \/ Meanwhile
  PROVE  AnswerInv'
<1>1. obs'.kind \notin Exchanged /\ obs' \in Observation
  BY DEF Apart, Meanwhile, Exchanged, TypeOK
<1>2. PICK n \in Nat : n = Len(log)
  BY <1>1, LogGrows DEF AnswerInv
<1>3. /\ log' \in Seq(Observation) /\ DOMAIN log = 1 .. n
      /\ \A i \in 1 .. n : log'[i] = log[i]
      /\ \/ DOMAIN log' = 1 .. n /\ Len(log') = n
         \/ DOMAIN log' = 1 .. n + 1 /\ Len(log') = n + 1 /\ log'[n + 1] = obs'
  BY <1>1, <1>2, LogGrows DEF AnswerInv
<1>4. ASSUME NEW i \in DOMAIN log', log'[i].kind \in Exchanged
      PROVE  i \in DOMAIN log /\ log'[i] = log[i]
  BY <1>1, <1>3, <1>4
<1>5. ASSUME NEW i \in DOMAIN log', log'[i].kind \in Answers
      PROVE  \E j \in DOMAIN log' : Exchange(j, i)'
  <2>1. i \in DOMAIN log /\ log[i].kind \in Answers
    BY <1>4, <1>5 DEF Answers, Exchanged
  <2>2. PICK j \in DOMAIN log : Exchange(j, i)
    BY <2>1 DEF AnswerInv, OneAnswerPerRequest
  <2>3. QED BY <1>1, <1>3, <2>1, <2>2, ExchangeKept DEF AnswerInv
<1>6. ASSUME pc \in Handling, NEW j \in DOMAIN log,
             \A k \in j + 1 .. Len(log) : log[k].kind = "exit_request"
      PROVE  /\ UNCHANGED << pc, netBuf, clientAddr >>
             /\ \A k \in j + 1 .. Len(log') : log'[k].kind = "exit_request"
  <2>1. Meanwhile
    BY <1>6 DEF Apart
  <2>2. obs'.kind = "none" => log' = log
    BY <1>1, LogGrows DEF AnswerInv
  <2>3. CASE obs'.kind = "none"
    BY <2>1, <2>2, <2>3, <1>6 DEF Meanwhile
  <2>4. CASE obs'.kind = "exit_request"
    <3>1. DOMAIN log' = 1 .. n + 1 /\ Len(log') = n + 1 /\ log'[n + 1] = obs'
      BY <1>1, <1>2, <2>4, LogGrows DEF AnswerInv
    <3>2. QED BY <1>2, <1>3, <1>6, <2>1, <2>4, <3>1 DEF Meanwhile
  <2>5. QED BY <2>1, <2>3, <2>4 DEF Meanwhile
<1>7. ASSUME NEW j \in DOMAIN log', log'[j].kind = "request"
      PROVE  \/ \E i \in DOMAIN log' : Exchange(j, i)'
             \/ /\ pc' \in Handling
                /\ \A k \in j + 1 .. Len(log') : log'[k].kind = "exit_request"
  <2>1. j \in DOMAIN log /\ log[j].kind = "request"
    BY <1>4, <1>7 DEF Exchanged
  <2>2. CASE \E i \in DOMAIN log : Exchange(j, i)
    <3>1. PICK i \in DOMAIN log : Exchange(j, i)
      BY <2>2
    <3>2. QED BY <1>1, <1>3, <2>1, <3>1, ExchangeKept DEF AnswerInv
  <2>3. CASE pc \in Handling /\ \A k \in j + 1 .. Len(log) : log[k].kind = "exit_request"
    BY <2>1, <2>3, <1>6
  <2>4. QED BY <2>1, <2>2, <2>3 DEF AnswerInv, OneAnswerPerRequest
<1>8. pc' \in Handling => \E j \in DOMAIN log' : Open(j)'
  <2> SUFFICES ASSUME pc' \in Handling PROVE \E j \in DOMAIN log' : Open(j)'
    OBVIOUS
  <2>1. pc \in Handling
    BY DEF Apart, Meanwhile
  <2>2. PICK j \in DOMAIN log : Open(j)
    BY <2>1 DEF AnswerInv
  <2>3. Open(j)'
    BY <1>3, <1>6, <2>1, <2>2 DEF Open
  <2>4. QED BY <1>3, <2>3
<1>9. QED BY <1>3, <1>5, <1>7, <1>8 DEF AnswerInv, OneAnswerPerRequest
LEMMA AnswerSilent ==
  ASSUME AnswerInv, TypeOK', UNCHANGED << log, netBuf, clientAddr >>,
         pc' \in Handling <=> pc \in Handling
  PROVE  AnswerInv'
<1>1. log' \in Seq(Observation)
  BY DEF AnswerInv
<1>2. OneAnswerPerRequest'
  BY DEF AnswerInv, OneAnswerPerRequest, Exchange
<1>3. pc' \in Handling => \E j \in DOMAIN log' : Open(j)'
  BY DEF AnswerInv, Open
<1>4. QED BY <1>1, <1>2, <1>3 DEF AnswerInv

LEMMA AnswerRequest == ASSUME AnswerInv, TypeOK', Observe, ReceiveRequest PROVE AnswerInv'
<1>1. PICK d \in Datagram : /\ netBuf' = d.xmt /\ clientAddr' = d.client /\ pc' = "stamp"
                            /\ obs' = Request(d) /\ pc = "recv"
  BY DEF ReceiveRequest, Receive
<1>2. /\ obs'.kind = "request" /\ obs'.client = clientAddr' /\ obs'.xmt = netBuf'
      /\ obs' \in Observation
  BY <1>1 DEF Request, TypeOK
<1>3. PICK n \in Nat : n = Len(log)
  BY <1>2, LogGrows DEF AnswerInv
<1>4. /\ log' \in Seq(Observation) /\ DOMAIN log = 1 .. n
      /\ \A i \in 1 .. n : log'[i] = log[i]
      /\ DOMAIN log' = 1 .. n + 1 /\ Len(log') = n + 1 /\ log'[n + 1] = obs'
  BY <1>2, <1>3, LogGrows DEF AnswerInv
<1>5. Open(n + 1)'
  BY <1>2, <1>4 DEF Open
<1>6. ASSUME NEW i \in DOMAIN log', log'[i].kind \in Answers
      PROVE  \E j \in DOMAIN log' : Exchange(j, i)'
  <2>1. i \in DOMAIN log /\ log[i].kind \in Answers
    BY <1>2, <1>4, <1>6 DEF Answers
  <2>2. PICK j \in DOMAIN log : Exchange(j, i)
    BY <2>1 DEF AnswerInv, OneAnswerPerRequest
  <2>3. QED BY <1>2, <1>4, <2>1, <2>2, ExchangeKept DEF AnswerInv
<1>7. ASSUME NEW j \in DOMAIN log', log'[j].kind = "request"
      PROVE  \/ \E i \in DOMAIN log' : Exchange(j, i)'
             \/ /\ pc' \in Handling
                /\ \A k \in j + 1 .. Len(log') : log'[k].kind = "exit_request"
  <2>1. CASE j = n + 1
    BY <1>1, <1>4, <2>1 DEF Handling
  <2>2. CASE j \in DOMAIN log
    <3>1. pc \notin Handling /\ log[j].kind = "request"
      BY <1>1, <1>4, <1>7, <2>2 DEF Handling
    <3>2. PICK i \in DOMAIN log : Exchange(j, i)
      BY <2>2, <3>1 DEF AnswerInv, OneAnswerPerRequest
    <3>3. QED BY <1>2, <1>4, <2>2, <3>2, ExchangeKept DEF AnswerInv
  <2>3. QED BY <1>4, <2>1, <2>2
<1>8. QED BY <1>4, <1>5, <1>6, <1>7 DEF AnswerInv, OneAnswerPerRequest

LEMMA AnswerReply == ASSUME AnswerInv, TypeOK', Observe, Reply PROVE AnswerInv'
<1>1. /\ obs'.kind \in Answers /\ obs'.client = clientAddr /\ obs' \in Observation
      /\ obs'.origin = EncodeTime(DeserializeRequest(netBuf))
      /\ pc \in Handling /\ pc' \notin Handling
  BY DEF Reply, Outcome, Answers, Handling, TypeOK
<1>2. obs'.origin = netBuf
  BY <1>1, EchoIsExact DEF AnswerInv, TypeOK
<1>3. PICK n \in Nat : n = Len(log)
  BY <1>1, LogGrows DEF AnswerInv
<1>4. /\ log' \in Seq(Observation) /\ DOMAIN log = 1 .. n
      /\ \A i \in 1 .. n : log'[i] = log[i]
      /\ DOMAIN log' = 1 .. n + 1 /\ Len(log') = n + 1 /\ log'[n + 1] = obs'
  BY <1>1, <1>3, LogGrows DEF AnswerInv, Answers
<1>5. PICK open \in DOMAIN log : Open(open)
  BY <1>1 DEF AnswerInv
<1>6. Exchange(open, n + 1)'
  <2>1. \A k \in open + 1 .. n : log'[k].kind = "exit_request"
    BY <1>3, <1>4, <1>5 DEF Open
  <2>2. open < n + 1 /\ open + 1 .. (n + 1) - 1 = open + 1 .. n
    BY <1>4
  <2>3. /\ log'[open].kind = "request"
        /\ log'[open].client = clientAddr /\ log'[open].xmt = netBuf
    BY <1>4, <1>5 DEF Open
  <2>4. QED BY <1>1, <1>2, <1>4, <2>1, <2>2, <2>3 DEF Exchange
<1>7. ASSUME NEW i \in DOMAIN log', log'[i].kind \in Answers
      PROVE  \E j \in DOMAIN log' : Exchange(j, i)'
  <2>1. CASE i = n + 1
    BY <1>4, <1>6, <2>1
  <2>2. CASE i \in DOMAIN log
    <3>1. PICK j \in DOMAIN log : Exchange(j, i)
      BY <1>4, <1>7, <2>2 DEF AnswerInv, OneAnswerPerRequest
    <3>2. QED BY <1>1, <1>4, <2>2, <3>1, ExchangeKept DEF AnswerInv
  <2>3. QED BY <1>4, <2>1, <2>2
<1>8. ASSUME NEW j \in DOMAIN log', log'[j].kind = "request"
      PROVE  \E i \in DOMAIN log' : Exchange(j, i)'
  <2>1. j \in DOMAIN log /\ log[j].kind = "request"
    BY <1>1, <1>4, <1>8 DEF Answers
  <2>2. CASE \E i \in DOMAIN log : Exchange(j, i)
    <3>1. PICK i \in DOMAIN log : Exchange(j, i)
      BY <2>2
    <3>2. QED BY <1>1, <1>4, <2>1, <3>1, ExchangeKept DEF AnswerInv
  <2>3. CASE \A k \in j + 1 .. Len(log) : log[k].kind = "exit_request"
    <3>1. ~(open < j) /\ ~(j < open)
      BY <1>3, <1>4, <1>5, <2>1, <2>3 DEF Open
    <3>2. j = open
      BY <1>4, <2>1, <3>1
    <3>3. QED BY <1>4, <1>6, <3>2
  <2>4. QED BY <2>1, <2>2, <2>3 DEF AnswerInv, OneAnswerPerRequest
<1>9. QED BY <1>1, <1>4, <1>7, <1>8 DEF AnswerInv, OneAnswerPerRequest

LEMMA AnswerNext == AnswerInv /\ [HNext]_hvars => AnswerInv'
<1> SUFFICES ASSUME AnswerInv, [HNext]_hvars PROVE AnswerInv'
  OBVIOUS
<1>1. TypeOK'
  BY TypeNext DEF AnswerInv, HNext, hvars
<1>2. CASE UNCHANGED hvars
  BY <1>1, <1>2, AnswerSilent DEF hvars
<1> SUFFICES ASSUME Next, Observe PROVE AnswerInv'
  BY <1>2 DEF HNext
<1>3. CASE Apart \/ Meanwhile
  BY <1>1, <1>3, AnswerOther
<1>4. CASE StampReceiveTime \/ ClockMoves
  <2>1. /\ obs'.kind = "none" /\ UNCHANGED << netBuf, clientAddr >>
        /\ pc' \in Handling <=> pc \in Handling
    BY <1>4 DEF StampReceiveTime, ClockMoves, Silent, Handling
  <2>2. log' = log
    BY <2>1 DEF Observe
  <2>3. QED BY <1>1, <2>1, <2>2, AnswerSilent
<1>5. CASE ReceiveRequest
  BY <1>1, <1>5, AnswerRequest
<1>6. CASE Reply
  BY <1>1, <1>6, AnswerReply
<1>7. QED BY <1>3, <1>4, <1>5, <1>6, RequestSteps

(* Each answer answers a request, and each request but the one in hand was *)
(* answered, whatever fails: none twice, none to another client.           *)
THEOREM OneAnswerPerRequestAlways == HSpec => []OneAnswerPerRequest
<1>1. AnswerInv => OneAnswerPerRequest
  BY DEF AnswerInv
<1>2. QED BY <1>1, AnswerInit, AnswerNext, PTL DEF HSpec
===============================================================================
