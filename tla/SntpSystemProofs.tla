--------------------------- MODULE SntpSystemProofs ---------------------------
(***************************************************************************)
(* The application, its clients and the network together implement         *)
(* SntpExchange, so that what SntpExchangeProofs proves of clients and a   *)
(* promised server holds of them; for any clients, packets, clocks, queue  *)
(* depths, faults but those of the clock, and histories.                   *)
(***************************************************************************)
EXTENDS SntpSystem, SntpAppServiceProofs

USE DEF vars, dataVars, reqVars, busVars, netVars, envVars, hvars, sysVars, clientVars, Hand, Shown,
        Net!vars, Net!clientVars, Net!serviceVars,
        Net!netVars, Net!Service!Quiet

-------------------------------------------------------------------------------
(* The requests that wait in the application's socket.                     *)

AsRequest(d) == [client |-> d.client, xmt |-> d.xmt]

LEMMA WaitingMeans ==
  ASSUME NEW queue
  PROVE  \A r : r \in Waiting(queue) <=>
                   \E i \in DOMAIN queue : Served(queue[i]) /\ r = AsRequest(queue[i])
  BY DEF Waiting, AsRequest

LEMMA WaitingInTail ==
  ASSUME NEW queue \in Seq(Datagram), queue # << >>
  PROVE  Waiting(queue) = Waiting(Tail(queue)) \cup
                             (IF Served(Head(queue)) THEN {AsRequest(Head(queue))} ELSE {})
<1> DEFINE n == Len(queue)
<1>1. /\ n \in Nat \ {0} /\ DOMAIN queue = 1 .. n /\ Head(queue) = queue[1]
      /\ DOMAIN Tail(queue) = 1 .. n - 1
      /\ \A i \in 1 .. n - 1 : Tail(queue)[i] = queue[i + 1]
  BY HeadTailProperties, LenProperties
<1> HIDE DEF n
<1>2. ASSUME NEW i \in 1 .. n PROVE i = 1 \/ (i - 1 \in 1 .. n - 1 /\ queue[i] = Tail(queue)[i - 1])
  BY <1>1
<1>3. ASSUME NEW i \in 1 .. n - 1 PROVE i + 1 \in 1 .. n /\ Tail(queue)[i] = queue[i + 1]
  BY <1>1
<1>4. 1 \in 1 .. n
  BY <1>1
<1>5. \A r : r \in Waiting(queue) <=> (r \in Waiting(Tail(queue)) \/
                                       (Served(Head(queue)) /\ r = AsRequest(Head(queue))))
  <2> TAKE r
  <2>1. ASSUME r \in Waiting(queue)
        PROVE  r \in Waiting(Tail(queue)) \/ (Served(Head(queue)) /\ r = AsRequest(Head(queue)))
    <3>1. PICK i \in 1 .. n : Served(queue[i]) /\ r = AsRequest(queue[i])
      BY <1>1, <2>1, WaitingMeans
    <3>2. CASE i = 1
      BY <1>1, <3>1, <3>2
    <3>3. CASE i - 1 \in 1 .. n - 1 /\ queue[i] = Tail(queue)[i - 1]
      BY <1>1, <3>1, <3>3, WaitingMeans
    <3>4. QED BY <1>2, <3>2, <3>3
  <2>2. ASSUME r \in Waiting(Tail(queue)) PROVE r \in Waiting(queue)
    <3>1. PICK i \in DOMAIN Tail(queue) : Served(Tail(queue)[i]) /\ r = AsRequest(Tail(queue)[i])
      BY <2>2, WaitingMeans
    <3>2. QED BY <1>1, <1>3, <3>1, WaitingMeans
  <2>3. ASSUME Served(Head(queue)), r = AsRequest(Head(queue)) PROVE r \in Waiting(queue)
    BY <1>1, <1>4, <2>3, WaitingMeans
  <2>4. QED BY <2>1, <2>2, <2>3
<1>6. QED BY <1>5

LEMMA WaitingInAppend ==
  ASSUME NEW queue \in Seq(Datagram), NEW d \in Datagram
  PROVE  Waiting(Append(queue, d)) = Waiting(queue) \cup
                                        (IF Served(d) THEN {AsRequest(d)} ELSE {})
<1> DEFINE n == Len(queue)
           q == Append(queue, d)
<1>1. /\ n \in Nat /\ DOMAIN queue = 1 .. n /\ DOMAIN q = 1 .. n + 1
      /\ q[n + 1] = d /\ \A i \in 1 .. n : q[i] = queue[i]
  BY AppendProperties, LenProperties
<1> HIDE DEF n, q
<1>2. n + 1 \in 1 .. n + 1 /\ \A i \in 1 .. n + 1 : i \in 1 .. n \/ i = n + 1
  BY <1>1
<1>3. \A i \in 1 .. n : i \in 1 .. n + 1
  BY <1>1
<1>4. \A r : r \in Waiting(q) <=> (r \in Waiting(queue) \/ (Served(d) /\ r = AsRequest(d)))
  BY <1>1, <1>2, <1>3, WaitingMeans
<1>5. QED BY <1>4 DEF q

LEMMA WaitingInNothing == Waiting(<< >>) = {}
  BY DEF Waiting

-------------------------------------------------------------------------------
(* What is inductive.  Outside the application the clock is one of         *)
(* SntpExchange's, and what clients send, and the network carries, is what *)
(* the application may receive.  Inside, it is HandInv: while a request is *)
(* in hand, what the application holds of it is that request's own.        *)

WorldInv ==
    /\ clock \in Begin .. Begin + Duration
    /\ network \subseteq [client : Clients, xmt : XmtTimes]
    /\ at \in [Clients -> {"off", "send", "wait", "received"}]
    /\ requestTime \in [Clients -> Word]
    /\ \A p \in Clients : at[p] = "send" => EncodeTime(requestTime[p]) \in XmtTimes

SystemInv == HandInv /\ WorldInv

(* Steps of the application and around it that bring it no request.        *)
Inside == \/ Task \/ Start \/ RequestExit \/ ForeignPort
          \/ \E m \in Messages : Publish(m)

LEMMA InsideKeeps ==
  ASSUME Inside
  PROVE  /\ clock' = clock
         /\ rxq' = rxq \/ rxq' = << >> \/ (rxq # << >> /\ rxq' = Tail(rxq))
<1>1. CASE Start \/ Register \/ CreatePipe \/ SubscribeHk \/ SubscribeCmd
  BY <1>1 DEF Start, Register, CreatePipe, SubscribeHk, SubscribeCmd, Subscribe, InitFails
<1>2. CASE InitUDPSocket \/ RunLoop \/ ExitApp
  BY <1>2 DEF InitUDPSocket, BindFails, BindSucceeds, InitFails, RunLoop, ExitApp
<1>3. CASE PollCommand \/ PollNothing
  BY <1>3 DEF PollCommand, PollNothing
<1>4. CASE ReceiveRequest \/ ReceiveInvalid \/ ReceiveEmpty
  BY <1>4 DEF ReceiveRequest, ReceiveInvalid, ReceiveEmpty, Receive
<1>5. CASE ReceiveTimeout \/ ReceiveError
  BY <1>5 DEF ReceiveTimeout, ReceiveError
<1>6. CASE StampReceiveTime \/ Reply
  BY <1>6 DEF StampReceiveTime, Reply
<1>7. CASE RequestExit \/ ForeignPort
  BY <1>7 DEF RequestExit, ForeignPort
<1>8. CASE \E m \in Messages : Publish(m)
  BY <1>8 DEF Publish
<1>9. QED BY <1>1, <1>2, <1>3, <1>4, <1>5, <1>6, <1>7, <1>8 DEF Inside, Task

(* A datagram of the network is one the application may receive.           *)
LEMMA DeliveredIsServed ==
  ASSUME WorldInv, NEW d \in network
  PROVE  LET given == [client |-> d.client, size |-> "exact", xmt |-> d.xmt]
         IN  given \in Datagram /\ Served(given) /\ AsRequest(given) = d
  BY SystemAssumption DEF WorldInv, Datagram, Served, AsRequest

(* The steps of the application are those of SntpAppHistory.               *)
LEMMA AppStepIsNext ==
  ASSUME WorldInv, AppSteps
  PROVE  HNext
<1>1. CASE \E d \in network : Deliver(d)
  <2>1. PICK d \in network : Arrive([client |-> d.client, size |-> "exact", xmt |-> d.xmt])
    BY <1>1 DEF Deliver
  <2>2. \E g \in Datagram : Arrive(g)
    BY <2>1, DeliveredIsServed
  <2>3. QED BY <2>2 DEF AppSteps, HNext, Next, Environment
<1>2. CASE Task \/ Start \/ RequestExit \/ ForeignPort \/ Tick
  BY <1>2 DEF AppSteps, HNext, Next, Environment, Tick
<1>3. CASE (\E m \in Messages : Publish(m)) \/ \E d \in Datagram : ~Served(d) /\ Arrive(d)
  BY <1>3 DEF AppSteps, HNext, Next, Environment
<1>4. QED BY <1>1, <1>2, <1>3 DEF AppSteps

(* SntpExchange and the SntpService it has have copies of SntpTime.        *)
LEMMA NetTime ==
  /\ \A t : /\ Net!SntpTimeOf(t) = SntpTimeOf(t)
            /\ Net!Service!SntpTimeOf(t) = SntpTimeOf(t)
            /\ Net!EncodeTime(t) = EncodeTime(t)
  /\ Net!WordSize = WordSize
  BY DEF Net!SntpTimeOf, Net!Service!SntpTimeOf, SntpTimeOf, Net!EncodeTime, EncodeTime,
         Net!Htonl, Htonl, Net!WordSize, Net!Service!WordSize, WordSize

LEMMA ClockType == Begin .. Begin + Duration \subseteq Word
<1>1. Begin \in Nat /\ Duration \in Nat /\ Begin + Duration < WordSize /\ WordSize \in Nat
  BY SystemAssumption, TimeAssumption DEF Net!ExchangeAssumption, WordSize
<1>2. QED BY <1>1 DEF Word

(* The reading a client takes when it starts a query.                      *)
LEMMA ClientReading ==
  ASSUME WorldInv, NEW p \in Clients
  PROVE  /\ SntpTimeOf(clock + Ahead[p]) \in Word
         /\ EncodeTime(SntpTimeOf(clock + Ahead[p])) \in XmtTimes
<1>1. /\ Begin \in Nat /\ Duration \in Nat /\ Ahead[p] \in Int /\ Begin + Ahead[p] >= 0
  BY SystemAssumption DEF Net!ExchangeAssumption
<1>2. clock + Ahead[p] \in Nat
  BY <1>1 DEF WorldInv
<1>3. QED BY <1>2, SntpTimeType, SystemAssumption DEF WorldInv

LEMMA WorldInit == SystemInit => WorldInv
<1> SUFFICES ASSUME SystemInit PROVE WorldInv
  OBVIOUS
<1>1. at = [p \in Clients |-> "off"] /\ requestTime = [p \in Clients |-> 0] /\ 0 \in Word
  BY ZeroWord DEF SystemInit, Net!ClientInit
<1>2. clock \in Begin .. Begin + Duration
  BY SystemAssumption DEF SystemInit, Net!ExchangeAssumption
<1>3. QED BY <1>1, <1>2 DEF SystemInit, WorldInv

(* What a step of a client leaves behind.                                  *)
LEMMA WorldClient == ASSUME WorldInv, ClientSteps PROVE WorldInv'
<1>1. clock' = clock
  BY DEF ClientSteps, AppRests
<1>2. PICK p \in Clients :
         \/ /\ UNCHANGED network
            /\ \/ Net!Query(p) \/ Net!AskAborts(p) \/ Net!AskFails(p)
               \/ Net!Hear(p) \/ Net!HearNothing(p) \/ Net!Evaluate(p)
         \/ /\ network' \in {network, network \cup {[client |-> p, xmt |-> Net!RequestXmt(p)]}}
            /\ Net!Ask(p)
  BY DEF ClientSteps
<1> USE DEF WorldInv
<1>3. CASE UNCHANGED network /\ Net!Query(p)
  <2>1. /\ at' = [at EXCEPT ![p] = "send"]
        /\ requestTime' = [requestTime EXCEPT ![p] = SntpTimeOf(clock + Ahead[p])]
    BY <1>3, NetTime DEF Net!Query, Net!StartQuery, Net!ClientClock
  <2>2. QED BY <1>1, <1>3, <2>1, ClientReading
<1>4. CASE UNCHANGED network /\ (\/ Net!AskAborts(p) \/ Net!AskFails(p)
                                \/ Net!HearNothing(p) \/ Net!Evaluate(p))
  <2>1. at' = [at EXCEPT ![p] = "off"] /\ requestTime' = requestTime
    BY <1>4 DEF Net!AskAborts, Net!AssertFails, Net!AskFails, Net!SendFails, Net!HearNothing, Net!ReceiveFails,
                Net!Evaluate, Net!Judge, Net!Verdict, Net!Returns
  <2>2. QED BY <1>1, <1>4, <2>1
<1>5. CASE UNCHANGED network /\ Net!Hear(p)
  <2>1. at' = [at EXCEPT ![p] = "received"] /\ requestTime' = requestTime
    BY <1>5 DEF Net!Hear, Net!ReceiveResponse
  <2>2. QED BY <1>1, <1>5, <2>1
<1>6. CASE /\ network' \in {network, network \cup {[client |-> p, xmt |-> Net!RequestXmt(p)]}}
           /\ Net!Ask(p)
  <2>1. /\ at[p] = "send" /\ at' = [at EXCEPT ![p] = "wait"]
        /\ requestTime' = requestTime
    BY <1>6 DEF Net!Ask, Net!SendRequest
  <2>2. Net!RequestXmt(p) \in XmtTimes
    BY <2>1, NetTime DEF Net!RequestXmt
  <2>3. network' \subseteq [client : Clients, xmt : XmtTimes]
    BY <1>6, <2>2
  <2>4. QED BY <1>1, <2>1, <2>3
<1>7. QED BY <1>2, <1>3, <1>4, <1>5, <1>6

LEMMA WorldApp == ASSUME WorldInv, AppSteps PROVE WorldInv'
<1>1. clock' \in Begin .. Begin + Duration
  <2>1. CASE Inside \/ (\E d \in Datagram : Arrive(d)) \/ \E d \in network : Deliver(d)
    <3>1. clock' = clock
      BY <2>1, InsideKeeps DEF Arrive, Deliver
    <3>2. QED BY <3>1 DEF WorldInv
  <2>2. CASE Tick
    <3>1. Begin \in Nat /\ Duration \in Nat
      BY SystemAssumption DEF Net!ExchangeAssumption
    <3>2. QED BY <2>2, <3>1 DEF Tick, WorldInv
  <2>3. QED BY <2>1, <2>2 DEF AppSteps, Inside
<1>2. network' \subseteq network
  BY DEF AppSteps, Deliver, Net!Deliver
<1>3. UNCHANGED << at, requestTime >>
  BY DEF AppSteps
<1>4. QED BY <1>1, <1>2, <1>3 DEF WorldInv

LEMMA WorldNext == ASSUME WorldInv, [SystemNext]_sysVars PROVE WorldInv'
<1>1. CASE Lose
  <2>1. network' \subseteq network /\ UNCHANGED << clock, at, requestTime >>
    BY <1>1 DEF Lose, AppRests
  <2>2. QED BY <2>1 DEF WorldInv
<1>2. CASE UNCHANGED sysVars
  BY <1>2 DEF WorldInv
<1>3. QED BY <1>1, <1>2, WorldClient, WorldApp DEF SystemNext

(* Every step is one of SntpAppHistory or leaves all the application and   *)
(* its observer have as it is, but for what the application shows.         *)
LEMMA AppSteppedOrRests ==
  ASSUME WorldInv, [SystemNext]_sysVars
  PROVE  [HNext]_hvars \/ AppRests
  BY AppStepIsNext DEF SystemNext, ClientSteps, Lose

LEMMA RestsKeepType == TypeOK /\ AppRests => TypeOK'
<1>1. AppRests => obs' \in Observation
  BY DEF AppRests, Silent, Observation
<1>2. QED BY <1>1 DEF AppRests, TypeOK

LEMMA HandKept ==
  ASSUME HandInv, WorldInv, "clock" \notin Faults, [SystemNext]_sysVars
  PROVE  HandInv'
<1>1. CASE AppRests
  <2>1. InHand => InHand'
    BY <1>1 DEF AppRests, InHand
  <2>2. QED BY <1>1, <2>1, RestsKeepType DEF HandInv, AppRests
<1>2. QED BY <1>1, AppSteppedOrRests, HandNext

(* Through all that clients, the network and the application do, what is   *)
(* sent is what the application may receive, and what it holds of a        *)
(* request in hand is that request's own.                                  *)
THEOREM SystemInvAlways ==
  ASSUME "clock" \notin Faults
  PROVE  SystemSpec => []SystemInv
<1>1. SystemInit => SystemInv
  BY WorldInit, HandInit DEF SystemInv, SystemInit
<1>2. SystemInv /\ [SystemNext]_sysVars => SystemInv'
  BY WorldNext, HandKept DEF SystemInv
<1>3. QED BY <1>1, <1>2, PTL DEF SystemSpec

-------------------------------------------------------------------------------
(* The refinement, one step of SntpExchange for each of the system's.      *)

(* A step that shows the clients nothing, but may lose datagrams.          *)
LEMMA QuietIsNet ==
  ASSUME Net!Service!Quiet, UNCHANGED clientVars,
         Requests' \subseteq Requests, responses' \subseteq responses,
         troubled' = troubled \cup {d.client : d \in (Requests \ Requests') \cup (responses \ responses')}
  PROVE  [Net!Next]_(Net!vars)
<1>1. CASE Requests' = Requests /\ responses' = responses
  <2>1. troubled' = troubled
    BY <1>1
  <2>2. CASE Shown = {}
    BY <1>1, <2>1, <2>2
  <2>3. CASE Shown # {}
    BY <1>1, <2>1, <2>3 DEF Net!ServerGoesOn, Net!Next
  <2>4. QED BY <2>2, <2>3
<1>2. CASE ~(Requests' = Requests /\ responses' = responses)
  <2>1. PICK left, given : left = Requests \ Requests' /\ given = responses \ responses'
    OBVIOUS
  <2>2. /\ left \in SUBSET Requests /\ given \in SUBSET responses
        /\ left \cup given # {}
        /\ Requests' = Requests \ left /\ responses' = responses \ given
        /\ troubled' = troubled \cup {d.client : d \in left \cup given}
    BY <1>2, <2>1
  <2>3. Net!Lose
    BY <2>2 DEF Net!Lose
  <2>4. QED BY <2>3 DEF Net!Next
<1>3. QED BY <1>1, <1>2

LEMMA ClientStepsAreNet == ClientSteps => Net!Next
  BY DEF ClientSteps, Net!Next

LEMMA LoseIsNet == ASSUME Lose PROVE [Net!Next]_(Net!vars)
<1>1. Net!Service!Quiet /\ rxq' = rxq
  BY DEF Lose, AppRests, Silent
<1>2. Requests' = network' \cup Waiting(rxq)
  BY <1>1 DEF Requests
<1>3. UNCHANGED clientVars
  BY DEF Lose
<1>4. CASE /\ \E d \in network : network' = network \ {d}
           /\ troubled' = troubled \cup {d.client : d \in Requests \ Requests'}
           /\ UNCHANGED responses
  <2>1. Requests' \subseteq Requests
    BY <1>2, <1>4 DEF Requests
  <2>2. (Requests \ Requests') \cup (responses \ responses') = Requests \ Requests'
    BY <1>4
  <2>3. QED BY <1>1, <1>3, <1>4, <2>1, <2>2, QuietIsNet
<1>5. CASE \E d \in responses : /\ responses' = responses \ {d}
                                /\ troubled' = troubled \cup {d.client}
                                /\ UNCHANGED network
  <2>1. PICK d \in responses : /\ responses' = responses \ {d}
                               /\ troubled' = troubled \cup {d.client}
                               /\ UNCHANGED network
    BY <1>5
  <2>2. Requests' = Requests
    BY <1>2, <2>1 DEF Requests
  <2>3. (Requests \ Requests') \cup (responses \ responses') = {d}
    BY <2>1, <2>2
  <2>4. QED BY <1>1, <1>3, <2>1, <2>2, <2>3, QuietIsNet
<1>6. QED BY <1>4, <1>5 DEF Lose

(* A step of the application that shows no request and no answer.          *)
LEMMA OtherIsNet ==
  ASSUME AppSteps, obs'.kind \notin Exchanged, clock' = clock,
         pc' \in Handling <=> pc \in Handling, Requests' \subseteq Requests
  PROVE  [Net!Next]_(Net!vars)
<1>1. Net!Service!Quiet
  BY QuietStep DEF AppSteps, Exchanged, Service!Quiet
<1>2. /\ responses' = responses /\ UNCHANGED clientVars
      /\ troubled' = troubled \cup {d.client : d \in Requests \ Requests'}
  BY DEF AppSteps, Spoilt, Exchanged
<1>3. (Requests \ Requests') \cup (responses \ responses') = Requests \ Requests'
  BY <1>2
<1>4. QED BY <1>1, <1>2, <1>3, QuietIsNet

LEMMA DeliverIsNet ==
  ASSUME SystemInv, AppSteps, NEW d \in network, Deliver(d)
  PROVE  [Net!Next]_(Net!vars)
<1> DEFINE given == [client |-> d.client, size |-> "exact", xmt |-> d.xmt]
<1>1. Arrive(given) /\ network' \in {network \ {d}, network}
  BY DEF Deliver, Net!Deliver
<1>2. given \in Datagram /\ Served(given) /\ AsRequest(given) = d
  BY DeliveredIsServed DEF SystemInv
<1> HIDE DEF given
<1>3. rxq \in Seq(Datagram) /\ rxq' = Append(rxq, given)
  BY <1>1 DEF SystemInv, HandInv, TypeOK, Arrive
<1>4. Waiting(rxq') = Waiting(rxq) \cup {d}
  BY <1>2, <1>3, WaitingInAppend
<1>5. Requests' = network' \cup Waiting(rxq')
  BY DEF Requests
<1>6. Requests' = Requests
  BY <1>1, <1>4, <1>5 DEF Requests
<1>7. obs'.kind = "none" /\ clock' = clock /\ pc' = pc
  BY <1>1 DEF Arrive, Silent
<1>8. QED BY <1>6, <1>7, OtherIsNet DEF Exchanged

LEMMA UnservedIsNet ==
  ASSUME SystemInv, AppSteps, UNCHANGED network, NEW d \in Datagram, ~Served(d), Arrive(d)
  PROVE  [Net!Next]_(Net!vars)
<1>1. rxq \in Seq(Datagram) /\ rxq' = Append(rxq, d)
  BY DEF SystemInv, HandInv, TypeOK, Arrive
<1>2. Waiting(rxq') = Waiting(rxq)
  BY <1>1, WaitingInAppend
<1>3. Requests' = network' \cup Waiting(rxq')
  BY DEF Requests
<1>4. Requests' = Requests
  BY <1>2, <1>3 DEF Requests
<1>5. obs'.kind = "none" /\ clock' = clock /\ pc' = pc
  BY DEF Arrive, Silent
<1>6. QED BY <1>4, <1>5, OtherIsNet DEF Exchanged

LEMMA TickIsNet ==
  ASSUME SystemInv, AppSteps, UNCHANGED network, Tick
  PROVE  Net!Next
<1>1. /\ clock' = clock + 1 /\ clock' <= Begin + Duration
      /\ obs'.kind = "none" /\ pc' = pc /\ rxq' = rxq /\ clock' # clock
  BY DEF Tick, ClockMoves, Silent
<1>2. clock' \in (Begin .. Begin + Duration) \ {clock}
  <2>1. Begin \in Nat /\ Duration \in Nat
    BY SystemAssumption DEF Net!ExchangeAssumption
  <2>2. QED BY <1>1, <2>1 DEF SystemInv, WorldInv
<1>3. asked' = asked /\ (pc \in Handling => readings' = Append(readings, clock'))
  BY <1>1, Observed DEF AppSteps
<1>4. Net!Service!ClockMoves
  <2>1. CASE pc \in Handling
    <3> DEFINE given == [client |-> asked.client, xmt |-> asked.xmt, seen |-> readings]
               now == [client |-> asked.client, xmt |-> asked.xmt,
                       seen |-> Append(readings, clock')]
    <3>1. {[r EXCEPT !.seen = Append(@, clock')] : r \in {given}} = {now}
      OBVIOUS
    <3>2. QED BY <1>1, <1>2, <1>3, <2>1, <3>1 DEF Net!Service!ClockMoves
  <2>2. CASE pc \notin Handling
    BY <1>1, <1>2, <2>2 DEF Net!Service!ClockMoves
  <2>3. QED BY <2>1, <2>2
<1>5. Requests' = Requests
  BY <1>1 DEF Requests
<1>6. UNCHANGED << clientVars, responses, troubled >>
  BY <1>1, <1>5 DEF AppSteps, Spoilt
<1>7. Net!Tick
  BY <1>1, <1>4, <1>5, <1>6 DEF Net!Tick
<1>8. QED BY <1>7 DEF Net!Next

(* What the application takes from its socket is no request any more, or   *)
(* the network still has it.                                               *)
LEMMA InsideRequests ==
  ASSUME SystemInv, UNCHANGED network, Inside
  PROVE  Requests' \subseteq Requests
<1>1. rxq \in Seq(Datagram)
  BY DEF SystemInv, HandInv, TypeOK
<1>2. Waiting(rxq') \subseteq Waiting(rxq)
  BY <1>1, InsideKeeps, WaitingInTail, WaitingInNothing
<1>3. Requests' = network \cup Waiting(rxq')
  BY DEF Requests
<1>4. QED BY <1>2, <1>3 DEF Requests

LEMMA ReceiveIsNet ==
  ASSUME SystemInv, AppSteps, UNCHANGED network, ReceiveRequest
  PROVE  Net!Next
<1>1. PICK d \in Datagram : /\ pc = "recv" /\ pc' = "stamp" /\ rxq # << >> /\ d = Head(rxq)
                            /\ rxq' = Tail(rxq) /\ d.size \in {"exact", "long"}
                            /\ obs' = Request(d) /\ clock' = clock
  BY DEF ReceiveRequest, Receive
<1>2. /\ obs'.kind = "request" /\ asked' = obs' /\ readings' = << clock >>
      /\ asked'.client = d.client /\ asked'.xmt = d.xmt
  BY <1>1, Observed DEF Request, AppSteps
<1>3. rxq \in Seq(Datagram) /\ Served(d)
  BY <1>1 DEF SystemInv, HandInv, TypeOK, Served
<1> DEFINE r == AsRequest(d)
<1>4. r.client = d.client /\ r.xmt = d.xmt
  BY DEF AsRequest
<1>5. Waiting(rxq) = Waiting(rxq') \cup {r}
  BY <1>1, <1>3, WaitingInTail
<1> HIDE DEF r
<1>6. Requests' = network \cup Waiting(rxq')
  BY DEF Requests
<1>7. r \in Requests /\ Requests' \in {Requests \ {r}, Requests}
  BY <1>5, <1>6 DEF Requests
<1>8. Net!Service!Accept(r.client, r.xmt)
  BY <1>1, <1>2, <1>4 DEF Net!Service!Accept, Net!Service!Accepted, Handling
<1>9. UNCHANGED << clientVars, responses, troubled >>
  BY <1>2 DEF AppSteps, Spoilt
<1>10. Net!ServerAccepts(r)
  BY <1>7, <1>8, <1>9 DEF Net!ServerAccepts, Net!Deliver
<1>11. QED BY <1>7, <1>10 DEF Net!Next

LEMMA ReplyIsNet ==
  ASSUME SystemInv, "clock" \notin Faults, AppSteps, UNCHANGED network, Reply
  PROVE  Net!Next
<1>1. /\ pc \in Handling /\ pc' \notin Handling /\ clock' = clock /\ rxq' = rxq
  BY DEF Reply, Handling
<1>2. UNCHANGED clientVars /\ Requests' = Requests
  BY <1>1 DEF AppSteps, Requests
<1>3. PICK a, b \in DOMAIN readings :
          /\ a <= b
          /\ obs'.kind \in {"reply", "send_failed"}
          /\ obs' = [kind     |-> obs'.kind,
                     client   |-> asked.client,
                     origin   |-> asked.xmt,
                     receive  |-> EncodeTime(SntpTimeOf(readings[a])),
                     transmit |-> EncodeTime(SntpTimeOf(readings[b]))]
  BY ReplyShown DEF SystemInv
<1>4. readings[a] \in Word /\ readings[b] \in Word
  BY <1>1, <1>3 DEF SystemInv, HandInv, InHand
<1>5. /\ obs'.client = asked.client /\ obs'.origin = asked.xmt
      /\ Ntohl(obs'.receive) = SntpTimeOf(readings[a])
      /\ Ntohl(obs'.transmit) = SntpTimeOf(readings[b])
  BY <1>3, <1>4, WordTypes
<1>6. CASE obs'.kind = "reply"
  <2> DEFINE shown == [client   |-> obs'.client,
                       origin   |-> obs'.origin,
                       receive  |-> Ntohl(obs'.receive),
                       transmit |-> Ntohl(obs'.transmit)]
  <2>1. Shown' = {shown}
    BY <1>6
  <2>2. Net!Service!Answer
    BY <1>1, <1>3, <1>5, <1>6, NetTime DEF Net!Service!Answer, Net!Service!Answered
  <2>3. Net!ResponseTo(shown) = Packet'
    BY DEF Net!ResponseTo, Net!Stratum, SNTP_STRATUM, Packet
  <2>4. responses' = Net!Carry(responses, Packet')
    BY <1>6 DEF AppSteps
  <2>5. troubled' = Net!Troubled(responses', Packet')
    <3>1. troubled' = troubled \cup {d.client : d \in {Packet'} \ responses'}
      BY <1>6 DEF AppSteps, Spoilt
    <3>2. QED BY <3>1 DEF Net!Troubled
  <2>6. Net!ServerAnswers
    BY <1>2, <2>1, <2>2, <2>3, <2>4, <2>5 DEF Net!ServerAnswers
  <2>7. QED BY <2>6 DEF Net!Next
<1>7. CASE obs'.kind = "send_failed"
  <2>1. Net!Service!Drop
    BY <1>1, <1>7 DEF Net!Service!Drop
  <2>2. responses' = responses
    BY <1>7 DEF AppSteps
  <2>3. troubled' = troubled \cup {d.client : d \in {obs'}}
    BY <1>7 DEF AppSteps, Spoilt
  <2>4. troubled' = troubled \cup {d.client : d \in Hand}
    BY <1>1, <1>5, <2>3
  <2>5. Net!ServerDrops
    BY <1>2, <2>1, <2>2, <2>4 DEF Net!ServerDrops
  <2>6. QED BY <2>5 DEF Net!Next
<1>8. QED BY <1>3, <1>6, <1>7

LEMMA AppStepsAreNet ==
  ASSUME SystemInv, "clock" \notin Faults, AppSteps
  PROVE  [Net!Next]_(Net!vars)
<1>1. CASE \E d \in network : Deliver(d)
  BY <1>1, DeliverIsNet
<1>2. CASE UNCHANGED network /\ \E d \in Datagram : ~Served(d) /\ Arrive(d)
  BY <1>2, UnservedIsNet
<1>3. CASE UNCHANGED network /\ Tick
  BY <1>3, TickIsNet
<1>4. CASE UNCHANGED network /\ Inside
  <2>1. Requests' \subseteq Requests /\ clock' = clock
    BY <1>4, InsideRequests, InsideKeeps
  <2>2. Next
    BY <1>4 DEF Inside, Next, Environment
  <2>3. CASE Apart \/ Meanwhile
    BY <2>1, <2>3, OtherIsNet DEF Apart, Meanwhile, Exchanged
  <2>4. CASE StampReceiveTime
    BY <2>1, <2>4, OtherIsNet DEF StampReceiveTime, Silent, Handling, Exchanged
  <2>5. CASE ReceiveRequest
    BY <1>4, <2>5, ReceiveIsNet
  <2>6. CASE Reply
    BY <1>4, <2>6, ReplyIsNet
  <2>7. ~ClockMoves
    BY <2>1 DEF ClockMoves
  <2>8. QED BY <2>2, <2>3, <2>4, <2>5, <2>6, <2>7, RequestSteps
<1>5. QED BY <1>1, <1>2, <1>3, <1>4 DEF AppSteps, Inside

LEMMA SystemStep ==
  ASSUME SystemInv, "clock" \notin Faults, [SystemNext]_sysVars
  PROVE  [Net!Next]_(Net!vars)
<1>1. CASE UNCHANGED sysVars
  BY <1>1 DEF Requests
<1>2. CASE SystemNext
  BY <1>2, ClientStepsAreNet, LoseIsNet, AppStepsAreNet DEF SystemNext
<1>3. QED BY <1>1, <1>2

LEMMA SystemStart == SystemInit => Net!Init
<1> SUFFICES ASSUME SystemInit PROVE Net!Init
  OBVIOUS
<1>1. pc = "down" /\ obs = Silent /\ rxq = << >> /\ clock = Begin
  BY DEF SystemInit, HInit, Init
<1>2. Hand = {} /\ Shown = {}
  BY <1>1 DEF Handling, Silent
<1>3. Requests = {}
  BY <1>1, WaitingInNothing DEF SystemInit, Requests
<1>4. Begin \in Begin .. Begin + Duration
  BY SystemAssumption DEF Net!ExchangeAssumption
<1>5. QED BY <1>1, <1>2, <1>3, <1>4 DEF SystemInit, Net!Init, Net!Service!Init

(* Clients, network and application implement SntpExchange as long as the  *)
(* application's clock can be read: through commands, exits and restarts   *)
(* that lose the requests in the socket, full queues, datagrams of other   *)
(* sizes, and replies that cannot be sent.                                 *)
THEOREM SystemImplementsExchange ==
  ASSUME "clock" \notin Faults
  PROVE  SystemSpec => ImplementsExchange
<1>1. SystemInv /\ [SystemNext]_sysVars => [Net!Next]_(Net!vars)
  BY SystemStep
<1>2. SystemInit => Net!Init
  BY SystemStart
<1>3. QED BY <1>1, <1>2, SystemInvAlways, PTL DEF SystemSpec, ImplementsExchange, Net!Spec

-------------------------------------------------------------------------------
(* What SntpExchangeProofs proves of every SntpExchange it proves of this  *)
(* one.  The instance of its theorems has definitions of its own; they are *)
(* those of Net under other names.                                         *)

Proved == INSTANCE SntpExchangeProofs WITH
    Ports <- Clients, Start <- Begin, Faults <- {"lose", "repeat", "serialize", "send", "recv"},
    StratumArg <- SNTP_STRATUM, StratumSize <- 256,
    netBuf <- response, requests <- Requests, inHand <- Hand, answer <- Shown

LEMMA SameCardinality == \A S : Net!Cardinality(S) = Proved!Cardinality(S)
  BY DEF Net!Cardinality, Proved!Cardinality

LEMMA SameNext == Net!Next = Proved!Next
<1> USE SameCardinality
    DEF Net!SntpTimeOf, Proved!SntpTimeOf, Net!WordSize, Proved!WordSize,
        Net!Htonl, Proved!Htonl, Net!EncodeTime, Proved!EncodeTime,
        Net!Service!SntpTimeOf, Proved!Service!SntpTimeOf,
        Net!Service!WordSize, Proved!Service!WordSize, Net!NoResponse, Proved!NoResponse,
        Net!ClientClock, Proved!ClientClock, Net!RequestXmt, Proved!RequestXmt,
        Net!clientVars, Proved!clientVars, Net!serviceVars, Proved!serviceVars,
        Net!netVars, Proved!netVars, Net!vars, Proved!vars, Net!Carry, Proved!Carry,
        Net!Troubled, Proved!Troubled, Net!Deliver, Proved!Deliver,
        Net!UnderWay, Proved!UnderWay, Net!StartQuery, Proved!StartQuery,
        Net!Returns, Proved!Returns, Net!Verdict, Proved!Verdict, Net!NoStatus, Proved!NoStatus,
        Net!AssertFails, Proved!AssertFails, Net!SendRequest, Proved!SendRequest,
        Net!SendFails, Proved!SendFails, Net!ReceiveResponse, Proved!ReceiveResponse,
        Net!ReceiveFails, Proved!ReceiveFails,
        Net!DeserializeResponse, Proved!DeserializeResponse, Net!Judge, Proved!Judge,
        Net!KissOfDeath, Proved!KissOfDeath,
        Net!sntp_util_status_to_str, Proved!sntp_util_status_to_str,
        Net!SntpStatusStrs, Proved!SntpStatusStrs, Net!SntpSuccess, Proved!SntpSuccess,
        Net!SntpRejectedResponse, Proved!SntpRejectedResponse,
        Net!SntpInvalidResponse, Proved!SntpInvalidResponse,
        Net!SntpErrorNetworkFailure, Proved!SntpErrorNetworkFailure,
        Net!SntpNoResponseReceived, Proved!SntpNoResponseReceived,
        Net!Service!Quiet, Proved!Service!Quiet, Net!Service!Accept, Proved!Service!Accept,
        Net!Service!Accepted, Proved!Service!Accepted,
        Net!Service!Answer, Proved!Service!Answer,
        Net!Service!Answered, Proved!Service!Answered, Net!Service!Drop, Proved!Service!Drop,
        Net!Service!ClockMoves, Proved!Service!ClockMoves, Net!ResponseTo, Proved!ResponseTo,
        Net!Stratum, Proved!Stratum
<1>1. \A p : Net!Query(p) = Proved!Query(p)
  BY DEF Net!Query, Proved!Query
<1>2. \A p : Net!Ask(p) = Proved!Ask(p)
  BY DEF Net!Ask, Proved!Ask
<1>3. \A p : Net!AskFails(p) = Proved!AskFails(p)
  BY DEF Net!AskFails, Proved!AskFails
<1>4. \A p : Net!Hear(p) = Proved!Hear(p)
  BY DEF Net!Hear, Proved!Hear
<1>5. \A p : Net!HearNothing(p) = Proved!HearNothing(p)
  BY DEF Net!HearNothing, Proved!HearNothing
<1>6. \A p : Net!Evaluate(p) = Proved!Evaluate(p)
  BY DEF Net!Evaluate, Proved!Evaluate
<1>7. \A p : Net!ServerAccepts(p) = Proved!ServerAccepts(p)
  BY DEF Net!ServerAccepts, Proved!ServerAccepts
<1>8. Net!ServerAnswers = Proved!ServerAnswers
  BY DEF Net!ServerAnswers, Proved!ServerAnswers
<1>9. Net!ServerDrops = Proved!ServerDrops
  BY DEF Net!ServerDrops, Proved!ServerDrops
<1>10. Net!ServerGoesOn = Proved!ServerGoesOn
  BY DEF Net!ServerGoesOn, Proved!ServerGoesOn
<1>11. Net!Lose = Proved!Lose
  BY DEF Net!Lose, Proved!Lose
<1>12. Net!Tick = Proved!Tick
  BY DEF Net!Tick, Proved!Tick
<1>13. \A p : Net!AskAborts(p) = Proved!AskAborts(p)
  BY DEF Net!AskAborts, Proved!AskAborts
<1>14. QED
  BY <1>1, <1>2, <1>3, <1>4, <1>5, <1>6, <1>7, <1>8, <1>9, <1>10, <1>11, <1>12, <1>13
  DEF Net!Next, Proved!Next

LEMMA SameSpec == Net!Spec => Proved!Spec
<1>1. Net!Init => Proved!Init
  BY DEF Net!Init, Proved!Init, Net!ClientInit, Proved!ClientInit, Net!Service!Init,
         Proved!Service!Init, Net!NoResponse, Proved!NoResponse, Net!Htonl, Proved!Htonl,
         Net!KissOfDeath, Proved!KissOfDeath, Net!NoStatus, Proved!NoStatus
<1>2. [Net!Next]_(Net!vars) => [Proved!Next]_(Proved!vars)
  BY SameNext DEF Proved!vars, Proved!clientVars, Proved!serviceVars, Proved!netVars
<1>3. QED BY <1>1, <1>2, PTL DEF Net!Spec, Proved!Spec

LEMMA SameOffset == Proved!OffsetIsBounded = Net!OffsetIsBounded
  BY DEF Proved!OffsetIsBounded, Net!OffsetIsBounded, Proved!TwiceClockOffset,
         Net!TwiceClockOffset, Proved!RoundTrip, Net!RoundTrip, Proved!Difference,
         Net!Difference, Proved!WordSize, Net!WordSize, Proved!SntpSuccess, Net!SntpSuccess

(* A client that succeeds against the application knows how far its clock  *)
(* is off, up to half the time its datagrams spent on the network and in   *)
(* the application's socket; for any clients, clocks and packets, and      *)
(* through commands, exits, restarts and every fault but a clock that      *)
(* cannot be read.                                                         *)
THEOREM OffsetIsKnownAlways ==
  ASSUME "clock" \notin Faults
  PROVE  SystemSpec => []OffsetIsKnown
<1>1. Proved!TimeAssumption
  BY TimeAssumption DEF Proved!TimeAssumption
<1>2. Proved!ExchangeAssumption
  BY SystemAssumption
  DEF Net!ExchangeAssumption, Proved!ExchangeAssumption, Net!WordSize, Proved!WordSize
<1>3. Proved!Spec => []Proved!OffsetIsBounded
  BY <1>1, <1>2, Proved!OffsetIsBoundedAlways
  DEF Proved!TimeAssumption, Proved!ExchangeAssumption
<1>4. Proved!OffsetIsBounded => OffsetIsKnown
  BY SameOffset DEF OffsetIsKnown
<1>5. SystemSpec => Net!Spec
  BY SystemImplementsExchange DEF ImplementsExchange
<1>6. QED BY <1>3, <1>4, <1>5, SameSpec, PTL

-------------------------------------------------------------------------------
(* What the application promises alone about the order of its work it      *)
(* keeps among its clients, whatever fails, its clock included.            *)

(* Neither commands nor datagrams wait for more than one of the others.    *)
THEOREM SystemIsFair == SystemSpec => []FairShare
<1> DEFINE J == WorldInv /\ TypeOK /\ FairInv
<1>1. SystemInit => J
  BY WorldInit, TypeInit, FairInit DEF SystemInit, HInit
<1>2. J /\ [SystemNext]_sysVars => J'
  <2> SUFFICES ASSUME J, [SystemNext]_sysVars PROVE J'
    OBVIOUS
  <2>1. CASE AppRests
    <3>1. FairInv'
      BY <2>1 DEF AppRests, FairInv
    <3>2. QED BY <2>1, <3>1, RestsKeepType, WorldNext
  <2>2. CASE [HNext]_hvars
    <3>1. TypeOK'
      BY <2>2, TypeNext DEF HNext
    <3>2. QED BY <2>2, <3>1, FairNext, WorldNext
  <2>3. QED BY <2>1, <2>2, AppSteppedOrRests
<1>3. J => FairShare
  BY DEF FairInv, FairShare
<1>4. QED BY <1>1, <1>2, <1>3, PTL DEF SystemSpec

(* After a request to exit at most one command and one datagram are taken. *)
THEOREM SystemExitIsPrompt == SystemSpec => []ExitIsPrompt
<1> DEFINE J == WorldInv /\ PromptInv
<1>1. SystemInit => J
  BY WorldInit, PromptInit DEF SystemInit
<1>2. J /\ [SystemNext]_sysVars => J'
  <2> SUFFICES ASSUME J, [SystemNext]_sysVars PROVE J'
    OBVIOUS
  <2>1. CASE AppRests
    <3>1. /\ UNCHANGED << log, exitRequest, pc >> /\ TypeOK'
      BY <2>1, RestsKeepType DEF AppRests, PromptInv
    <3>2. PromptInv'
      BY <3>1 DEF PromptInv, PromptFor, HandledSince, NoExitSince, AtMostOne
    <3>3. QED BY <3>2, WorldNext
  <2>2. CASE [HNext]_hvars
    BY <2>2, PromptNext, WorldNext
  <2>3. QED BY <2>1, <2>2, AppSteppedOrRests
<1>3. J => ExitIsPrompt
  BY PromptMeansPrompt
<1>4. QED BY <1>1, <1>2, <1>3, PTL DEF SystemSpec
===============================================================================
