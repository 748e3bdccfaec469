-------------------------- MODULE SntpExchangeProofs --------------------------
(***************************************************************************)
(* What a client learns from a response it accepts, for any number of      *)
(* ports, any clocks less than half an era apart, and any network.         *)
(***************************************************************************)
EXTENDS SntpExchange, SntpTimeProofs

(* Times are compared across the end of an era: the difference of two      *)
(* time stamps is that of the times they were taken at, if the latter are  *)
(* less than half an era apart.                                            *)
LEMMA ModUniqueInt ==
  ASSUME NEW q \in Int, NEW r \in Nat, NEW N \in Nat \ {0}, r < N
  PROVE  (q * N + r) % N = r
  OBVIOUS

LEMMA ModDifference ==
  ASSUME NEW s \in Nat, NEW t \in Nat, NEW N \in Nat \ {0}, -N < s - t, s - t < N
  PROVE  ((s % N) - (t % N)) % N = IF s - t >= 0 THEN s - t ELSE s - t + N
<1> DEFINE k == (t \div N) - (s \div N)
           d == s - t
<1>1. /\ s \div N \in Int /\ s % N \in Int /\ s = (s \div N) * N + (s % N)
      /\ t \div N \in Int /\ t % N \in Int /\ t = (t \div N) * N + (t % N)
  OBVIOUS
<1>2. k \in Int /\ (s % N) - (t % N) = k * N + d
  BY <1>1
<1>3. d \in Int /\ -N < d /\ d < N
  OBVIOUS
<1> HIDE DEF k, d
<1>4. CASE d >= 0
  <2>1. d \in Nat /\ (k * N + d) % N = d
    BY <1>2, <1>3, <1>4, ModUniqueInt
  <2>2. QED BY <1>2, <1>4, <2>1 DEF d
<1>5. CASE d < 0
  <2>1. k * N + d = (k - 1) * N + (d + N) /\ d + N \in Nat /\ d + N < N /\ k - 1 \in Int
    BY <1>2, <1>3, <1>5
  <2>2. ((k - 1) * N + (d + N)) % N = d + N
    BY <2>1, ModUniqueInt
  <2>3. QED BY <1>2, <1>5, <2>1, <2>2 DEF d
<1>6. QED BY <1>3, <1>4, <1>5

LEMMA DifferenceIsElapsed ==
  ASSUME NEW s \in Nat, NEW t \in Nat, -WordSize < 2 * (s - t), 2 * (s - t) < WordSize
  PROVE  Difference(SntpTimeOf(s), SntpTimeOf(t)) = s - t
<1>1. WordSize \in Nat \ {0} /\ EpochOffset \in Nat
  BY TimeAssumption DEF WordSize
<1> DEFINE u == s + EpochOffset
           v == t + EpochOffset
<1>2. /\ u \in Nat /\ v \in Nat /\ u - v = s - t
      /\ -WordSize < u - v /\ u - v < WordSize
  BY <1>1
<1> HIDE DEF u, v
<1>3. ((u % WordSize) - (v % WordSize)) % WordSize
          = IF u - v >= 0 THEN u - v ELSE u - v + WordSize
  BY <1>1, <1>2, ModDifference
<1>4. Difference(u % WordSize, v % WordSize) = s - t
  BY <1>1, <1>2, <1>3 DEF Difference
<1>5. QED BY <1>4 DEF SntpTimeOf, u, v

-------------------------------------------------------------------------------
(* Type correctness.                                                       *)

USE DEF vars, clientVars, serviceVars, netVars, Service!Quiet

Time == Start .. Start + Duration

LEMMA StampTypes ==
  /\ \A t \in Time, p \in Ports : SntpTimeOf(t + Ahead[p]) \in Word
  /\ \A t \in Time : SntpTimeOf(t) \in Word
  /\ \A n \in Word : EncodeTime(n) \in NetWord
  /\ \A w \in NetWord : Ntohl(w) \in Word
<1>1. \A t \in Time, p \in Ports : t + Ahead[p] \in Nat /\ t \in Nat
  BY ExchangeAssumption DEF Time
<1>2. \A t \in Time : t \in Nat
  BY ExchangeAssumption DEF Time
<1>3. QED BY <1>1, <1>2, SntpTimeType, HtonlType, NtohlType DEF EncodeTime

LEMMA StratumType == Stratum \in Nat
  BY ExchangeAssumption DEF Stratum

LEMMA CarryAdds == ASSUME NEW net, NEW d PROVE Carry(net, d) \subseteq net \cup {d}
  BY DEF Carry

LEMMA DeliverTakes ==
  ASSUME NEW net, NEW d, NEW rest \in Deliver(net, d) PROVE rest \subseteq net
  BY DEF Deliver

(* The numbers of what a client may return are apart from each other.      *)
LEMMA StatusNumbers ==
  /\ {NoStatus, SntpErrorNetworkFailure, SntpNoResponseReceived, SntpInvalidResponse,
      SntpRejectedResponse} = ClientStatus \ {SntpSuccess}
  /\ SntpSuccess \in ClientStatus
  BY DEF ClientStatus, NoStatus, SntpSuccess, SntpRejectedResponse, SntpInvalidResponse,
         SntpErrorNetworkFailure, SntpNoResponseReceived

LEMMA JudgedStatus ==
  ASSUME NEW time, NEW response
  PROVE  LET s == DeserializeResponse(time, response)
         IN  /\ s \in {SntpSuccess, SntpRejectedResponse, SntpInvalidResponse}
             /\ s = SntpSuccess => response.origin = EncodeTime(time)
  BY DEF DeserializeResponse, SntpSuccess, SntpInvalidResponse

(* The names that are printed are those of the enumeration.                *)
LEMMA PrintedNames ==
  /\ sntp_util_status_to_str(SntpRejectedResponse) = "SntpRejectedResponse"
  /\ sntp_util_status_to_str(SntpInvalidResponse) = "SntpInvalidResponse"
  BY DEF sntp_util_status_to_str, SntpStatusStrs, SntpRejectedResponse, SntpInvalidResponse

(* SntpService has a copy of SntpTime.                                     *)
LEMMA ServiceTime == \A t : Service!SntpTimeOf(t) = SntpTimeOf(t)
  BY DEF Service!SntpTimeOf, SntpTimeOf, Service!WordSize, WordSize

HandType == [client : Ports, xmt : NetWord, seen : Seq(Time)]

LEMMA TypeInit == Init => TypeOK
<1> SUFFICES ASSUME Init PROVE TypeOK
  OBVIOUS
<1>1. 0 \in Word /\ Htonl(0) \in NetWord
  BY ZeroWord, HtonlType
<1>2. \A p \in Ports : NoResponse(p) \in Response
  BY <1>1 DEF NoResponse, Response, KissOfDeath
<1>3. ClientTypeOK
  BY <1>1, <1>2, StatusNumbers DEF Init, ClientInit, ClientTypeOK
<1>4. Start \in Start .. Start + Duration
  BY ExchangeAssumption
<1>5. QED BY <1>3, <1>4 DEF Init, Service!Init, TypeOK

LEMMA TypeClient ==
  ASSUME TypeOK, NEW p \in Ports,
         Query(p) \/ Ask(p) \/ AskAborts(p) \/ AskFails(p) \/ Hear(p) \/ HearNothing(p) \/ Evaluate(p)
  PROVE  TypeOK'
<1> USE StatusNumbers DEF TypeOK, ClientTypeOK
<1>0. clock \in Time /\ SntpTimeOf(ClientClock(p)) \in Word
  BY StampTypes DEF ClientClock, Time
<1>1. CASE Query(p)
  <2>1. 0 \in Word /\ NoResponse(p) \in Response
    BY ZeroWord, HtonlType DEF NoResponse, Response, KissOfDeath
  <2>2. QED BY <1>0, <1>1, <2>1 DEF Query, StartQuery
<1>2. CASE Ask(p)
  <2> DEFINE request == [client |-> p, xmt |-> RequestXmt(p)]
  <2>1. request \in Request
    BY StampTypes DEF RequestXmt, Request
  <2>2. requests' \subseteq requests \cup {request} /\ troubled' \subseteq Ports
    BY <1>2, CarryAdds DEF Ask, Troubled
  <2>3. QED BY <1>2, <2>1, <2>2 DEF Ask, SendRequest
<1>3. CASE AskFails(p)
  BY <1>3 DEF AskFails, SendFails, Returns
<1>4. CASE Hear(p)
  <2>1. PICK d \in responses : /\ d.client = p /\ ReceiveResponse(p, d)
                               /\ responses' \in Deliver(responses, d)
                               /\ Service!Quiet /\ UNCHANGED << requests, troubled >>
    BY <1>4 DEF Hear
  <2>2. responses' \subseteq responses
    BY <2>1, DeliverTakes
  <2>3. QED BY <2>1, <2>2 DEF ReceiveResponse
<1>5. CASE HearNothing(p)
  BY <1>5 DEF HearNothing, ReceiveFails, Returns
<1>6. CASE Evaluate(p)
  <2> DEFINE s == DeserializeResponse(requestTime[p], netBuf[p])
             name == IF s = SntpSuccess THEN "" ELSE sntp_util_status_to_str(s)
  <2>1. s \in ClientStatus /\ name \in {"", "SntpRejectedResponse", "SntpInvalidResponse"}
    BY JudgedStatus, PrintedNames
  <2>2. /\ responseTime' = [responseTime EXCEPT ![p] = SntpTimeOf(ClientClock(p))]
        /\ at' = [at EXCEPT ![p] = "off"]
        /\ status' = [status EXCEPT ![p] = s] /\ printed' = [printed EXCEPT ![p] = name]
    BY <1>6 DEF Evaluate, Judge, Verdict, Returns
  <2> HIDE DEF s, name
  <2>3. QED BY <1>0, <1>6, <2>1, <2>2 DEF Evaluate, Judge
<1>7. CASE AskAborts(p)
  BY <1>7 DEF AskAborts, AssertFails
<1>8. QED BY <1>1, <1>2, <1>3, <1>4, <1>5, <1>6, <1>7

LEMMA ClientKept == ASSUME ClientTypeOK, UNCHANGED clientVars PROVE ClientTypeOK'
  BY DEF ClientTypeOK

LEMMA TypeServer ==
  ASSUME TypeOK, (\E d \in requests : ServerAccepts(d)) \/ ServerAnswers \/ ServerDrops \/ ServerGoesOn
  PROVE  TypeOK'
<1> USE DEF TypeOK
<1>0. UNCHANGED clientVars => ClientTypeOK'
  BY ClientKept
<1>1. ASSUME NEW d \in requests, ServerAccepts(d) PROVE TypeOK'
  <2>1. d.client \in Ports /\ d.xmt \in NetWord /\ << clock >> \in Seq(Time)
    BY DEF Request, Time
  <2>2. inHand' \subseteq HandType
    BY <1>1, <2>1 DEF ServerAccepts, Service!Accept, Service!Accepted, HandType
  <2>3. requests' \subseteq requests
    BY <1>1, DeliverTakes DEF ServerAccepts
  <2>4. QED BY <1>0, <1>1, <2>2, <2>3 DEF ServerAccepts, Service!Accept, HandType, Time
<1>2. CASE ServerAnswers
  <2>1. PICK request \in inHand : \E a, b \in DOMAIN request.seen :
            /\ answer' = {Service!Answered(request, SntpTimeOf(request.seen[a]),
                                                   SntpTimeOf(request.seen[b]))}
            /\ inHand' = {} /\ UNCHANGED clock
    BY <1>2, ServiceTime DEF ServerAnswers, Service!Answer
  <2>2. PICK a, b \in DOMAIN request.seen :
            answer' = {Service!Answered(request, SntpTimeOf(request.seen[a]),
                                                 SntpTimeOf(request.seen[b]))}
    BY <2>1
  <2>3. request \in HandType
    BY DEF HandType, Time
  <2>4. request.seen[a] \in Time /\ request.seen[b] \in Time
    BY <2>2, <2>3 DEF HandType
  <2> DEFINE r == ResponseTo(Service!Answered(request, SntpTimeOf(request.seen[a]),
                                                       SntpTimeOf(request.seen[b])))
  <2>5. r \in Response
    BY <2>3, <2>4, StampTypes, StratumType DEF ResponseTo, Service!Answered, Response, HandType
  <2>6. responses' \subseteq responses \cup {r} /\ troubled' \subseteq troubled \cup {r.client}
    BY <1>2, <2>2, CarryAdds DEF ServerAnswers, Troubled
  <2>7. r.client \in Ports
    BY <2>5 DEF Response
  <2>8. QED BY <1>0, <1>2, <2>1, <2>5, <2>6, <2>7 DEF ServerAnswers
<1>3. CASE ServerDrops
  BY <1>0, <1>3 DEF ServerDrops, Service!Drop
<1>4. CASE ServerGoesOn
  BY <1>0, <1>4 DEF ServerGoesOn
<1>5. QED BY <1>1, <1>2, <1>3, <1>4

LEMMA TypeWorld == ASSUME TypeOK, Lose \/ Tick PROVE TypeOK'
<1> USE DEF TypeOK
<1>0. UNCHANGED clientVars => ClientTypeOK'
  BY ClientKept
<1>1. CASE Lose
  BY <1>0, <1>1 DEF Lose, Request, Response
<1>2. CASE Tick
  <2>1. clock' \in Time
    BY <1>2 DEF Tick, Service!ClockMoves, Time
  <2>2. \A r \in HandType : [r EXCEPT !.seen = Append(@, clock')] \in HandType
    <3> SUFFICES ASSUME NEW r \in HandType
                 PROVE  [r EXCEPT !.seen = Append(@, clock')] \in HandType
      OBVIOUS
    <3>1. Append(r.seen, clock') \in Seq(Time)
      BY <2>1 DEF HandType
    <3>2. QED BY <3>1 DEF HandType
  <2>3. inHand' \subseteq HandType
    BY <1>2, <2>2 DEF Tick, Service!ClockMoves, HandType, Time
  <2>4. QED BY <1>0, <1>2, <2>1, <2>3 DEF Tick, Service!ClockMoves, HandType, Time
<1>3. QED BY <1>1, <1>2

(* Every variable of the composition keeps to its values, whatever the     *)
(* ports, the clocks and the network: time stamps and packet fields never  *)
(* outgrow the words of the code.                                          *)
THEOREM TypeCorrect == Spec => []TypeOK
<1>1. Init => TypeOK
  BY TypeInit
<1>2. TypeOK /\ [Next]_vars => TypeOK'
  <2>1. CASE Next
    BY <2>1, TypeClient, TypeServer, TypeWorld DEF Next
  <2>2. CASE UNCHANGED vars
    BY <2>2, ClientKept DEF TypeOK
  <2>3. QED BY <2>1, <2>2
<1>3. QED BY <1>1, <1>2, PTL DEF Spec

-------------------------------------------------------------------------------
(* Where the time stamps come from.  Whatever the network does, a request  *)
(* was asked at a time q of the server's clock, and a response was made    *)
(* for such a request at times a and b that are not before q.  None of     *)
(* this is seen by the client, which compares the origin time stamp only.  *)

Asked(d, q) == d.xmt = EncodeTime(SntpTimeOf(q + Ahead[d.client]))

Made(d, q, a, b) == /\ q <= a /\ a <= b
                    /\ d.origin = EncodeTime(SntpTimeOf(q + Ahead[d.client]))
                    /\ d.receive = SntpTimeOf(a)
                    /\ d.transmit = SntpTimeOf(b)

Ordered(seen) == \A i, j \in DOMAIN seen : i <= j => seen[i] <= seen[j]

RequestOrigin(d) == \E q \in Time : q <= clock /\ Asked(d, q)

HandOrigin(r) == /\ \E q \in Time : /\ Asked(r, q) /\ q <= clock
                                    /\ \A i \in DOMAIN r.seen : q <= r.seen[i]
                 /\ \A i \in DOMAIN r.seen : r.seen[i] <= clock
                 /\ Ordered(r.seen)

ResponseOrigin(d) == \E q, a, b \in Time : Made(d, q, a, b) /\ b <= clock

ClientOrigin(p) ==
    /\ at[p] # "off" => \E q \in Time : q <= clock /\ requestTime[p] = SntpTimeOf(q + Ahead[p])
    /\ at[p] = "received" => netBuf[p].client = p /\ ResponseOrigin(netBuf[p])

(* e: when the client read its clock the second time.                      *)
SuccessOrigin(p) ==
    status[p] = SntpSuccess =>
        /\ at[p] = "off"
        /\ netBuf[p].client = p
        /\ \E q, a, b, e \in Time : /\ Made(netBuf[p], q, a, b) /\ b <= e
                                    /\ requestTime[p] = SntpTimeOf(q + Ahead[p])
                                    /\ responseTime[p] = SntpTimeOf(e + Ahead[p])

OriginInv == /\ TypeOK
             /\ \A d \in requests : RequestOrigin(d)
             /\ \A r \in inHand : HandOrigin(r)
             /\ \A d \in responses : ResponseOrigin(d)
             /\ \A p \in Ports : ClientOrigin(p) /\ SuccessOrigin(p)

(* A step that leaves a datagram or a client alone leaves its origin, also *)
(* when the clock goes on.                                                 *)
LEMMA OriginsKept ==
  ASSUME OriginInv, clock' \in Time, clock <= clock'
  PROVE  /\ \A d \in requests : RequestOrigin(d)'
         /\ \A d \in responses : ResponseOrigin(d)'
         /\ \A p \in Ports : UNCHANGED << at[p], requestTime[p], responseTime[p], netBuf[p], status[p] >>
                                => (ClientOrigin(p) /\ SuccessOrigin(p))'
<1>1. \A q \in Time : q \in Int /\ clock \in Int /\ clock' \in Int
  BY ExchangeAssumption DEF Time, OriginInv, TypeOK
<1>2. \A q \in Time : q <= clock => q <= clock'
  BY <1>1
<1>3. \A d : RequestOrigin(d) => RequestOrigin(d)'
  BY <1>2 DEF RequestOrigin
<1>4. \A d : ResponseOrigin(d) => \E q, a, b \in Time : Made(d, q, a, b) /\ b <= clock'
  BY <1>2 DEF ResponseOrigin
<1>5. \A d \in responses : ResponseOrigin(d)'
  BY <1>4 DEF ResponseOrigin, OriginInv
<1>6. ASSUME NEW p \in Ports,
             UNCHANGED << at[p], requestTime[p], responseTime[p], netBuf[p], status[p] >>
      PROVE  (ClientOrigin(p) /\ SuccessOrigin(p))'
  <2>1. ClientOrigin(p) /\ SuccessOrigin(p)
    BY DEF OriginInv
  <2>2. at[p]' # "off" => \E q \in Time : q <= clock' /\ requestTime[p]' = SntpTimeOf(q + Ahead[p])
    BY <1>2, <1>6, <2>1 DEF ClientOrigin
  <2>3. at[p]' = "received" =>
            netBuf[p]'.client = p /\ \E q, a, b \in Time : Made(netBuf[p]', q, a, b) /\ b <= clock'
    BY <1>4, <1>6, <2>1 DEF ClientOrigin
  <2>4. ClientOrigin(p)'
    BY <2>2, <2>3 DEF ClientOrigin, ResponseOrigin
  <2>5. SuccessOrigin(p)'
    BY <1>6, <2>1 DEF SuccessOrigin
  <2>6. QED BY <2>4, <2>5
<1>7. QED BY <1>3, <1>5, <1>6 DEF OriginInv

LEMMA OriginInit == Init => OriginInv
<1> SUFFICES ASSUME Init PROVE OriginInv
  OBVIOUS
<1>1. TypeOK
  BY TypeInit
<1>2. \A p \in Ports : ClientOrigin(p) /\ SuccessOrigin(p)
  BY StatusNumbers DEF Init, ClientInit, ClientOrigin, SuccessOrigin
<1>3. QED BY <1>1, <1>2 DEF Init, Service!Init, OriginInv

(* A client accepts only a response made for a request with its own time   *)
(* stamp: EncodeTime is one-to-one.                                        *)
LEMMA SuccessMeansEcho ==
  ASSUME NEW time \in Word, NEW response, NEW t \in Word,
         response.origin = EncodeTime(t),
         DeserializeResponse(time, response) = SntpSuccess
  PROVE  time = t
<1>1. Htonl(time) = Htonl(t)
  BY JudgedStatus DEF EncodeTime
<1>2. QED BY <1>1, NtohlHtonl

LEMMA OriginClient ==
  ASSUME OriginInv, TypeOK', NEW p \in Ports,
         Query(p) \/ Ask(p) \/ AskAborts(p) \/ AskFails(p) \/ Hear(p) \/ HearNothing(p) \/ Evaluate(p)
  PROVE  OriginInv'
<1>0. /\ clock \in Time /\ clock' = clock /\ clock <= clock' /\ UNCHANGED inHand
      /\ \A r \in requests : RequestOrigin(r)'
      /\ \A d \in responses : ResponseOrigin(d)'
  <2>1. clock \in Time /\ clock' = clock /\ clock <= clock' /\ UNCHANGED inHand
    BY ExchangeAssumption DEF OriginInv, TypeOK, Time, Query, Ask, AskAborts, AskFails, Hear, HearNothing, Evaluate
  <2>2. QED BY <2>1, OriginsKept
<1>1. \A r \in inHand' : HandOrigin(r)'
  BY <1>0 DEF OriginInv, HandOrigin
<1> SUFFICES /\ \A d \in requests' : RequestOrigin(d)'
             /\ \A d \in responses' : ResponseOrigin(d)'
             /\ \A o \in Ports \ {p} :
                   UNCHANGED << at[o], requestTime[o], responseTime[o], netBuf[o], status[o] >>
             /\ ClientOrigin(p)' /\ SuccessOrigin(p)'
  <2>1. \A o \in Ports \ {p} : (ClientOrigin(o) /\ SuccessOrigin(o))'
    BY <1>0, OriginsKept
  <2>2. QED BY <1>1, <2>1 DEF OriginInv
<1> USE DEF OriginInv, TypeOK, ClientTypeOK
<1>2. CASE Query(p)
  <2>1. /\ at'[p] = "send" /\ status'[p] = NoStatus
        /\ requestTime'[p] = SntpTimeOf(clock + Ahead[p])
    BY <1>2 DEF Query, StartQuery, ClientClock
  <2>2. ClientOrigin(p)' /\ SuccessOrigin(p)'
    BY <1>0, <2>1, StatusNumbers DEF ClientOrigin, SuccessOrigin
  <2>3. \A o \in Ports \ {p} :
            UNCHANGED << at[o], requestTime[o], responseTime[o], netBuf[o], status[o] >>
    BY <1>2 DEF Query, StartQuery
  <2>4. requests' = requests /\ responses' = responses
    BY <1>2 DEF Query
  <2>5. QED BY <1>0, <2>2, <2>3, <2>4
<1>3. CASE Ask(p)
  <2> DEFINE request == [client |-> p, xmt |-> RequestXmt(p)]
  <2>1. PICK q \in Time : q <= clock /\ requestTime[p] = SntpTimeOf(q + Ahead[p])
    BY <1>3 DEF Ask, SendRequest, ClientOrigin
  <2>2. request.xmt = EncodeTime(SntpTimeOf(q + Ahead[request.client]))
    BY <2>1 DEF RequestXmt
  <2>3. requests' \subseteq requests \cup {request}
    <3>1. requests' = Carry(requests, request)
      BY <1>3 DEF Ask
    <3> HIDE DEF request, OriginInv
    <3>2. QED BY <3>1, CarryAdds
  <2>4. at'[p] = "wait" /\ requestTime' = requestTime /\ status'[p] = status[p] /\ at[p] # "off"
    BY <1>3 DEF Ask, SendRequest
  <2>5. ClientOrigin(p)' /\ SuccessOrigin(p)'
    BY <1>0, <2>1, <2>4 DEF ClientOrigin, SuccessOrigin
  <2> HIDE DEF request
  <2>6. ASSUME NEW d \in requests' PROVE RequestOrigin(d)'
    <3>1. CASE d \in requests
      BY <1>0, <3>1
    <3>2. CASE d = request
      BY <1>0, <2>1, <2>2, <3>2 DEF RequestOrigin, Asked
    <3>3. QED BY <2>3, <3>1, <3>2
  <2>7. QED BY <1>0, <1>3, <2>5, <2>6 DEF Ask, SendRequest
<1>4. CASE AskFails(p)
  <2>1. at'[p] = "off" /\ status'[p] # SntpSuccess
    BY <1>4, StatusNumbers DEF AskFails, SendFails, Returns
  <2>2. ClientOrigin(p)' /\ SuccessOrigin(p)'
    BY <2>1 DEF ClientOrigin, SuccessOrigin
  <2>3. QED BY <1>0, <1>4, <2>2 DEF AskFails, SendFails, Returns
<1>5. CASE Hear(p)
  <2>1. PICK d \in responses : /\ d.client = p /\ ReceiveResponse(p, d)
                               /\ responses' \in Deliver(responses, d)
                               /\ UNCHANGED << requests, troubled >>
    BY <1>5 DEF Hear
  <2>2. responses' \subseteq responses
    BY <2>1, DeliverTakes
  <2>3. ResponseOrigin(d)'
    BY <1>0
  <2>4. /\ at[p] = "wait" /\ at'[p] = "received" /\ netBuf'[p] = d
        /\ requestTime' = requestTime /\ status' = status
    BY <2>1 DEF ReceiveResponse
  <2>5. PICK q \in Time : q <= clock /\ requestTime[p] = SntpTimeOf(q + Ahead[p])
    BY <2>4 DEF ClientOrigin
  <2>6. netBuf'[p].client = p /\ ResponseOrigin(netBuf[p])'
    BY <2>1, <2>3, <2>4 DEF ResponseOrigin
  <2>7. ClientOrigin(p)' /\ SuccessOrigin(p)'
    BY <1>0, <2>4, <2>5, <2>6 DEF ClientOrigin, SuccessOrigin
  <2>8. QED BY <1>0, <2>1, <2>2, <2>7 DEF ReceiveResponse
<1>6. CASE HearNothing(p)
  <2>1. at'[p] = "off" /\ status'[p] # SntpSuccess
    BY <1>6, StatusNumbers DEF HearNothing, ReceiveFails, Returns
  <2>2. ClientOrigin(p)' /\ SuccessOrigin(p)'
    BY <2>1 DEF ClientOrigin, SuccessOrigin
  <2>3. QED BY <1>0, <1>6, <2>2 DEF HearNothing, ReceiveFails, Returns
<1>7. CASE Evaluate(p)
  <2>1. /\ at[p] = "received" /\ at'[p] = "off"
        /\ requestTime' = requestTime /\ netBuf' = netBuf
        /\ responseTime'[p] = SntpTimeOf(clock + Ahead[p])
        /\ status'[p] = DeserializeResponse(requestTime[p], netBuf[p])
    BY <1>7 DEF Evaluate, Judge, Verdict, Returns, ClientClock
  <2>2. netBuf[p].client = p
    BY <2>1 DEF ClientOrigin
  <2>3. PICK q, a, b \in Time : Made(netBuf[p], q, a, b) /\ b <= clock
    BY <2>1 DEF ClientOrigin, ResponseOrigin
  <2>4. SntpTimeOf(q + Ahead[p]) \in Word /\ netBuf[p].origin = EncodeTime(SntpTimeOf(q + Ahead[p]))
    BY <2>2, <2>3, StampTypes DEF Made
  <2>5. status'[p] = SntpSuccess => requestTime[p] = SntpTimeOf(q + Ahead[p])
    BY <2>1, <2>4, SuccessMeansEcho
  <2>6. ClientOrigin(p)'
    BY <2>1 DEF ClientOrigin
  <2>7. SuccessOrigin(p)'
    <3> HIDE DEF OriginInv, TypeOK, ClientTypeOK
    <3>1. /\ at'[p] = "off" /\ netBuf'[p] = netBuf[p] /\ requestTime'[p] = requestTime[p]
          /\ responseTime'[p] = SntpTimeOf(clock + Ahead[p])
      BY <2>1
    <3>2. QED BY <1>0, <2>2, <2>3, <2>5, <3>1 DEF SuccessOrigin
  <2>8. \A o \in Ports \ {p} :
            UNCHANGED << at[o], requestTime[o], responseTime[o], netBuf[o], status[o] >>
    BY <1>7 DEF Evaluate, Judge, Verdict, Returns
  <2>9. requests' = requests /\ responses' = responses
    BY <1>7 DEF Evaluate
  <2>10. QED BY <1>0, <2>6, <2>7, <2>8, <2>9
<1>8. CASE AskAborts(p)
  <2>1. /\ at[p] # "received" /\ at'[p] = "off" /\ status' = status
        /\ requestTime' = requestTime /\ responseTime' = responseTime /\ netBuf' = netBuf
    BY <1>8 DEF AskAborts, AssertFails
  <2>2. status[p] # SntpSuccess
    BY <1>8 DEF AskAborts, AssertFails, SuccessOrigin
  <2>3. ClientOrigin(p)' /\ SuccessOrigin(p)'
    <3> HIDE DEF OriginInv, TypeOK, ClientTypeOK
    <3>1. QED BY <2>1, <2>2 DEF ClientOrigin, SuccessOrigin
  <2>4. QED BY <1>0, <1>8, <2>3 DEF AskAborts, AssertFails
<1>9. QED BY <1>2, <1>3, <1>4, <1>5, <1>6, <1>7, <1>8

LEMMA OriginServer ==
  ASSUME OriginInv, TypeOK',
         (\E d \in requests : ServerAccepts(d)) \/ ServerAnswers \/ ServerDrops \/ ServerGoesOn
  PROVE  OriginInv'
<1>0. /\ clock \in Time /\ clock' = clock /\ clock <= clock' /\ UNCHANGED clientVars
      /\ \A r \in requests : RequestOrigin(r)'
      /\ \A d \in responses : ResponseOrigin(d)'
      /\ \A p \in Ports : ClientOrigin(p)' /\ SuccessOrigin(p)'
  <2>1. clock \in Time /\ clock' = clock /\ clock <= clock' /\ UNCHANGED clientVars
    BY ExchangeAssumption DEF OriginInv, TypeOK, Time, ServerAccepts, ServerAnswers, ServerDrops,
       ServerGoesOn, Service!Accept, Service!Answer, Service!Drop
  <2>2. QED BY <2>1, OriginsKept
<1> SUFFICES /\ \A d \in requests' : RequestOrigin(d)'
             /\ \A r \in inHand' : HandOrigin(r)'
             /\ \A d \in responses' : ResponseOrigin(d)'
  BY <1>0 DEF OriginInv
<1>1. ASSUME NEW d \in requests, ServerAccepts(d)
      PROVE  /\ \A r \in requests' : RequestOrigin(r)'
             /\ \A r \in inHand' : HandOrigin(r)'
             /\ responses' = responses
  <2>1. requests' \subseteq requests /\ responses' = responses
    BY <1>1, DeliverTakes DEF ServerAccepts
  <2> DEFINE r == [client |-> d.client, xmt |-> d.xmt, seen |-> << clock >>]
  <2>2. inHand' = {r}
    BY <1>1 DEF ServerAccepts, Service!Accept, Service!Accepted
  <2>3. PICK q \in Time : q <= clock /\ Asked(d, q)
    BY DEF OriginInv, RequestOrigin
  <2>4. Asked(r, q) /\ r.seen = << clock >>
    BY <2>3 DEF Asked
  <2> HIDE DEF r
  <2>5. \A h : h = r => HandOrigin(h)'
    <3>1. \A h : h = r => Asked(h, q) /\ h.seen = << clock >>
      BY <2>4
    <3>2. DOMAIN << clock >> = {1} /\ << clock >>[1] = clock
      OBVIOUS
    <3>3. QED BY <1>0, <2>3, <3>1, <3>2 DEF HandOrigin, Ordered, Asked, Time
  <2>6. QED BY <1>0, <2>1, <2>2, <2>5
<1>2. CASE ServerAnswers
  <2>1. PICK request \in inHand : \E a, b \in DOMAIN request.seen :
            /\ a <= b
            /\ answer' = {Service!Answered(request, SntpTimeOf(request.seen[a]),
                                                   SntpTimeOf(request.seen[b]))}
            /\ inHand' = {}
    BY <1>2, ServiceTime DEF ServerAnswers, Service!Answer
  <2>2. PICK a, b \in DOMAIN request.seen :
            /\ a <= b
            /\ answer' = {Service!Answered(request, SntpTimeOf(request.seen[a]),
                                                    SntpTimeOf(request.seen[b]))}
    BY <2>1
  <2> DEFINE s == request.seen[a]
             t == request.seen[b]
             d == ResponseTo(Service!Answered(request, SntpTimeOf(s), SntpTimeOf(t)))
  <2>3. request \in HandType /\ s \in Time /\ t \in Time
    <3>1. request \in HandType
      BY DEF OriginInv, TypeOK, HandType, Time
    <3>2. QED BY <2>2, <3>1 DEF HandType
  <2>4. PICK q \in Time : /\ Asked(request, q)
                          /\ \A i \in DOMAIN request.seen : q <= request.seen[i]
    BY DEF OriginInv, HandOrigin
  <2>5. q <= s /\ s <= t /\ t <= clock
    BY <2>2, <2>4 DEF OriginInv, HandOrigin, Ordered
  <2>6. responses' \subseteq responses \cup {d}
    BY <1>2, <2>2, CarryAdds DEF ServerAnswers
  <2>7. /\ d.origin = request.xmt /\ d.client = request.client
        /\ d.receive = SntpTimeOf(s) /\ d.transmit = SntpTimeOf(t)
    BY DEF ResponseTo, Service!Answered
  <2>8. UNCHANGED requests
    BY <1>2 DEF ServerAnswers
  <2> HIDE DEF d, s, t
  <2>9. Made(d, q, s, t)
    BY <2>4, <2>5, <2>7 DEF Made, Asked
  <2>10. \A e : e = d => ResponseOrigin(e)'
    BY <1>0, <2>3, <2>5, <2>9 DEF ResponseOrigin
  <2>11. QED BY <1>0, <2>1, <2>6, <2>8, <2>10
<1>3. CASE ServerDrops
  BY <1>0, <1>3 DEF ServerDrops, Service!Drop
<1>4. CASE ServerGoesOn
  BY <1>0, <1>4 DEF ServerGoesOn, OriginInv, HandOrigin
<1>5. QED BY <1>0, <1>1, <1>2, <1>3, <1>4

LEMMA OriginWorld == ASSUME OriginInv, TypeOK', Lose \/ Tick PROVE OriginInv'
<1>1. CASE Lose
  <2>1. /\ clock \in Time /\ clock' = clock /\ clock <= clock'
        /\ UNCHANGED << clientVars, inHand >>
        /\ requests' \subseteq requests /\ responses' \subseteq responses
    BY <1>1, ExchangeAssumption DEF OriginInv, TypeOK, Time, Lose
  <2>2. \A r \in inHand' : HandOrigin(r)'
    BY <2>1 DEF OriginInv, HandOrigin
  <2>3. QED BY <2>1, <2>2, OriginsKept DEF OriginInv
<1>2. CASE Tick
  <2>1. /\ clock \in Time /\ clock' \in Time /\ clock <= clock'
        /\ UNCHANGED << clientVars, requests, responses >>
    BY <1>2, ExchangeAssumption DEF OriginInv, TypeOK, Time, Tick, Service!ClockMoves
  <2>2. ASSUME NEW h \in inHand' PROVE HandOrigin(h)'
    <3>1. PICK r \in inHand : h = [r EXCEPT !.seen = Append(@, clock')]
      BY <1>2, <2>2 DEF Tick, Service!ClockMoves
    <3>2. r \in HandType
      BY DEF OriginInv, TypeOK, HandType, Time
    <3>3. /\ h.client = r.client /\ h.xmt = r.xmt
          /\ h.seen = Append(r.seen, clock')
      BY <3>1, <3>2 DEF HandType
    <3> DEFINE n == Len(r.seen)
    <3>4. /\ n \in Nat /\ DOMAIN r.seen = 1 .. n /\ DOMAIN h.seen = 1 .. n + 1
          /\ h.seen[n + 1] = clock'
          /\ \A i \in 1 .. n : h.seen[i] = r.seen[i] /\ r.seen[i] \in Time
      BY <2>1, <3>2, <3>3 DEF HandType
    <3>5. PICK q \in Time : /\ Asked(r, q) /\ q <= clock
                            /\ \A i \in DOMAIN r.seen : q <= r.seen[i]
      BY DEF OriginInv, HandOrigin
    <3>6. (\A i \in DOMAIN r.seen : r.seen[i] <= clock) /\ Ordered(r.seen)
      BY DEF OriginInv, HandOrigin
    <3>7. q \in Int /\ clock \in Int /\ clock' \in Int /\ \A x \in Time : x \in Int
      BY <2>1, ExchangeAssumption DEF Time
    <3> HIDE DEF n
    <3>8. \A i \in 1 .. n : /\ h.seen[i] \in Int /\ q <= h.seen[i]
                            /\ h.seen[i] <= clock /\ h.seen[i] <= clock'
      <4> SUFFICES ASSUME NEW i \in 1 .. n
                   PROVE  /\ h.seen[i] \in Int /\ q <= h.seen[i]
                          /\ h.seen[i] <= clock /\ h.seen[i] <= clock'
        OBVIOUS
      <4>1. h.seen[i] = r.seen[i] /\ r.seen[i] \in Int /\ i \in DOMAIN r.seen
        BY <3>4, <3>7
      <4>2. q <= r.seen[i] /\ r.seen[i] <= clock
        BY <3>5, <3>6, <4>1
      <4>3. QED BY <2>1, <3>7, <4>1, <4>2
    <3>9. \A i \in DOMAIN h.seen : q <= h.seen[i] /\ h.seen[i] <= clock'
      <4>1. \A i \in DOMAIN h.seen : i \in 1 .. n \/ i = n + 1
        BY <3>4
      <4>2. QED BY <2>1, <3>4, <3>5, <3>7, <3>8, <4>1
    <3>10. Ordered(h.seen)
      <4> SUFFICES ASSUME NEW i \in 1 .. n + 1, NEW j \in 1 .. n + 1, i <= j
                   PROVE  h.seen[i] <= h.seen[j]
        BY <3>4 DEF Ordered
      <4>1. CASE j = n + 1
        BY <3>4, <3>7, <3>9, <4>1
      <4>2. CASE j \in 1 .. n
        <5>1. i \in 1 .. n
          BY <3>4, <4>2
        <5>2. QED BY <3>4, <3>6, <4>2, <5>1 DEF Ordered
      <4>3. QED BY <3>4, <4>1, <4>2
    <3>11. Asked(h, q) /\ q <= clock'
      BY <2>1, <3>3, <3>5, <3>7 DEF Asked
    <3>12. QED BY <3>9, <3>10, <3>11 DEF HandOrigin
  <2>3. QED BY <2>1, <2>2, OriginsKept DEF OriginInv
<1>3. QED BY <1>1, <1>2

(* In every reachable state, every time stamp in a datagram or in a        *)
(* client's hands stems from a time at which its clock was read, in order. *)
THEOREM OriginAlways == Spec => []OriginInv
<1>1. OriginInv /\ [Next]_vars => OriginInv'
  <2>1. CASE Next
    <3>1. TypeOK' \/ ~OriginInv
      BY <2>1, TypeClient, TypeServer, TypeWorld DEF Next, OriginInv
    <3>2. QED BY <2>1, <3>1, OriginClient, OriginServer, OriginWorld DEF Next
  <2>2. CASE UNCHANGED vars
    <3>1. TypeOK \/ ~OriginInv
      BY DEF OriginInv
    <3>2. QED BY <2>2, <3>1, ClientKept DEF OriginInv, TypeOK, RequestOrigin, HandOrigin,
                                       ResponseOrigin, ClientOrigin, SuccessOrigin
  <2>3. QED BY <2>1, <2>2
<1>2. QED BY <1>1, OriginInit, PTL DEF Spec

-------------------------------------------------------------------------------
(* The four differences the client takes are those of the four times.      *)
LEMMA OriginBoundsOffset ==
  ASSUME OriginInv, NEW p \in Ports, status[p] = SntpSuccess
  PROVE  /\ TwiceClockOffset(p) + 2 * Ahead[p] <= RoundTrip(p)
         /\ -(TwiceClockOffset(p) + 2 * Ahead[p]) <= RoundTrip(p)
<1>1. PICK q, a, b, e \in Time : /\ Made(netBuf[p], q, a, b) /\ b <= e
                                 /\ requestTime[p] = SntpTimeOf(q + Ahead[p])
                                 /\ responseTime[p] = SntpTimeOf(e + Ahead[p])
  BY DEF OriginInv, SuccessOrigin
<1>2. /\ netBuf[p].receive = SntpTimeOf(a) /\ netBuf[p].transmit = SntpTimeOf(b)
      /\ q <= a /\ a <= b
  BY <1>1 DEF Made
<1>3. /\ q \in Nat /\ a \in Nat /\ b \in Nat /\ e \in Nat
      /\ Ahead[p] \in Int /\ q + Ahead[p] \in Nat /\ e + Ahead[p] \in Nat
      /\ Start <= q /\ e <= Start + Duration
      /\ 2 * (Ahead[p] + Duration) < WordSize /\ 2 * (Duration - Ahead[p]) < WordSize
      /\ Start \in Nat /\ Duration \in Nat
  BY ExchangeAssumption DEF Time
<1>4. WordSize \in Nat
  BY TimeAssumption DEF WordSize
<1>5. Difference(netBuf[p].receive, requestTime[p]) = a - (q + Ahead[p])
  BY <1>1, <1>2, <1>3, <1>4, DifferenceIsElapsed
<1>6. Difference(netBuf[p].transmit, responseTime[p]) = b - (e + Ahead[p])
  BY <1>1, <1>2, <1>3, <1>4, DifferenceIsElapsed
<1>7. Difference(responseTime[p], requestTime[p]) = (e + Ahead[p]) - (q + Ahead[p])
  BY <1>1, <1>2, <1>3, <1>4, DifferenceIsElapsed
<1>8. Difference(netBuf[p].transmit, netBuf[p].receive) = b - a
  BY <1>1, <1>2, <1>3, <1>4, DifferenceIsElapsed
<1>9. /\ TwiceClockOffset(p) = (a - (q + Ahead[p])) + (b - (e + Ahead[p]))
      /\ RoundTrip(p) = ((e + Ahead[p]) - (q + Ahead[p])) - (b - a)
  BY <1>5, <1>6, <1>7, <1>8 DEF TwiceClockOffset, RoundTrip
<1>10. QED BY <1>1, <1>2, <1>3, <1>9

(* A client that succeeds knows how far its clock is off, up to half the   *)
(* time its datagrams spent on the network: for every network, any number  *)
(* of clients and processes on a port, and across the end of an era.       *)
THEOREM OffsetIsBoundedAlways == Spec => []OffsetIsBounded
<1>1. OriginInv => OffsetIsBounded
  BY OriginBoundsOffset DEF OffsetIsBounded
<1>2. QED BY <1>1, OriginAlways, PTL
===============================================================================
