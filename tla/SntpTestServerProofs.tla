------------------------- MODULE SntpTestServerProofs -------------------------
(***************************************************************************)
(* The test server keeps its types and, with a clock that can be read,     *)
(* implements SntpService, for any clients, datagrams and queue depth.     *)
(***************************************************************************)
EXTENDS SntpTestServer, SntpTimeProofs

USE DEF vars, serverVars

LEMMA WordTypes ==
  /\ \A n \in Word : SntpTimeOf(n) \in Word /\ EncodeTime(n) \in NetWord
  /\ \A w \in NetWord : DeserializeRequest(w) \in Word
<1>1. Word \subseteq Nat
  BY TimeAssumption DEF Word, WordSize
<1>2. QED BY <1>1, SntpTimeType, HtonlType, NtohlType DEF EncodeTime, DeserializeRequest

AnswerType == [client : Clients, origin : NetWord, receive : NetWord, transmit : NetWord]

LEMMA TypeInit == Init => TypeOK
<1>1. NoXmt \in NetWord
  BY ZeroWord, HtonlType DEF NoXmt
<1>2. << >> \in Seq(Datagram) /\ Len(<< >>) <= SocketDepth
  BY ServerAssumption
<1>3. QED BY <1>1, <1>2 DEF Init, TypeOK

LEMMA TypeTake ==
  ASSUME TypeOK, Take
  PROVE  /\ Head(rxq) \in Datagram /\ Head(rxq).xmt \in NetWord /\ Head(rxq).client \in Clients
         /\ rxq' \in Seq(Datagram) /\ Len(rxq') <= SocketDepth
         /\ clientAddr' \in Clients
<1>1. Head(rxq) \in Datagram /\ rxq' \in Seq(Datagram) /\ Len(rxq') <= SocketDepth
  BY ServerAssumption DEF TypeOK, Take
<1>2. QED BY <1>1, ServerAssumption DEF Take, Datagram

LEMMA TypeServer ==
  ASSUME TypeOK,
         InitUDPSocket \/ ReceiveRequest \/ ReceiveUnexpected \/ ReceiveError
            \/ StampReceiveTime \/ Reply
  PROVE  TypeOK'
<1> USE DEF TypeOK
<1>1. CASE InitUDPSocket
  BY <1>1 DEF InitUDPSocket
<1>2. CASE ReceiveRequest
  <2>1. << clock >> \in Seq(Word)
    OBVIOUS
  <2>2. inHand' \subseteq [client : Clients, xmt : NetWord, seen : Seq(Word)]
    BY <1>2, <2>1, TypeTake DEF ReceiveRequest, Requested
  <2>3. QED BY <1>2, <2>2, TypeTake DEF ReceiveRequest, Take
<1>3. CASE ReceiveUnexpected
  <2>1. netBuf' \in NetWord
    BY <1>3, TypeTake DEF ReceiveUnexpected, NetWord
  <2>2. QED BY <1>3, <2>1, TypeTake DEF ReceiveUnexpected, Take
<1>4. CASE ReceiveError
  BY <1>4 DEF ReceiveError
<1>5. CASE StampReceiveTime
  <2>1. receiveTime' \in NetWord
    BY <1>5, WordTypes DEF StampReceiveTime, Reading
  <2>2. QED BY <1>5, <2>1 DEF StampReceiveTime
<1>6. CASE Reply
  <2>1. PICK transmitTime \in Reading({receiveTime}) :
            \/ sent' = {[kind |-> "reply", answer |-> Outcome(transmitTime)]}
            \/ sent' = {[kind |-> "send_failed", answer |-> Outcome(transmitTime)]}
    BY <1>6 DEF Reply, Send
  <2>2. transmitTime \in NetWord
    BY WordTypes DEF Reading
  <2>3. Outcome(transmitTime) \in AnswerType
    BY <2>2, WordTypes DEF Outcome, AnswerType
  <2>4. sent' \subseteq [kind : {"reply", "send_failed"}, answer : AnswerType]
    BY <2>1, <2>3
  <2>5. QED BY <1>6, <2>4 DEF Reply, AnswerType
<1>7. QED BY <1>1, <1>2, <1>3, <1>4, <1>5, <1>6

LEMMA TypeWorld ==
  ASSUME TypeOK, (\E d \in Datagram : Arrive(d)) \/ ClockMoves
  PROVE  TypeOK'
<1> USE DEF TypeOK
<1>1. ASSUME NEW d \in Datagram, Arrive(d) PROVE TypeOK'
  <2>1. rxq' \in Seq(Datagram) /\ Len(rxq') <= SocketDepth
    BY <1>1, ServerAssumption DEF Arrive
  <2>2. QED BY <1>1, <2>1 DEF Arrive
<1>2. CASE ClockMoves
  <2> DEFINE Hand == [client : Clients, xmt : NetWord, seen : Seq(Word)]
  <2>1. ASSUME NEW r \in Hand PROVE [r EXCEPT !.seen = Append(@, clock')] \in Hand
    <3>1. Append(r.seen, clock') \in Seq(Word)
      BY <1>2 DEF ClockMoves
    <3>2. QED BY <3>1
  <2>2. inHand' \subseteq Hand
    BY <1>2, <2>1 DEF ClockMoves
  <2>3. QED BY <1>2, <2>2 DEF ClockMoves
<1>3. QED BY <1>1, <1>2

LEMMA TypeStep == TypeOK /\ [Next]_vars => TypeOK'
<1> SUFFICES ASSUME TypeOK, [Next]_vars PROVE TypeOK'
  OBVIOUS
<1>1. CASE Next
  BY <1>1, TypeServer, TypeWorld DEF Next
<1>2. CASE UNCHANGED vars
  BY <1>2 DEF TypeOK
<1>3. QED BY <1>1, <1>2

(* Every variable keeps to its values: the queue to its depth, and what    *)
(* is sent to the fields of a packet.                                      *)
THEOREM TypeCorrect == Spec => []TypeOK
  BY TypeInit, TypeStep, PTL DEF Spec

-------------------------------------------------------------------------------
(* The refinement.  While a request is in hand, netBuf and clientAddr are  *)
(* still its own, and the time stamp already taken is one of the readings. *)

Serving == {"stamp", "reply"}

Hand(seen) == [client |-> clientAddr, xmt |-> netBuf, seen |-> seen]

ServesOne(seen) ==
    /\ inHand = {Hand(seen)}
    /\ \E b \in DOMAIN seen : /\ seen[b] = clock
                              /\ \A a \in DOMAIN seen : a <= b
    /\ pc = "reply" => \E a \in DOMAIN seen : receiveTime = EncodeTime(SntpTimeOf(seen[a]))

ServingInv == /\ TypeOK
              /\ pc \in Serving => \E seen \in Seq(Word) : ServesOne(seen)
              /\ pc \notin Serving => inHand = {}

LEMMA ServingInit == Init => ServingInv
  BY TypeInit DEF Init, ServingInv, Serving

LEMMA ServingStep ==
  ASSUME ServingInv, "clock" \notin Faults, [Next]_vars
  PROVE  ServingInv'
<1>0. TypeOK'
  BY TypeStep DEF ServingInv
<1> SUFFICES /\ pc' \in Serving => \E seen \in Seq(Word) : ServesOne(seen)'
             /\ pc' \notin Serving => inHand' = {}
  BY <1>0 DEF ServingInv
<1>1. ASSUME UNCHANGED << pc, netBuf, clientAddr, receiveTime, clock, inHand >>
      PROVE  /\ pc' \in Serving => \E seen \in Seq(Word) : ServesOne(seen)'
             /\ pc' \notin Serving => inHand' = {}
  BY <1>1 DEF ServingInv, ServesOne, Hand
<1>2. CASE InitUDPSocket
  BY <1>2 DEF InitUDPSocket, ServingInv, Serving
<1>3. CASE ReceiveRequest
  <2>1. /\ pc' = "stamp" /\ clock' = clock /\ clock \in Word
        /\ inHand' = {[client |-> clientAddr', xmt |-> netBuf', seen |-> << clock >>]}
    BY <1>3 DEF ReceiveRequest, Take, Requested, ServingInv, TypeOK
  <2>2. << clock >> \in Seq(Word) /\ DOMAIN << clock >> = {1} /\ << clock >>[1] = clock
    BY <2>1
  <2>3. ServesOne(<< clock >>)'
    BY <2>1, <2>2 DEF ServesOne, Hand
  <2>4. QED BY <2>1, <2>2, <2>3 DEF Serving
<1>4. CASE ReceiveUnexpected
  BY <1>4 DEF ReceiveUnexpected, Take, ServingInv, Serving
<1>5. CASE ReceiveError
  BY <1>1, <1>5 DEF ReceiveError
<1>6. CASE StampReceiveTime
  <2>1. PICK seen \in Seq(Word) : ServesOne(seen)
    BY <1>6 DEF StampReceiveTime, ServingInv, Serving
  <2>2. /\ receiveTime' = EncodeTime(SntpTimeOf(clock)) /\ pc' = "reply"
        /\ UNCHANGED << netBuf, clientAddr, clock, inHand >>
    BY <1>6 DEF StampReceiveTime, Reading
  <2>3. ServesOne(seen)'
    BY <2>1, <2>2 DEF ServesOne, Hand
  <2>4. QED BY <2>2, <2>3 DEF Serving
<1>7. CASE Reply
  BY <1>7 DEF Reply, Serving
<1>8. ASSUME NEW d \in Datagram, Arrive(d)
      PROVE  /\ pc' \in Serving => \E seen \in Seq(Word) : ServesOne(seen)'
             /\ pc' \notin Serving => inHand' = {}
  BY <1>1, <1>8 DEF Arrive
<1>9. CASE ClockMoves
  <2>1. /\ clock' \in Word /\ UNCHANGED << pc, netBuf, clientAddr, receiveTime >>
        /\ inHand' = {[r EXCEPT !.seen = Append(@, clock')] : r \in inHand}
    BY <1>9 DEF ClockMoves
  <2>2. CASE pc \in Serving
    <3>1. PICK seen \in Seq(Word) : ServesOne(seen)
      BY <2>2 DEF ServingInv
    <3> DEFINE now == Append(seen, clock')
               n == Len(seen)
    <3>2. /\ now \in Seq(Word) /\ n \in Nat /\ DOMAIN seen = 1 .. n /\ DOMAIN now = 1 .. n + 1
          /\ now[n + 1] = clock' /\ \A i \in 1 .. n : now[i] = seen[i]
      BY <2>1
    <3>3. inHand' = {[Hand(seen) EXCEPT !.seen = now]}
      BY <2>1, <3>1 DEF ServesOne, Hand
    <3> HIDE DEF now, n
    <3>4. inHand' = {[client |-> clientAddr', xmt |-> netBuf', seen |-> now]}
      BY <2>1, <3>3 DEF Hand
    <3>5. \E b \in DOMAIN now : now[b] = clock' /\ \A a \in DOMAIN now : a <= b
      BY <3>2
    <3>6. pc' = "reply" => \E a \in DOMAIN now : receiveTime' = EncodeTime(SntpTimeOf(now[a]))
      BY <2>1, <3>1, <3>2 DEF ServesOne
    <3>7. QED BY <2>1, <2>2, <3>2, <3>4, <3>5, <3>6 DEF ServesOne, Hand
  <2>3. CASE pc \notin Serving
    BY <2>1, <2>3 DEF ServingInv
  <2>4. QED BY <2>2, <2>3
<1>10. QED BY <1>1, <1>2, <1>3, <1>4, <1>5, <1>6, <1>7, <1>8, <1>9 DEF Next

LEMMA ServiceTime == \A t : Service!SntpTimeOf(t) = SntpTimeOf(t)
  BY DEF Service!SntpTimeOf, SntpTimeOf, Service!WordSize, WordSize

LEMMA ServiceTypes == Service!NetWord = NetWord
  BY DEF Service!NetWord, NetWord, Service!Byte, Byte

LEMMA QuietStep ==
  ASSUME sent' = {}, UNCHANGED << clock, inHand >>
  PROVE  Shown' = {} /\ Service!Quiet
  BY DEF Service!Quiet, Shown

LEMMA ReceiveAccepts ==
  ASSUME ServingInv, ReceiveRequest
  PROVE  \E client \in Clients, xmt \in Service!NetWord : Service!Accept(client, xmt)
<1>1. inHand = {} /\ TypeOK
  BY DEF ServingInv, Serving, ReceiveRequest, Take
<1>2. Head(rxq).client \in Clients /\ Head(rxq).xmt \in NetWord
  BY <1>1, TypeTake DEF ReceiveRequest
<1>3. /\ inHand' = {[client |-> Head(rxq).client, xmt |-> Head(rxq).xmt, seen |-> << clock >>]}
      /\ sent' = {} /\ clock' = clock
  BY DEF ReceiveRequest, Take, Requested
<1>4. Service!Accept(Head(rxq).client, Head(rxq).xmt)
  <2>1. Shown' = {}
    BY <1>3 DEF Shown
  <2>2. QED BY <1>1, <1>3, <2>1 DEF Service!Accept, Service!Accepted
<1>5. PICK client \in Clients, xmt \in NetWord : client = Head(rxq).client /\ xmt = Head(rxq).xmt
  BY <1>2
<1>6. Service!Accept(client, xmt)
  BY <1>4, <1>5
<1>7. QED BY <1>6, ServiceTypes

LEMMA ReplyAnswersOrDrops ==
  ASSUME ServingInv, "clock" \notin Faults, Reply
  PROVE  Service!Answer \/ Service!Drop
<1>1. PICK seen \in Seq(Word) : ServesOne(seen)
  BY DEF ServingInv, Serving, Reply
<1>2. PICK a \in DOMAIN seen : receiveTime = EncodeTime(SntpTimeOf(seen[a]))
  BY <1>1 DEF ServesOne, Reply
<1>3. PICK b \in DOMAIN seen : seen[b] = clock /\ a <= b
  BY <1>1, <1>2 DEF ServesOne
<1>4. inHand = {Hand(seen)} /\ inHand' = {} /\ UNCHANGED clock
  BY <1>1 DEF ServesOne, Reply
<1> DEFINE transmitTime == EncodeTime(SntpTimeOf(seen[b]))
           out == Outcome(transmitTime)
<1>5. \/ sent' = {[kind |-> "reply", answer |-> out]}
      \/ sent' = {[kind |-> "send_failed", answer |-> out]}
  BY <1>3 DEF Reply, Send, Reading
<1>6. /\ SntpTimeOf(seen[a]) \in Word /\ SntpTimeOf(seen[b]) \in Word
      /\ Ntohl(receiveTime) = SntpTimeOf(seen[a])
      /\ Ntohl(transmitTime) = SntpTimeOf(seen[b])
  BY <1>1, <1>2, <1>3, WordTypes, NtohlHtonl DEF EncodeTime
<1>7. out = [client |-> clientAddr, origin |-> netBuf,
             receive |-> receiveTime, transmit |-> transmitTime]
  BY EchoIsExact DEF Outcome, ServingInv, TypeOK
<1> HIDE DEF out, transmitTime
<1>8. CASE sent' = {[kind |-> "reply", answer |-> out]}
  <2>1. Shown' = {AsRead(out)}
    <3> DEFINE r == [kind |-> "reply", answer |-> out]
    <3>1. r.kind = "reply" /\ r.answer = out
      OBVIOUS
    <3>2. sent' = {r}
      BY <1>8
    <3> HIDE DEF r
    <3>3. QED BY <3>1, <3>2 DEF Shown
  <2>2. AsRead(out) = [client |-> clientAddr, origin |-> netBuf,
                       receive |-> SntpTimeOf(seen[a]), transmit |-> SntpTimeOf(seen[b])]
    BY <1>6, <1>7 DEF AsRead
  <2>3. Shown' = {Service!Answered(Hand(seen), SntpTimeOf(seen[a]), SntpTimeOf(seen[b]))}
    BY <2>1, <2>2 DEF Service!Answered, Hand
  <2>4. Hand(seen).seen = seen
    BY DEF Hand
  <2>5. QED BY <1>2, <1>3, <1>4, <2>3, <2>4, ServiceTime DEF Service!Answer
<1>9. CASE sent' = {[kind |-> "send_failed", answer |-> out]}
  <2>1. Shown' = {}
    BY <1>9 DEF Shown
  <2>2. QED BY <1>4, <2>1 DEF Service!Drop
<1>10. QED BY <1>5, <1>8, <1>9

LEMMA ServiceStep ==
  ASSUME ServingInv, "clock" \notin Faults, [Next]_vars
  PROVE  [Service!Next]_(Service!svars)
<1>1. CASE InitUDPSocket \/ ReceiveUnexpected \/ ReceiveError \/ StampReceiveTime
  BY <1>1, QuietStep DEF InitUDPSocket, ReceiveUnexpected, Take, ReceiveError, StampReceiveTime,
                         Service!Next
<1>2. CASE ReceiveRequest
  BY <1>2, ReceiveAccepts DEF Service!Next
<1>3. CASE Reply
  BY <1>3, ReplyAnswersOrDrops DEF Service!Next
<1>4. CASE \E d \in Datagram : Arrive(d)
  BY <1>4, QuietStep DEF Arrive, Service!Next
<1>5. CASE ClockMoves
  <2>1. Service!ClockMoves
    BY <1>5 DEF ClockMoves, Service!ClockMoves, Shown
  <2>2. QED BY <2>1 DEF Service!Next
<1>6. CASE UNCHANGED vars
  BY <1>6 DEF Service!svars, Shown
<1>7. QED BY <1>1, <1>2, <1>3, <1>4, <1>5, <1>6 DEF Next

(* The test server implements SntpService as long as its clock can be      *)
(* read, whatever else fails and whatever datagrams come.                  *)
THEOREM ServerImplementsService ==
  ASSUME "clock" \notin Faults
  PROVE  Spec => ImplementsService
<1>1. Init => Service!Init
  BY DEF Init, Service!Init, Shown
<1>2. ServingInv /\ [Next]_vars => ServingInv'
  BY ServingStep
<1>3. ServingInv /\ [Next]_vars => [Service!Next]_(Service!svars)
  BY ServiceStep
<1>4. QED BY <1>1, <1>2, <1>3, ServingInit, PTL DEF Spec, ImplementsService, Service!Spec
===============================================================================
