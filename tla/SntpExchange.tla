----------------------------- MODULE SntpExchange -----------------------------
(***************************************************************************)
(* Clients (SntpClient), a network and a server.  Of the server only what  *)
(* SntpService promises is used, so what holds here holds with the         *)
(* application and with the test server.  The network loses, delays,       *)
(* reorders and repeats; a response may reach a port after the process     *)
(* that asked has ended and another one has taken its place.               *)
(***************************************************************************)
EXTENDS SntpClient, FiniteSets

CONSTANTS
  Start,         \* the server's clock at the beginning, counted like the Unix clock
  Duration,      \* how long the clocks go on
  Ahead,         \* how much each client's clock is ahead of the server's
  StratumArg,    \* the stratum on the server's command line
  StratumSize,   \* 2^8 in the code
  MaxInFlight,   \* datagrams the network carries each way; more are lost
  Faults         \* a subset of {"lose", "repeat", "serialize", "send", "recv"}

(* The clocks run for less than half an era and differ by less than that:  *)
(* 68 years with the widths of the code.                                   *)
ASSUME ExchangeAssumption ==
    /\ Start \in Nat /\ Duration \in Nat
    /\ Ahead \in [Ports -> Int]
    /\ \A p \in Ports : /\ Start + Ahead[p] >= 0
                        /\ 2 * (Ahead[p] + Duration) < WordSize
                        /\ 2 * (Duration - Ahead[p]) < WordSize
    /\ StratumArg \in Nat /\ StratumSize \in Nat \ {0}
    /\ MaxInFlight \in Nat

VARIABLES
  clock, inHand, answer,   \* the server, as in SntpService
  requests,                \* requests under way
  responses,               \* responses under way
  troubled                 \* ports whose query the network or a failing call may have
                           \* spoilt (auxiliary)

serviceVars == << clock, inHand, answer >>
netVars     == << requests, responses >>
vars        == << clientVars, serviceVars, netVars, troubled >>

Service == INSTANCE SntpService WITH Clients <- Ports, Times <- Start .. Start + Duration

ClientClock(p) == clock + Ahead[p]

(* server_args.stratum has eight bits, the number on the command line more. *)
Stratum == StratumArg % StratumSize

Init == /\ ClientInit
        /\ Service!Init /\ clock = Start
        /\ requests = {} /\ responses = {}
        /\ troubled = {}

UnderWay(p) == \E d \in requests \cup responses \cup inHand : d.client = p

(* The network takes a datagram, or loses it.                              *)
Carry(net, d) == IF Cardinality(net) < MaxInFlight THEN net \cup {d} ELSE net
Troubled(net, d) == IF d \in net THEN troubled ELSE troubled \cup {d.client}

(* It hands a datagram over, and may keep it to hand it over again.        *)
Deliver(net, d) == {net \ {d}} \cup (IF "repeat" \in Faults THEN {net} ELSE {})

-------------------------------------------------------------------------------
Query(p) == /\ StartQuery(p, ClientClock(p))
            /\ troubled' = IF UnderWay(p) THEN troubled \cup {p} ELSE troubled \ {p}
            /\ Service!Quiet /\ UNCHANGED netVars

Ask(p) == LET request == [client |-> p, xmt |-> RequestXmt(p)]
          IN  /\ SendRequest(p)
              /\ requests' = Carry(requests, request)
              /\ troubled' = Troubled(requests', request)
              /\ Service!Quiet /\ UNCHANGED responses

AskAborts(p) == /\ "serialize" \in Faults
                /\ AssertFails(p)
                /\ Service!Quiet /\ UNCHANGED << netVars, troubled >>

AskFails(p) == /\ "send" \in Faults
               /\ SendFails(p)
               /\ Service!Quiet /\ UNCHANGED << netVars, troubled >>

Hear(p) == \E d \in responses : /\ d.client = p
                                /\ ReceiveResponse(p, d)
                                /\ responses' \in Deliver(responses, d)
                                /\ Service!Quiet /\ UNCHANGED << requests, troubled >>

HearNothing(p) == /\ "recv" \in Faults
                  /\ ReceiveFails(p)
                  /\ troubled' = troubled \cup {p}
                  /\ Service!Quiet /\ UNCHANGED netVars

Evaluate(p) == /\ Judge(p, ClientClock(p))
               /\ Service!Quiet /\ UNCHANGED << netVars, troubled >>

-------------------------------------------------------------------------------
ServerAccepts(d) == /\ d \in requests
                    /\ Service!Accept(d.client, d.xmt)
                    /\ requests' \in Deliver(requests, d)
                    /\ UNCHANGED << clientVars, responses, troubled >>

ResponseTo(a) == [client |-> a.client, origin |-> a.origin, receive |-> a.receive,
                  transmit |-> a.transmit, stratum |-> Stratum]

ServerAnswers == /\ Service!Answer
                 /\ \E a \in answer' : /\ responses' = Carry(responses, ResponseTo(a))
                                       /\ troubled' = Troubled(responses', ResponseTo(a))
                 /\ UNCHANGED << clientVars, requests >>

ServerDrops == /\ "lose" \in Faults
               /\ Service!Drop
               /\ troubled' = troubled \cup {d.client : d \in inHand}
               /\ UNCHANGED << clientVars, netVars >>

(* Whatever else a server does: its last answer is no longer its last step.*)
ServerGoesOn == /\ answer # {}
                /\ Service!Quiet
                /\ UNCHANGED << clientVars, netVars, troubled >>

-------------------------------------------------------------------------------
(* Datagrams are lost on the way, or with the queue of a server that ends. *)
Lose == /\ "lose" \in Faults
        /\ \E asked \in SUBSET requests, given \in SUBSET responses :
               /\ asked \cup given # {}
               /\ requests' = requests \ asked
               /\ responses' = responses \ given
               /\ troubled' = troubled \cup {d.client : d \in asked \cup given}
        /\ Service!Quiet /\ UNCHANGED clientVars

(* Duration bounds the clocks.                                             *)
Tick == /\ clock' = clock + 1
        /\ Service!ClockMoves
        /\ UNCHANGED << clientVars, netVars, troubled >>

Next == \/ \E p \in Ports : \/ Query(p) \/ Ask(p) \/ AskAborts(p) \/ AskFails(p)
                            \/ Hear(p) \/ HearNothing(p) \/ Evaluate(p)
        \/ \E d \in requests : ServerAccepts(d)
        \/ ServerAnswers \/ ServerDrops \/ ServerGoesOn
        \/ Lose \/ Tick

Spec == Init /\ [][Next]_vars

(* The processes are scheduled; the server's socket is a queue, so that a  *)
(* client whose requests are not lost has its turn, however many others    *)
(* send theirs.                                                            *)
Request == [client : Ports, xmt : NetWord]

FairSpec == /\ Spec
            /\ \A p \in Ports :
                  /\ WF_vars(Ask(p) \/ Hear(p) \/ Evaluate(p))
                  /\ SF_vars(\E d \in requests : d.client = p /\ ServerAccepts(d))
            /\ WF_vars(ServerAnswers \/ ServerDrops)

-------------------------------------------------------------------------------
(* Every variable keeps to its values.                                     *)
TypeOK == /\ ClientTypeOK
          /\ clock \in Start .. Start + Duration
          /\ inHand \subseteq [client : Ports, xmt : NetWord,
                               seen : Seq(Start .. Start + Duration)]
          /\ requests \subseteq Request
          /\ responses \subseteq Response
          /\ troubled \subseteq Ports

(* A client that succeeds knows how far its clock is off, up to half the   *)
(* time its datagrams spent on the network: whatever was repeated or came  *)
(* late from an earlier query, the response it accepts was made after its  *)
(* request and before it read the clock again, and an era may have ended   *)
(* in between.                                                             *)
OffsetIsBounded ==
    \A p \in Ports : status[p] = SntpSuccess =>
        /\ TwiceClockOffset(p) + 2 * Ahead[p] <= RoundTrip(p)
        /\ -(TwiceClockOffset(p) + 2 * Ahead[p]) <= RoundTrip(p)

(* A query succeeds unless a datagram of it is lost, a call of it fails,   *)
(* or an earlier query of its port was still under way when it began.      *)
QuerySucceeds ==
    \A p \in Ports : at[p] = "wait" ~> (status[p] = SntpSuccess \/ p \in troubled)

(* "Wait on response (or timeout)": a query ends even if its request or    *)
(* the response is lost.                                                   *)
QueryTimesOut == \A p \in Ports : at[p] = "wait" ~> at[p] # "wait"
===============================================================================
