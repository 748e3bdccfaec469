------------------------------ MODULE SntpSystem ------------------------------
(***************************************************************************)
(* The application (SntpApp, with the observer of SntpAppHistory) in the   *)
(* place of the server of SntpExchange.  Requests wait in its socket while *)
(* it takes commands, answers others, exits and is started again, and are  *)
(* lost with the socket's queue.  What clients do is SntpClient's, what    *)
(* the application does is SntpApp's.                                      *)
(***************************************************************************)
EXTENDS SntpAppHistory

CONSTANTS Begin,                          \* Start of SntpExchange
          Duration, Ahead, MaxInFlight    \* as in SntpExchange

VARIABLES at, requestTime, responseTime, response, status, printed,  \* the clients
          network, responses,                               \* datagrams on their way
          troubled                                          \* as in SntpExchange

SNTP_STRATUM == 15

Served(d) == d.size \in {"exact", "long"}

(* A request is under way until the application takes it from its socket.  *)
Waiting(queue) == {[client |-> queue[i].client, xmt |-> queue[i].xmt] :
                      i \in {j \in DOMAIN queue : Served(queue[j])}}
Requests == network \cup Waiting(rxq)

Net == INSTANCE SntpExchange WITH
    Ports <- Clients, Start <- Begin, Faults <- {"lose", "repeat", "serialize", "send", "recv"},
    StratumArg <- SNTP_STRATUM, StratumSize <- 256,
    netBuf <- response, requests <- Requests, inHand <- Hand, answer <- Shown

(* The clocks are those of SntpExchange, in the first of its eras, and the *)
(* time stamps of the clients are among those the application may see.     *)
ASSUME SystemAssumption ==
    /\ Net!ExchangeAssumption
    /\ Begin + Duration < WordSize
    /\ "exact" \in Sizes
    /\ \A p \in Clients, t \in Begin .. Begin + Duration :
           EncodeTime(SntpTimeOf(t + Ahead[p])) \in XmtTimes

clientVars == << at, requestTime, responseTime, response, status, printed >>
sysVars    == << hvars, clientVars, network, responses, troubled >>

SystemInit == /\ HInit /\ clock = Begin
              /\ Net!ClientInit
              /\ network = {} /\ responses = {}
              /\ troubled = {}

-------------------------------------------------------------------------------
(* Steps of a client and of the network: the application shows nothing.    *)
AppRests == /\ obs' = Silent
            /\ UNCHANGED << pc, dataVars, reqVars, busVars, netVars, envVars,
                            log, asked, readings, bypassed >>

ClientSteps == /\ AppRests
               /\ \E p \in Clients :
                     \/ /\ UNCHANGED network
                        /\ \/ Net!Query(p) \/ Net!AskAborts(p) \/ Net!AskFails(p)
                           \/ Net!Hear(p) \/ Net!HearNothing(p) \/ Net!Evaluate(p)
                     \/ /\ network' \in {network, network \cup {[client |-> p, xmt |-> Net!RequestXmt(p)]}}
                        /\ Net!Ask(p)

Lose == /\ AppRests
        /\ \/ /\ \E d \in network : network' = network \ {d}
              /\ troubled' = troubled \cup {d.client : d \in Requests \ Requests'}
              /\ UNCHANGED responses
           \/ \E d \in responses : /\ responses' = responses \ {d}
                                   /\ troubled' = troubled \cup {d.client}
                                   /\ UNCHANGED network
        /\ UNCHANGED clientVars

-------------------------------------------------------------------------------
(* Steps of the application and of what surrounds it.                      *)
Deliver(d) == /\ Arrive([client |-> d.client, size |-> "exact", xmt |-> d.xmt])
              /\ network' \in Net!Deliver(network, d)

Tick == /\ clock' = clock + 1 /\ clock' <= Begin + Duration
        /\ ClockMoves

Packet == [client   |-> obs.client,
           origin   |-> obs.origin,
           receive  |-> Ntohl(obs.receive),
           transmit |-> Ntohl(obs.transmit),
           stratum  |-> SNTP_STRATUM]

(* Whom the step spoils the query of, to say it in terms of SntpExchange.  *)
Spoilt == CASE obs'.kind = "request"     -> {}
            [] obs'.kind = "reply"       -> {Packet'} \ responses'
            [] obs'.kind = "send_failed" -> {obs'}
            [] OTHER                     -> Requests \ Requests'

AppSteps == /\ \/ /\ \/ Task \/ Start \/ RequestExit \/ ForeignPort \/ Tick
                     \/ \E m \in Messages : Publish(m)
                     \/ \E d \in Datagram : ~Served(d) /\ Arrive(d)
                  /\ UNCHANGED network
               \/ \E d \in network : Deliver(d)
            /\ Observe
            /\ Len(log') <= MaxLog /\ Len(readings') <= MaxReadings
            /\ responses' = IF obs'.kind = "reply" THEN Net!Carry(responses, Packet')
                            ELSE responses
            /\ troubled' = troubled \cup {d.client : d \in Spoilt}
            /\ UNCHANGED clientVars

SystemNext == ClientSteps \/ Lose \/ AppSteps

SystemSpec == SystemInit /\ [][SystemNext]_sysVars

-------------------------------------------------------------------------------
(* With the application as their server, the clients and the network are   *)
(* those of SntpExchange, through commands, exits, restarts, full queues   *)
(* and whatever fails but the clock.                                       *)
ImplementsExchange == Net!Spec

(* A client that succeeds against the application knows how far its clock  *)
(* is off, up to half the time its datagrams spent on the network; time    *)
(* they wait in the application's socket counts as time on the network.    *)
OffsetIsKnown == Net!OffsetIsBounded
===============================================================================
