------------------------------ MODULE SntpClient ------------------------------
(***************************************************************************)
(* tools/client_test.c: a process that sends one request, waits for one    *)
(* datagram and works out how far its clock is off.  A port is used by one *)
(* process after another; Ports are the addresses the server sees.  The    *)
(* actions take what comes from outside as parameters, the reading t of    *)
(* the client's clock and the datagram d, so that SntpExchange can connect *)
(* them to a network and a server.                                         *)
(***************************************************************************)
EXTENDS SntpTime, Sequences

CONSTANT Ports

VARIABLES
  at,            \* where the process on each port stands, "off" between processes
  requestTime,   \* requestTime in run_sntp_query
  responseTime,  \* responseTime
  netBuf,        \* the response in netBuf
  status,        \* the SntpStatus_t that the last run_sntp_query returned
  printed        \* the name of its failure that the process printed, "" if none

clientVars == << at, requestTime, responseTime, netBuf, status, printed >>

KissOfDeath == 0     \* the stratum of a server that refuses to serve

Response == [client : Ports, origin : NetWord, receive : Word, transmit : Word, stratum : Nat]

(* What run_sntp_query may return, numbered as in SntpStatus_t.            *)
NoStatus                == -1     \* it has not returned
SntpSuccess             == 0
SntpRejectedResponse    == 2
SntpInvalidResponse     == 7
SntpErrorNetworkFailure == 11
SntpNoResponseReceived  == 16

SntpStatusStrs ==
    << "SntpSuccess", "SntpErrorBadParameter", "SntpRejectedResponse",
       "SntpRejectedResponseChangeServer", "SntpRejectedResponseRetryWithBackoff",
       "SntpRejectedResponseOtherCode", "SntpErrorBufferTooSmall", "SntpInvalidResponse",
       "SntpZeroPollInterval", "SntpErrorTimeNotSupported", "SntpErrorDnsFailure",
       "SntpErrorNetworkFailure", "SntpServerNotAuthenticated", "SntpErrorAuthFailure",
       "SntpErrorSendTimeout", "SntpErrorResponseTimeout", "SntpNoResponseReceived",
       "SntpErrorContextNotInitialized" >>

sntp_util_status_to_str(s) ==
    IF s >= 0 /\ s < Len(SntpStatusStrs) THEN SntpStatusStrs[s + 1] ELSE "Unknown SNTP status"

ClientStatus == {NoStatus, SntpSuccess, SntpRejectedResponse, SntpInvalidResponse,
                 SntpErrorNetworkFailure, SntpNoResponseReceived}

NoResponse(p) == [client |-> p, origin |-> Htonl(0), receive |-> 0, transmit |-> 0,
                  stratum |-> KissOfDeath]

ClientInit == /\ at = [p \in Ports |-> "off"]
              /\ requestTime = [p \in Ports |-> 0]
              /\ responseTime = [p \in Ports |-> 0]
              /\ netBuf = [p \in Ports |-> NoResponse(p)]
              /\ status = [p \in Ports |-> NoStatus]
              /\ printed = [p \in Ports |-> ""]

(* What Sntp_SerializeRequest puts into the request.  It also mixes random *)
(* bits into the fractions, finer than the resolution of the clock; without*)
(* them requests are as hard to tell apart as they can be.                 *)
RequestXmt(p) == EncodeTime(requestTime[p])

(* main opens the socket; a port in use ends the process before it starts. *)
StartQuery(p, t) == /\ at[p] = "off"
                    /\ requestTime' = [requestTime EXCEPT ![p] = SntpTimeOf(t)]
                    /\ at' = [at EXCEPT ![p] = "send"]
                    /\ responseTime' = [responseTime EXCEPT ![p] = 0]
                    /\ netBuf' = [netBuf EXCEPT ![p] = NoResponse(p)]
                    /\ status' = [status EXCEPT ![p] = NoStatus]
                    /\ printed' = [printed EXCEPT ![p] = ""]

(* main looks at nothing that run_sntp_query returns, and ends.            *)
Returns(p, s) == /\ at' = [at EXCEPT ![p] = "off"]
                 /\ status' = [status EXCEPT ![p] = s]

(* A request that cannot be serialised aborts the process.                 *)
AssertFails(p) == /\ at[p] = "send"
                  /\ at' = [at EXCEPT ![p] = "off"]
                  /\ UNCHANGED << requestTime, responseTime, netBuf, status, printed >>

SendRequest(p) == /\ at[p] = "send"
                  /\ at' = [at EXCEPT ![p] = "wait"]
                  /\ UNCHANGED << requestTime, responseTime, netBuf, status, printed >>

(* Faulty: the result of sendto is not looked at.                          *)
SendFailsUnnoticed(p) == SendRequest(p)
SendFails(p) == /\ at[p] = "send"
                /\ Returns(p, SntpErrorNetworkFailure)
                /\ UNCHANGED << requestTime, responseTime, netBuf, printed >>

(* recvfrom blocks: there is no action for a wait that has been too long.  *)
ReceiveResponse(p, d) == /\ at[p] = "wait"
                         /\ netBuf' = [netBuf EXCEPT ![p] = d]
                         /\ at' = [at EXCEPT ![p] = "received"]
                         /\ UNCHANGED << requestTime, responseTime, status, printed >>

(* An error, an empty datagram, or one that is not as long as netBuf.      *)
ReceiveFails(p) == /\ at[p] = "wait"
                   /\ \/ Returns(p, SntpErrorNetworkFailure)
                      \/ Returns(p, SntpNoResponseReceived)
                   /\ UNCHANGED << requestTime, responseTime, netBuf, printed >>

(* Sntp_DeserializeResponse: a response must give back the time stamp of   *)
(* the request, and not refuse to serve.                                   *)
DeserializeResponse(request, response) ==
    IF response.origin # EncodeTime(request) THEN SntpInvalidResponse
    ELSE IF response.stratum = KissOfDeath THEN SntpRejectedResponse
    ELSE SntpSuccess

(* Only a response that was read and refused is printed with its status.   *)
Verdict(p, s) == /\ Returns(p, s)
                 /\ printed' = [printed EXCEPT ![p] = IF s = SntpSuccess THEN ""
                                                      ELSE sntp_util_status_to_str(s)]

(* Faulty: responseTime is the reading taken before recvfrom.              *)
JudgeByRequestTime(p, t) ==
    /\ at[p] = "received"
    /\ responseTime' = [responseTime EXCEPT ![p] = requestTime[p]]
    /\ Verdict(p, DeserializeResponse(requestTime[p], netBuf[p]))
    /\ UNCHANGED << requestTime, netBuf >>
Judge(p, t) == /\ at[p] = "received"
               /\ responseTime' = [responseTime EXCEPT ![p] = SntpTimeOf(t)]
               /\ Verdict(p, DeserializeResponse(requestTime[p], netBuf[p]))
               /\ UNCHANGED << requestTime, netBuf >>

(* The difference of two time stamps, up to half an era either way, and    *)
(* what Sntp_DeserializeResponse makes of the four time stamps: twice the  *)
(* offset of the server's clock, and the time spent on the network.        *)
Difference(x, y) == LET d == (x - y) % WordSize
                    IN  IF 2 * d < WordSize THEN d ELSE d - WordSize

TwiceClockOffset(p) == Difference(netBuf[p].receive, requestTime[p])
                       + Difference(netBuf[p].transmit, responseTime[p])

RoundTrip(p) == Difference(responseTime[p], requestTime[p])
                - Difference(netBuf[p].transmit, netBuf[p].receive)

ClientTypeOK == /\ at \in [Ports -> {"off", "send", "wait", "received"}]
                /\ requestTime \in [Ports -> Word]
                /\ responseTime \in [Ports -> Word]
                /\ netBuf \in [Ports -> Response]
                /\ status \in [Ports -> ClientStatus]
                /\ printed \in [Ports -> {"", "SntpRejectedResponse", "SntpInvalidResponse"}]
===============================================================================
