------------------------------ MODULE SntpService ------------------------------
(***************************************************************************)
(* What every server of this repository promises to its clients.  It has   *)
(* one request in hand at most, and answers it once or not at all.  The    *)
(* answer gives the client's own time stamp back, and carries two readings *)
(* of the server's clock, in order, that were taken while the request was  *)
(* in hand.  The application (SntpApp) and the test server (SntpTestServer) *)
(* are shown to implement this; the client (SntpExchange) relies on it.    *)
(***************************************************************************)
EXTENDS SntpTime, Sequences

CONSTANTS Clients,    \* addresses that requests come from
          Times       \* values of the server's clock

VARIABLES clock,      \* the server's clock
          inHand,     \* the request being served, if any
          answer      \* the answer the last step gave, if any

svars == << clock, inHand, answer >>

(* seen: the values the clock has had since the request was accepted.      *)
Accepted(client, xmt, seen) == [client |-> client, xmt |-> xmt, seen |-> seen]

Answered(request, receive, transmit) ==
    [client |-> request.client, origin |-> request.xmt,
     receive |-> receive, transmit |-> transmit]

Init == /\ clock \in Times
        /\ inHand = {}
        /\ answer = {}

Accept(client, xmt) == /\ inHand = {}
                       /\ inHand' = {Accepted(client, xmt, << clock >>)}
                       /\ answer' = {}
                       /\ UNCHANGED clock

Answer == \E request \in inHand : \E a, b \in DOMAIN request.seen :
              /\ a <= b
              /\ answer' = {Answered(request, SntpTimeOf(request.seen[a]),
                                              SntpTimeOf(request.seen[b]))}
              /\ inHand' = {}
              /\ UNCHANGED clock

(* The answer cannot be sent.                                              *)
Drop == /\ inHand # {}
        /\ inHand' = {}
        /\ answer' = {}
        /\ UNCHANGED clock

ClockMoves == /\ clock' \in Times \ {clock}
              /\ inHand' = {[request EXCEPT !.seen = Append(@, clock')] : request \in inHand}
              /\ answer' = {}

(* Nothing the clients can see.                                            *)
Quiet == /\ answer' = {}
         /\ UNCHANGED << clock, inHand >>

Next == \/ \E client \in Clients, xmt \in NetWord : Accept(client, xmt)
        \/ Answer \/ Drop \/ ClockMoves \/ Quiet

Spec == Init /\ [][Next]_svars
===============================================================================
