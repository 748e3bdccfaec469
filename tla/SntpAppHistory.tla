----------------------------- MODULE SntpAppHistory -----------------------------
(***************************************************************************)
(* SntpApp with an observer.  The observer writes down what the            *)
(* application shows, the clock values it lived through, and who had to    *)
(* wait for whom; the application does not see it.  What the application   *)
(* promises about more than one step is stated here.                       *)
(***************************************************************************)
EXTENDS SntpApp, FiniteSets

CONSTANTS MaxLog,        \* observations the observer has room for
          MaxReadings    \* clock values during one request it has room for

ASSUME HistoryAssumption == MaxLog \in Nat /\ MaxReadings \in Nat

VARIABLES
  log,        \* what SntpApp showed, in order
  asked,      \* the request that was shown last
  readings,   \* clock values since then, as long as it is being answered
  bypassed    \* how often the head of each queue saw the other queue served

hvars == << vars, log, asked, readings, bypassed >>

Handling == {"stamp", "reply"}    \* the task is in process_sntp_request

(* How often the other queue was served since this one was empty or served. *)
Waited(n, before, after, otherBefore, otherAfter) ==
    IF after = << >> \/ Len(after) < Len(before) THEN 0
    ELSE IF Len(otherAfter) < Len(otherBefore) THEN n + 1 ELSE n

Observe ==
    /\ log' = IF obs'.kind = "none" THEN log ELSE Append(log, obs')
    /\ asked' = IF obs'.kind = "request" THEN obs' ELSE asked
    /\ readings' = IF obs'.kind = "request" THEN << clock >>
                   ELSE IF pc \in Handling /\ clock' # clock THEN Append(readings, clock')
                   ELSE readings
    /\ bypassed' = [command  |-> Waited(bypassed.command, pipe, pipe', rxq, rxq'),
                    datagram |-> Waited(bypassed.datagram, rxq, rxq', pipe, pipe')]

HInit == /\ Init
         /\ log = << >>
         /\ asked = Silent
         /\ readings = << >>
         /\ bypassed = [command |-> 0, datagram |-> 0]

HNext == /\ Next
         /\ Observe
         /\ Len(log') <= MaxLog /\ Len(readings') <= MaxReadings

HSpec == HInit /\ [][HNext]_hvars

-------------------------------------------------------------------------------
(* Counting what a log shows since the counters were last cleared.         *)

Clears == {"start", "reset"}

Since(l, kind) == {i \in DOMAIN l : /\ l[i].kind = kind
                                    /\ \A j \in i .. Len(l) : l[j].kind \notin Clears}

Count(l, kind) == Cardinality(Since(l, kind))

Tally(l) == [CommandErrorCounter |-> Count(l, "length_error") % Uint8Size,
             CommandCounter      |-> Count(l, "noop") % Uint8Size,
             SntpReqRcv          |-> Count(l, "request") % Uint16Size,
             SntpBadRequests     |-> Count(l, "send_failed") % Uint16Size,
             SntpInvalidRequests |-> (Count(l, "invalid_request") + Count(l, "recv_failed"))
                                         % Uint16Size]

(* Through starts, resets and wrap-arounds, in whatever order commands and *)
(* datagrams come, the counters are the numbers of what was shown since    *)
(* the last start or reset, modulo their width.                            *)
CountersMatchLog == cnts = Tally(log)

(* A housekeeping packet reports exactly what happened before it: nothing  *)
(* that came later, nothing missing, nothing from before a reset.          *)
TelemetryIsSnapshot ==
    \A i \in DOMAIN log :
        log[i].kind = "telemetry" => log[i].payload = Tally(SubSeq(log, 1, i - 1))

-------------------------------------------------------------------------------
Answers == {"reply", "send_failed"}

(* The i-th observation answers the j-th: it goes to the client that       *)
(* asked, it gives back the client's own time stamp, and the task did      *)
(* nothing else in between.                                                *)
Exchange(j, i) == /\ j < i
                  /\ log[j].kind = "request" /\ log[i].kind \in Answers
                  /\ log[i].client = log[j].client
                  /\ log[i].origin = log[j].xmt
                  /\ \A k \in j + 1 .. i - 1 : log[k].kind = "exit_request"

(* Each answer answers a request, and each request but the one in hand was *)
(* answered: none twice, none to another client, none with the time stamp  *)
(* of another request.                                                     *)
OneAnswerPerRequest ==
    /\ \A i \in DOMAIN log : log[i].kind \in Answers => \E j \in DOMAIN log : Exchange(j, i)
    /\ \A j \in DOMAIN log : log[j].kind = "request" =>
          \/ \E i \in DOMAIN log : Exchange(j, i)
          \/ /\ pc \in Handling
             /\ \A k \in j + 1 .. Len(log) : log[k].kind = "exit_request"

(* The two server time stamps of an answer are readings of the clock, in   *)
(* this order, taken between the arrival of the request in the task and    *)
(* the answer, even when the clock is stepped in between.                  *)
IsReading(w, n) == Ntohl(w) = (readings[n] + EpochOffset) % WordSize
StampsAreReadings ==
    obs.kind \in Answers =>
        \E a, b \in DOMAIN readings : /\ a <= b
                                      /\ IsReading(obs.receive, a)
                                      /\ IsReading(obs.transmit, b)

(* The application is an SNTP server in the sense of SntpService, as long  *)
(* as its clock can be read: whatever commands, exits, restarts and other  *)
(* datagrams come between, a request in hand is answered once, to its      *)
(* sender, with its own time stamp and readings taken while it was in hand. *)
Hand  == IF pc \in Handling
         THEN {[client |-> asked.client, xmt |-> asked.xmt, seen |-> readings]}
         ELSE {}
Shown == IF obs.kind = "reply"
         THEN {[client   |-> obs.client,
                origin   |-> obs.origin,
                receive  |-> Ntohl(obs.receive),
                transmit |-> Ntohl(obs.transmit)]}
         ELSE {}
Service == INSTANCE SntpService WITH Times <- Word, inHand <- Hand, answer <- Shown
ImplementsService == Service!Spec

-------------------------------------------------------------------------------
CommandKinds  == {"noop", "reset", "telemetry", "length_error", "invalid_code", "invalid_mid"}
DatagramKinds == {"request", "invalid_request"}

(* After executive services asked for the exit, the application handles    *)
(* one more command and one more datagram at most.                         *)
ExitIsPrompt ==
    \A i \in DOMAIN log : log[i].kind = "exit_request" =>
        LET still == {j \in i + 1 .. Len(log) :
                         \A k \in i + 1 .. j : log[k].kind # "exit"}
        IN  /\ Cardinality({j \in still : log[j].kind \in CommandKinds}) <= 1
            /\ Cardinality({j \in still : log[j].kind \in DatagramKinds}) <= 1

(* Neither input starves the other: while a packet waits at the head of    *)
(* the pipe one datagram at most is served, and while a datagram waits one *)
(* packet at most, as long as polling and receiving do not fail.           *)
FairShare == /\ "poll" \notin Faults => bypassed.command <= 1
             /\ "recv" \notin Faults => bypassed.datagram <= 1
===============================================================================
