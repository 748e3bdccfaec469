-------------------------- MODULE SntpAppHistoryProofs --------------------------
(***************************************************************************)
(* Theorems about SntpAppHistory: the counters and the telemetry report    *)
(* what was shown, for every width of the counters, every set of packets,  *)
(* addresses and faults, and every length of the history.                  *)
(***************************************************************************)
EXTENDS SntpAppHistory, SntpAppProofs, FiniteSetTheorems, SequenceTheorems

USE DEF vars, dataVars, reqVars, busVars, netVars, envVars

Countable == {"length_error", "noop", "request", "send_failed", "invalid_request",
              "recv_failed"}

LEMMA SinceFinite ==
  ASSUME NEW l \in Seq(Observation), NEW k
  PROVE  /\ IsFiniteSet(Since(l, k))
         /\ Count(l, k) \in Nat
         /\ Since(l, k) \subseteq 1 .. Len(l)
<1>1. Since(l, k) \in SUBSET (1 .. Len(l))
  BY DEF Since
<1>2. IsFiniteSet(1 .. Len(l))
  BY FS_Interval
<1>3. IsFiniteSet(Since(l, k))
  BY <1>1, <1>2, FS_Subset
<1>4. QED BY <1>1, <1>3, FS_CardinalityType DEF Count

(* One more observation clears a count, adds one to it or leaves it.       *)
LEMMA CountAppend ==
  ASSUME NEW l \in Seq(Observation), NEW e \in Observation, NEW k \in Countable
  PROVE  Count(Append(l, e), k) = IF e.kind \in Clears THEN 0
                                  ELSE IF e.kind = k THEN Count(l, k) + 1
                                  ELSE Count(l, k)
<1> DEFINE m == Append(l, e)
           n == Len(l) + 1
<1>1. /\ Len(l) \in Nat /\ DOMAIN l = 1 .. Len(l)
      /\ m \in Seq(Observation) /\ DOMAIN m = 1 .. n /\ Len(m) = n
      /\ \A i \in 1 .. Len(l) : m[i] = l[i]
      /\ m[n] = e
  BY AppendProperties
<1>2. k \notin Clears
  BY DEF Countable, Clears
<1> HIDE DEF m
<1>3. CASE e.kind \in Clears
  <2>1. Since(m, k) = {}
    BY <1>1, <1>3 DEF Since
  <2>2. QED BY <2>1, <1>3, FS_EmptySet DEF Count, m
<1>4. CASE e.kind \notin Clears /\ e.kind = k
  <2>1. \A i \in 1 .. Len(l) : i \in Since(m, k) <=> i \in Since(l, k)
    BY <1>1, <1>4 DEF Since
  <2>2. n \in Since(m, k)
    BY <1>1, <1>4 DEF Since
  <2>3. Since(m, k) = Since(l, k) \cup {n}
    BY <1>1, <2>1, <2>2, SinceFinite
  <2>4. n \notin Since(l, k)
    BY <1>1, SinceFinite
  <2>5. Cardinality(Since(m, k)) = Cardinality(Since(l, k)) + 1
    BY <2>3, <2>4, SinceFinite, FS_AddElement
  <2>6. QED BY <2>5, <1>4 DEF Count, m
<1>5. CASE e.kind \notin Clears /\ e.kind # k
  <2>1. \A i \in 1 .. Len(l) : i \in Since(m, k) <=> i \in Since(l, k)
    BY <1>1, <1>5 DEF Since
  <2>2. n \notin Since(m, k)
    BY <1>1, <1>5 DEF Since
  <2>3. Since(m, k) \subseteq 1 .. n /\ Since(l, k) \subseteq 1 .. Len(l)
    BY <1>1, SinceFinite
  <2>4. \A i \in 1 .. n : i \in 1 .. Len(l) \/ i = n
    BY <1>1
  <2>5. Since(m, k) = Since(l, k)
    BY <2>1, <2>2, <2>3, <2>4
  <2>6. QED BY <2>5, <1>5 DEF Count, m
<1>6. QED BY <1>3, <1>4, <1>5

(* Every step does to the counters what the kind of its observation says.  *)
CounterChange ==
    \/ obs'.kind \in Clears /\ cnts' = NoCounts
    \/ obs'.kind = "length_error" /\ cnts' = Incr8("CommandErrorCounter")
    \/ obs'.kind = "noop" /\ cnts' = Incr8("CommandCounter")
    \/ obs'.kind = "request" /\ cnts' = Incr16("SntpReqRcv")
    \/ obs'.kind = "send_failed" /\ cnts' = Incr16("SntpBadRequests")
    \/ obs'.kind \in {"invalid_request", "recv_failed"} /\ cnts' = Incr16("SntpInvalidRequests")
    \/ obs'.kind \notin Clears \cup Countable /\ cnts' = cnts

LEMMA CounterSteps == Next => CounterChange
<1> SUFFICES ASSUME Next PROVE CounterChange
  OBVIOUS
<1> USE DEF CounterChange, Clears, Countable, Silent, Event
<1>1. CASE Start \/ Register \/ CreatePipe \/ SubscribeHk \/ SubscribeCmd
  BY <1>1 DEF Start, Register, CreatePipe, SubscribeHk, SubscribeCmd, Subscribe, InitFails
<1>2. CASE InitUDPSocket \/ RunLoop \/ ExitApp
  BY <1>2 DEF InitUDPSocket, BindFails, BindSucceeds, InitFails, RunLoop, ExitApp
<1>3. CASE PollCommand
  <2>1. ProcessCommandPacket(Head(pipe))
    BY <1>3 DEF PollCommand
  <2>2. QED
    BY <2>1 DEF ProcessCommandPacket, ProcessGroundCommand, Noop, ResetCounters, LengthError,
                ReportHousekeeping, CommandEvent, Telemetry
<1>4. CASE PollNothing
  BY <1>4 DEF PollNothing
<1>5. CASE ReceiveRequest \/ ReceiveInvalid \/ ReceiveEmpty
  BY <1>5 DEF ReceiveRequest, ReceiveInvalid, ReceiveEmpty, Request
<1>6. CASE ReceiveTimeout \/ ReceiveError
  BY <1>6 DEF ReceiveTimeout, ReceiveError
<1>7. CASE StampReceiveTime \/ Reply
  BY <1>7 DEF StampReceiveTime, Reply, Outcome
<1>8. CASE RequestExit \/ ClockMoves \/ ForeignPort
  BY <1>8 DEF RequestExit, ClockMoves, ForeignPort
<1>9. CASE \E m \in Messages : Publish(m)
  BY <1>9 DEF Publish
<1>10. CASE \E d \in Datagram : Arrive(d)
  BY <1>10 DEF Arrive
<1>11. QED
  BY <1>1, <1>2, <1>3, <1>4, <1>5, <1>6, <1>7, <1>8, <1>9, <1>10 DEF Next, Task, Environment

(* The tally of a log that grows by one observation.                       *)
LEMMA TallyAppend ==
  ASSUME NEW l \in Seq(Observation), cnts = Tally(l), TypeOK, obs' \in Observation,
         CounterChange
  PROVE  cnts' = Tally(Append(l, obs'))
<1> DEFINE m == Append(l, obs')
<1>1. \A k \in Countable : Count(l, k) \in Nat
  BY SinceFinite
<1>2. \A k \in Countable :
          Count(m, k) = IF obs'.kind \in Clears THEN 0
                        ELSE IF obs'.kind = k THEN Count(l, k) + 1 ELSE Count(l, k)
  BY CountAppend
<1>3. \A x \in Nat : /\ ((x % Uint8Size) + 1) % Uint8Size = (x + 1) % Uint8Size
                     /\ ((x % Uint16Size) + 1) % Uint16Size = (x + 1) % Uint16Size
  BY ModSucc, AppAssumption
<1>4. 0 % Uint8Size = 0 /\ 0 % Uint16Size = 0
  BY AppAssumption
<1> SUFFICES cnts' = Tally(m)
  OBVIOUS
<1> HIDE DEF m
<1>5. CASE obs'.kind \in Clears /\ cnts' = NoCounts
  BY <1>2, <1>4, <1>5 DEF Tally, NoCounts, Countable
<1>6. CASE obs'.kind = "length_error" /\ cnts' = Incr8("CommandErrorCounter")
  BY <1>1, <1>2, <1>3, <1>6 DEF Tally, Incr8, Countable, Clears
<1>7. CASE obs'.kind = "noop" /\ cnts' = Incr8("CommandCounter")
  BY <1>1, <1>2, <1>3, <1>7 DEF Tally, Incr8, Countable, Clears
<1>8. CASE obs'.kind = "request" /\ cnts' = Incr16("SntpReqRcv")
  BY <1>1, <1>2, <1>3, <1>8 DEF Tally, Incr16, Countable, Clears
<1>9. CASE obs'.kind = "send_failed" /\ cnts' = Incr16("SntpBadRequests")
  BY <1>1, <1>2, <1>3, <1>9 DEF Tally, Incr16, Countable, Clears
<1>10. CASE /\ obs'.kind \in {"invalid_request", "recv_failed"}
            /\ cnts' = Incr16("SntpInvalidRequests")
  <2> DEFINE s == Count(l, "invalid_request") + Count(l, "recv_failed")
  <2>1. s \in Nat /\ Count(m, "invalid_request") + Count(m, "recv_failed") = s + 1
    BY <1>1, <1>2, <1>10 DEF Countable, Clears
  <2>2. ((s % Uint16Size) + 1) % Uint16Size = (s + 1) % Uint16Size
    BY <2>1, <1>3
  <2>3. \A k \in Countable \ {"invalid_request", "recv_failed"} : Count(m, k) = Count(l, k)
    BY <1>2, <1>10 DEF Clears
  <2>4. cnts' = [cnts EXCEPT !.SntpInvalidRequests = (s + 1) % Uint16Size]
    BY <1>10, <2>2 DEF Incr16, Tally
  <2>5. QED BY <2>1, <2>3, <2>4 DEF Tally, Countable
<1>11. CASE obs'.kind \notin Clears \cup Countable /\ cnts' = cnts
  <2>1. \A k \in Countable : Count(m, k) = Count(l, k)
    BY <1>2, <1>11
  <2>2. QED BY <2>1, <1>11 DEF Tally, Countable
<1>12. QED
  BY <1>5, <1>6, <1>7, <1>8, <1>9, <1>10, <1>11 DEF CounterChange

LEMMA TallyOfNothing == Tally(<< >>) = NoCounts
<1>1. \A k : Since(<< >>, k) = {}
  BY DEF Since
<1>2. \A k : Count(<< >>, k) = 0
  BY <1>1, FS_EmptySet DEF Count
<1>3. 0 % Uint8Size = 0 /\ 0 % Uint16Size = 0
  BY AppAssumption
<1>4. QED BY <1>2, <1>3 DEF Tally, NoCounts

-------------------------------------------------------------------------------
(* The telemetry of a step is the counters as the step found them.         *)
LEMMA TelemetryStep == Next /\ obs'.kind = "telemetry" => obs'.payload = cnts
<1> SUFFICES ASSUME Next, obs'.kind = "telemetry" PROVE obs'.payload = cnts
  OBVIOUS
<1>1. CASE PollCommand
  <2>1. ProcessCommandPacket(Head(pipe))
    BY <1>1 DEF PollCommand
  <2>2. QED
    BY <2>1 DEF ProcessCommandPacket, ProcessGroundCommand, Noop, ResetCounters, LengthError,
                ReportHousekeeping, CommandEvent, Telemetry
<1>2. CASE Task /\ ~PollCommand
  BY <1>2 DEF Task, Register, CreatePipe, SubscribeHk, SubscribeCmd, Subscribe, InitFails,
     InitUDPSocket, BindFails, BindSucceeds, RunLoop, ExitApp, PollNothing, ReceiveRequest,
     ReceiveInvalid, ReceiveEmpty, ReceiveTimeout, ReceiveError, StampReceiveTime, Reply,
     Event, Silent, Request, Outcome
<1>3. CASE Environment
  BY <1>3 DEF Environment, Start, RequestExit, Publish, Arrive, ClockMoves, ForeignPort,
     Event, Silent
<1>4. QED BY <1>1, <1>2, <1>3 DEF Next

(* What is inductive: the counters are the tally of the whole log, and so  *)
(* is each telemetry packet of the log before it.                          *)
ReportInv == /\ TypeOK
             /\ log \in Seq(Observation)
             /\ CountersMatchLog
             /\ TelemetryIsSnapshot

LEMMA ReportInit == HInit => ReportInv
<1> SUFFICES ASSUME HInit PROVE ReportInv
  OBVIOUS
<1>1. TypeOK
  BY TypeInit DEF HInit
<1>2. log \in Seq(Observation) /\ DOMAIN log = {}
  BY DEF HInit
<1>3. CountersMatchLog
  BY TallyOfNothing DEF HInit, Init, CountersMatchLog
<1>4. QED BY <1>1, <1>2, <1>3 DEF ReportInv, TelemetryIsSnapshot

LEMMA SnapshotAppend ==
  ASSUME NEW l \in Seq(Observation), NEW e \in Observation,
         \A i \in DOMAIN l : l[i].kind = "telemetry" => l[i].payload = Tally(SubSeq(l, 1, i - 1)),
         e.kind = "telemetry" => e.payload = Tally(l)
  PROVE  \A i \in DOMAIN Append(l, e) :
            Append(l, e)[i].kind = "telemetry" =>
                Append(l, e)[i].payload = Tally(SubSeq(Append(l, e), 1, i - 1))
<1> DEFINE m == Append(l, e)
<1>1. /\ Len(l) \in Nat /\ DOMAIN l = 1 .. Len(l)
      /\ m \in Seq(Observation) /\ DOMAIN m = 1 .. Len(l) + 1
      /\ \A i \in 1 .. Len(l) : m[i] = l[i] /\ l[i] \in Observation
      /\ m[Len(l) + 1] = e
  BY AppendProperties
<1> HIDE DEF m
<1>2. ASSUME NEW i \in 1 .. Len(l) + 1 PROVE SubSeq(m, 1, i - 1) = SubSeq(l, 1, i - 1)
  <2>1. \A k \in 1 .. i - 1 : m[k] \in Observation /\ l[k] \in Observation /\ m[k] = l[k]
    BY <1>1
  <2>2. /\ SubSeq(m, 1, i - 1) \in Seq(Observation) /\ SubSeq(l, 1, i - 1) \in Seq(Observation)
        /\ Len(SubSeq(m, 1, i - 1)) = i - 1 /\ Len(SubSeq(l, 1, i - 1)) = i - 1
        /\ \A k \in 1 .. i - 1 : SubSeq(m, 1, i - 1)[k] = m[k] /\ SubSeq(l, 1, i - 1)[k] = l[k]
    BY <1>1, <2>1, SubSeqProperties
  <2>3. QED BY <2>1, <2>2, SeqEqual
<1>3. SubSeq(l, 1, Len(l)) = l
  BY SubSeqFull
<1>4. SUFFICES ASSUME NEW i \in 1 .. Len(l) + 1, m[i].kind = "telemetry"
               PROVE  m[i].payload = Tally(SubSeq(m, 1, i - 1))
  BY <1>1 DEF m
<1>5. CASE i \in 1 .. Len(l)
  BY <1>1, <1>2, <1>4, <1>5
<1>6. CASE i = Len(l) + 1
  <2>1. SubSeq(m, 1, i - 1) = l
    BY <1>1, <1>2, <1>3, <1>6
  <2>2. QED BY <1>1, <1>4, <1>6, <2>1
<1>7. QED BY <1>1, <1>5, <1>6

LEMMA ReportNext == ReportInv /\ [HNext]_hvars => ReportInv'
<1> SUFFICES ASSUME ReportInv, [HNext]_hvars PROVE ReportInv'
  OBVIOUS
<1>1. CASE HNext
  <2>1. TypeOK' /\ obs' \in Observation
    BY <1>1, TypeNext DEF HNext, ReportInv, TypeOK
  <2>2. CounterChange /\ (obs'.kind = "telemetry" => obs'.payload = cnts)
    BY <1>1, CounterSteps, TelemetryStep DEF HNext
  <2>3. CASE obs'.kind = "none"
    <3>1. log' = log /\ cnts' = cnts
      BY <1>1, <2>2, <2>3 DEF HNext, Observe, CounterChange, Clears, Countable
    <3>2. QED BY <2>1, <3>1 DEF ReportInv, CountersMatchLog, TelemetryIsSnapshot
  <2>4. CASE obs'.kind # "none"
    <3>1. log' = Append(log, obs')
      BY <1>1, <2>4 DEF HNext, Observe
    <3>2. log' \in Seq(Observation)
      BY <2>1, <3>1, AppendProperties DEF ReportInv
    <3>3. cnts' = Tally(log')
      BY <2>1, <2>2, <3>1, TallyAppend DEF ReportInv, CountersMatchLog
    <3>4. TelemetryIsSnapshot'
      BY <2>1, <2>2, <3>1, SnapshotAppend DEF ReportInv, CountersMatchLog, TelemetryIsSnapshot
    <3>5. QED BY <2>1, <3>2, <3>3, <3>4 DEF ReportInv, CountersMatchLog
  <2>5. QED BY <2>3, <2>4
<1>2. CASE UNCHANGED hvars
  <2>1. UNCHANGED << cnts, log >> /\ UNCHANGED vars
    BY <1>2 DEF hvars
  <2>2. TypeOK'
    BY <2>1, TypeNext DEF ReportInv
  <2>3. QED BY <2>1, <2>2 DEF ReportInv, CountersMatchLog, TelemetryIsSnapshot
<1>3. QED BY <1>1, <1>2

(* The counters are the numbers of what was shown since the last start or  *)
(* reset, modulo their width, in every reachable state.                    *)
THEOREM CountersMatchLogAlways == HSpec => []CountersMatchLog
<1>1. ReportInv => CountersMatchLog
  BY DEF ReportInv
<1>2. QED BY <1>1, ReportInit, ReportNext, PTL DEF HSpec

(* Each housekeeping packet reports exactly what happened before it.       *)
THEOREM TelemetryIsSnapshotAlways == HSpec => []TelemetryIsSnapshot
<1>1. ReportInv => TelemetryIsSnapshot
  BY DEF ReportInv
<1>2. QED BY <1>1, ReportInit, ReportNext, PTL DEF HSpec

-------------------------------------------------------------------------------
(* The queues are empty until the loop is entered, and a queue that waits  *)
(* was passed over only between its own turn and the other's: when the     *)
(* task stands before the other queue's turn, nobody has been passed over. *)
FairInv ==
    /\ pc \in InitSteps \cup {"down"} => rxq = << >> /\ port # "app"
    /\ bypassed \in [command : Nat, datagram : Nat]
    /\ "poll" \notin Faults => bypassed.command <= (IF pc = "recv" THEN 0 ELSE 1)
    /\ "recv" \notin Faults => bypassed.datagram <= (IF pc = "recv" THEN 1 ELSE 0)

LEMMA FairInit == HInit => FairInv
  BY DEF HInit, Init, FairInv

(* What a step does to the two queues and to the task's place.             *)
CommandTurn  == /\ pc = "poll" /\ pc' = "recv" /\ rxq' = rxq
                /\ \/ Len(pipe') < Len(pipe) \/ pipe' = << >>
                   \/ "poll" \in Faults /\ pipe' = pipe
DatagramTurn == /\ pc = "recv" /\ pc' \in {"stamp", "run"} /\ pipe' = pipe
                /\ \/ Len(rxq') < Len(rxq) \/ rxq' = << >>
                   \/ "recv" \in Faults /\ rxq' = rxq
EmptyingTurn == /\ pc \notin {"poll", "recv"} /\ pc' \notin {"poll", "recv"}
                /\ pipe' = << >> /\ rxq' = << >>
OtherTurn    == /\ pc' = pc \/ (pc \notin {"poll", "recv"} /\ pc' # "recv")
                /\ Len(pipe') >= Len(pipe) /\ Len(rxq') >= Len(rxq)

LEMMA QueueSteps ==
  ASSUME TypeOK, FairInv, Next
  PROVE  CommandTurn \/ DatagramTurn \/ EmptyingTurn \/ OtherTurn
<1> USE DEF TypeOK, FairInv
<1>1. Len(pipe) \in Nat /\ Len(rxq) \in Nat /\ Len(<< >>) = 0
  BY LenProperties
<1>2. CASE Start \/ Register \/ SubscribeHk \/ SubscribeCmd
  BY <1>1, <1>2 DEF Start, Register, SubscribeHk, SubscribeCmd, Subscribe, InitFails, OtherTurn
<1>3. CASE CreatePipe
  BY <1>1, <1>3 DEF CreatePipe, InitFails, OtherTurn, EmptyingTurn, InitSteps
<1>4. CASE InitUDPSocket
  BY <1>1, <1>4
  DEF InitUDPSocket, BindFails, BindSucceeds, InitFails, OtherTurn, InitSteps
<1>5. CASE RunLoop
  BY <1>1, <1>5 DEF RunLoop, OtherTurn
<1>6. CASE ExitApp
  BY <1>6 DEF ExitApp, EmptyingTurn
<1>7. CASE PollCommand
  <2>1. pc = "poll" /\ pc' = "recv" /\ rxq' = rxq /\ pipe # << >> /\ pipe' = Tail(pipe)
    BY <1>7 DEF PollCommand
  <2>2. Len(Tail(pipe)) < Len(pipe)
    BY <2>1, HeadTailProperties
  <2>3. QED BY <2>1, <2>2 DEF CommandTurn
<1>8. CASE PollNothing
  BY <1>8 DEF PollNothing, CommandTurn
<1>9. CASE ReceiveRequest \/ ReceiveInvalid \/ ReceiveEmpty
  <2>1. pc = "recv" /\ pc' \in {"stamp", "run"} /\ pipe' = pipe
    BY <1>9 DEF ReceiveRequest, ReceiveInvalid, ReceiveEmpty, Receive
  <2>2. rxq # << >> /\ rxq' = Tail(rxq)
    BY <1>9 DEF ReceiveRequest, ReceiveInvalid, ReceiveEmpty, Receive
  <2>3. Len(Tail(rxq)) < Len(rxq)
    BY <2>2, HeadTailProperties
  <2>4. QED BY <2>1, <2>2, <2>3 DEF DatagramTurn
<1>10. CASE ReceiveTimeout \/ ReceiveError
  BY <1>10 DEF ReceiveTimeout, ReceiveError, DatagramTurn
<1>11. CASE StampReceiveTime \/ Reply
  BY <1>1, <1>11 DEF StampReceiveTime, Reply, OtherTurn
<1>12. CASE RequestExit \/ ClockMoves \/ ForeignPort
  BY <1>1, <1>12 DEF RequestExit, ClockMoves, ForeignPort, OtherTurn
<1>13. ASSUME NEW m \in Messages, Publish(m) PROVE OtherTurn
  BY <1>1, <1>13 DEF Publish, OtherTurn
<1>14. ASSUME NEW d \in Datagram, Arrive(d) PROVE OtherTurn
  BY <1>1, <1>14 DEF Arrive, OtherTurn
<1>15. QED
  BY <1>2, <1>3, <1>4, <1>5, <1>6, <1>7, <1>8, <1>9, <1>10, <1>11, <1>12, <1>13, <1>14
  DEF Next, Task, Environment

LEMMA IdleNext ==
  ASSUME TypeOK, FairInv, Next
  PROVE  pc' \in InitSteps \cup {"down"} => rxq' = << >> /\ port' # "app"
<1> USE DEF FairInv, InitSteps
<1>1. CASE Start \/ Register \/ CreatePipe \/ SubscribeHk \/ SubscribeCmd
  BY <1>1 DEF Start, Register, CreatePipe, SubscribeHk, SubscribeCmd, Subscribe, InitFails
<1>2. CASE InitUDPSocket \/ RunLoop \/ ExitApp
  BY <1>2 DEF InitUDPSocket, BindFails, BindSucceeds, InitFails, RunLoop, ExitApp
<1>3. CASE PollCommand \/ PollNothing
  BY <1>3 DEF PollCommand, PollNothing
<1>4. CASE ReceiveRequest \/ ReceiveInvalid \/ ReceiveEmpty \/ ReceiveTimeout \/ ReceiveError
  BY <1>4 DEF ReceiveRequest, ReceiveInvalid, ReceiveEmpty, ReceiveTimeout, ReceiveError
<1>5. CASE StampReceiveTime \/ Reply
  BY <1>5 DEF StampReceiveTime, Reply
<1>6. CASE RequestExit \/ ClockMoves \/ ForeignPort
  BY <1>6 DEF RequestExit, ClockMoves, ForeignPort
<1>7. CASE \E m \in Messages : Publish(m)
  BY <1>7 DEF Publish
<1>8. CASE \E d \in Datagram : Arrive(d)
  BY <1>8 DEF Arrive
<1>9. QED
  BY <1>1, <1>2, <1>3, <1>4, <1>5, <1>6, <1>7, <1>8 DEF Next, Task, Environment

LEMMA FairNext == TypeOK /\ FairInv /\ [HNext]_hvars => FairInv'
<1> SUFFICES ASSUME TypeOK, FairInv, [HNext]_hvars PROVE FairInv'
  OBVIOUS
<1>1. CASE HNext
  <2>1. pc' \in InitSteps \cup {"down"} => rxq' = << >> /\ port' # "app"
    BY <1>1, IdleNext DEF HNext
  <2>2. /\ bypassed'.command = Waited(bypassed.command, pipe, pipe', rxq, rxq')
        /\ bypassed'.datagram = Waited(bypassed.datagram, rxq, rxq', pipe, pipe')
        /\ bypassed' \in [command : Nat, datagram : Nat]
    BY <1>1 DEF HNext, Observe, Waited, FairInv
  <2>3. Len(pipe) \in Nat /\ Len(rxq) \in Nat
    BY LenProperties DEF TypeOK
  <2>4. /\ "poll" \notin Faults => bypassed'.command <= (IF pc' = "recv" THEN 0 ELSE 1)
        /\ "recv" \notin Faults => bypassed'.datagram <= (IF pc' = "recv" THEN 1 ELSE 0)
    <3> USE <2>2, <2>3 DEF FairInv, Waited
    <3>1. CASE CommandTurn
      BY <3>1 DEF CommandTurn
    <3>2. CASE DatagramTurn
      BY <3>2 DEF DatagramTurn
    <3>3. CASE EmptyingTurn
      BY <3>3 DEF EmptyingTurn
    <3>4. CASE OtherTurn
      BY <3>4 DEF OtherTurn
    <3>5. QED BY <1>1, <3>1, <3>2, <3>3, <3>4, QueueSteps DEF HNext
  <2>5. QED BY <2>1, <2>2, <2>4 DEF FairInv
<1>2. CASE UNCHANGED hvars
  BY <1>2 DEF hvars, FairInv
<1>3. QED BY <1>1, <1>2

(* Neither queue is served twice while the other one waits.                *)
THEOREM FairShareAlways == HSpec => []FairShare
<1>1. HInit => TypeOK /\ FairInv
  BY TypeInit, FairInit DEF HInit
<1>2. TypeOK /\ FairInv /\ [HNext]_hvars => TypeOK' /\ FairInv'
  <2>1. [HNext]_hvars => [Next]_vars
    BY DEF HNext, hvars
  <2>2. QED BY <2>1, TypeNext, FairNext
<1>3. FairInv => FairShare
  BY DEF FairInv, FairShare
<1>4. QED BY <1>1, <1>2, <1>3, PTL DEF HSpec

-------------------------------------------------------------------------------
(* The exit is prompt because the run loop is the only way back to the     *)
(* poll, and does not go there once the exit was asked for: as long as a   *)
(* request to exit is pending, what was handled since can only be what the *)
(* task has behind it in its present turn.                                 *)

NoExitSince(i) == \A k \in i + 1 .. Len(log) : log[k].kind # "exit"
HandledSince(i, kinds) == {j \in i + 1 .. Len(log) :
                              /\ log[j].kind \in kinds
                              /\ \A k \in i + 1 .. j : log[k].kind # "exit"}

AtMostOne(S) == \A j, k \in S : j = k

PromptFor(i) ==
    /\ AtMostOne(HandledSince(i, CommandKinds))
    /\ AtMostOne(HandledSince(i, DatagramKinds))
    /\ NoExitSince(i) =>
          /\ exitRequest
          /\ pc = "poll" => HandledSince(i, CommandKinds) = {}
          /\ pc \in {"poll", "recv"} => HandledSince(i, DatagramKinds) = {}

PromptInv == /\ TypeOK
             /\ log \in Seq(Observation)
             /\ \A i \in DOMAIN log : log[i].kind = "exit_request" => PromptFor(i)

LEMMA PromptInit == HInit => PromptInv
<1> SUFFICES ASSUME HInit PROVE PromptInv
  OBVIOUS
<1>1. log \in Seq(Observation) /\ DOMAIN log = {}
  BY DEF HInit
<1>2. QED BY <1>1, TypeInit DEF HInit, PromptInv

(* The log grows at its end.                                               *)
LEMMA LogGrows ==
  ASSUME log \in Seq(Observation), obs' \in Observation, Observe
  PROVE  /\ log' \in Seq(Observation) /\ Len(log) \in Nat /\ DOMAIN log = 1 .. Len(log)
         /\ \A i \in 1 .. Len(log) : log'[i] = log[i]
         /\ obs'.kind = "none" => log' = log
         /\ obs'.kind # "none" => /\ Len(log') = Len(log) + 1
                                  /\ DOMAIN log' = 1 .. Len(log) + 1
                                  /\ log'[Len(log) + 1] = obs'
  BY AppendProperties DEF Observe

(* What one more observation adds to what was handled since another one.   *)
LEMMA HandledGrows ==
  ASSUME log \in Seq(Observation), obs' \in Observation, Observe,
         NEW i \in DOMAIN log, NEW kinds, "none" \notin kinds, "exit" \notin kinds
  PROVE  /\ NoExitSince(i)' <=> NoExitSince(i) /\ obs'.kind # "exit"
         /\ obs'.kind \notin kinds \/ ~NoExitSince(i)
              => HandledSince(i, kinds)' = HandledSince(i, kinds)
         /\ HandledSince(i, kinds)' \subseteq HandledSince(i, kinds) \cup {Len(log) + 1}
<1>1. PICK n \in Nat : n = Len(log)
  BY LogGrows
<1>2. /\ DOMAIN log = 1 .. n /\ i \in 1 .. n
      /\ \A k \in 1 .. n : log'[k] = log[k]
  BY <1>1, LogGrows
<1>3. CASE obs'.kind = "none"
  BY <1>3, LogGrows DEF NoExitSince, HandledSince
<1>4. CASE obs'.kind # "none"
  <2>1. Len(log') = n + 1 /\ log'[n + 1] = obs'
    BY <1>1, <1>4, LogGrows
  <2>2. NoExitSince(i)' <=> NoExitSince(i) /\ obs'.kind # "exit"
    BY <1>1, <1>2, <2>1 DEF NoExitSince
  <2>3. \A j \in i + 1 .. n : j \in HandledSince(i, kinds)' <=> j \in HandledSince(i, kinds)
    BY <1>1, <1>2, <2>1 DEF HandledSince
  <2>4. /\ HandledSince(i, kinds)' \subseteq i + 1 .. n + 1
        /\ HandledSince(i, kinds) \subseteq i + 1 .. n
    BY <1>1, <2>1 DEF HandledSince
  <2>5. \A j \in i + 1 .. n + 1 : j \in i + 1 .. n \/ j = n + 1
    BY <1>2
  <2>6. n + 1 \in HandledSince(i, kinds)' => obs'.kind \in kinds /\ NoExitSince(i)
    BY <1>1, <1>2, <2>1 DEF HandledSince, NoExitSince
  <2>7. HandledSince(i, kinds)' \subseteq HandledSince(i, kinds) \cup {n + 1}
    BY <2>3, <2>4, <2>5
  <2>8. obs'.kind \notin kinds \/ ~NoExitSince(i)
              => HandledSince(i, kinds)' = HandledSince(i, kinds)
    <3> SUFFICES ASSUME obs'.kind \notin kinds \/ ~NoExitSince(i)
                 PROVE  HandledSince(i, kinds)' = HandledSince(i, kinds)
      OBVIOUS
    <3>1. n + 1 \notin HandledSince(i, kinds)'
      BY <2>6
    <3>2. QED BY <2>3, <2>4, <2>5, <3>1
  <2>9. QED BY <1>1, <2>2, <2>7, <2>8
<1>5. QED BY <1>3, <1>4

(* What a step shows, and where it leads the task.                         *)
InputKinds == CommandKinds \cup DatagramKinds

HandlesCommand  == /\ pc = "poll" /\ pc' = "recv" /\ exitRequest' = exitRequest
                   /\ obs'.kind \in CommandKinds
HandlesDatagram == /\ pc = "recv" /\ pc' \in {"stamp", "run"} /\ exitRequest' = exitRequest
                   /\ obs'.kind \in DatagramKinds
Exits           == obs'.kind = "exit"
AskedToExit     == obs'.kind = "exit_request" /\ pc' = pc /\ exitRequest' = TRUE
NoInput         == /\ obs'.kind \notin InputKinds \cup {"exit", "exit_request"}
                   /\ exitRequest' = exitRequest
                   /\ pc' = "poll" => pc = "poll" \/ ~exitRequest
                   /\ pc' = "recv" => pc \in {"poll", "recv"}

LEMMA InputSteps ==
  ASSUME Next
  PROVE  HandlesCommand \/ HandlesDatagram \/ Exits \/ AskedToExit \/ NoInput
<1> USE DEF InputKinds, CommandKinds, DatagramKinds, Silent, Event
<1>1. CASE Start \/ Register \/ CreatePipe \/ SubscribeHk \/ SubscribeCmd
  BY <1>1 DEF Start, Register, CreatePipe, SubscribeHk, SubscribeCmd, Subscribe, InitFails, NoInput
<1>2. CASE InitUDPSocket \/ RunLoop
  BY <1>2 DEF InitUDPSocket, BindFails, BindSucceeds, InitFails, RunLoop, NoInput
<1>3. CASE ExitApp
  BY <1>3 DEF ExitApp, Exits
<1>4. CASE PollCommand
  <2>1. ProcessCommandPacket(Head(pipe))
    BY <1>4 DEF PollCommand
  <2>2. obs'.kind \in CommandKinds
    BY <2>1 DEF ProcessCommandPacket, ProcessGroundCommand, Noop, ResetCounters, LengthError,
                ReportHousekeeping, CommandEvent, Telemetry
  <2>3. QED BY <1>4, <2>2 DEF PollCommand, HandlesCommand
<1>5. CASE PollNothing
  BY <1>5 DEF PollNothing, NoInput
<1>6. CASE ReceiveRequest \/ ReceiveInvalid
  BY <1>6 DEF ReceiveRequest, ReceiveInvalid, Receive, Request, HandlesDatagram
<1>7. CASE ReceiveEmpty
  BY <1>7 DEF ReceiveEmpty, Receive, NoInput
<1>8. CASE ReceiveTimeout \/ ReceiveError
  BY <1>8 DEF ReceiveTimeout, ReceiveError, NoInput
<1>9. CASE StampReceiveTime \/ Reply
  BY <1>9 DEF StampReceiveTime, Reply, Outcome, NoInput
<1>10. CASE RequestExit
  BY <1>10 DEF RequestExit, AskedToExit
<1>11. CASE ClockMoves \/ ForeignPort
  BY <1>11 DEF ClockMoves, ForeignPort, NoInput
<1>12. CASE \E m \in Messages : Publish(m)
  BY <1>12 DEF Publish, NoInput
<1>13. CASE \E d \in Datagram : Arrive(d)
  BY <1>13 DEF Arrive, NoInput
<1>14. QED
  BY <1>1, <1>2, <1>3, <1>4, <1>5, <1>6, <1>7, <1>8, <1>9, <1>10, <1>11, <1>12, <1>13
  DEF Next, Task, Environment

(* One observation more, for a request to exit that the log shows already. *)
LEMMA PromptKept ==
  ASSUME PromptInv, TypeOK', Next, Observe,
         NEW i \in DOMAIN log, log[i].kind = "exit_request"
  PROVE  PromptFor(i)'
<1> DEFINE n == Len(log)
           C == HandledSince(i, CommandKinds)
           D == HandledSince(i, DatagramKinds)
<1>1. /\ "none" \notin CommandKinds /\ "exit" \notin CommandKinds
      /\ "none" \notin DatagramKinds /\ "exit" \notin DatagramKinds
      /\ CommandKinds \cap DatagramKinds = {}
  BY DEF CommandKinds, DatagramKinds
<1>2. log \in Seq(Observation) /\ obs' \in Observation /\ PromptFor(i)
  BY DEF PromptInv, TypeOK
<1>3. /\ NoExitSince(i)' <=> NoExitSince(i) /\ obs'.kind # "exit"
      /\ obs'.kind \notin CommandKinds \/ ~NoExitSince(i) => C' = C
      /\ obs'.kind \notin DatagramKinds \/ ~NoExitSince(i) => D' = D
      /\ C' \subseteq C \cup {n + 1}
      /\ D' \subseteq D \cup {n + 1}
  BY <1>1, <1>2, HandledGrows
<1>4. /\ AtMostOne(C) /\ AtMostOne(D)
      /\ NoExitSince(i) => /\ exitRequest
                           /\ pc = "poll" => C = {}
                           /\ pc \in {"poll", "recv"} => D = {}
  BY <1>2 DEF PromptFor
<1> SUFFICES /\ AtMostOne(C') /\ AtMostOne(D')
             /\ NoExitSince(i)' => /\ exitRequest'
                                   /\ pc' = "poll" => C' = {}
                                   /\ pc' \in {"poll", "recv"} => D' = {}
  BY DEF PromptFor, AtMostOne
<1> HIDE DEF n, C, D
<1>5. CASE ~NoExitSince(i)
  BY <1>3, <1>4, <1>5
<1>6. CASE NoExitSince(i) /\ HandlesCommand
  BY <1>1, <1>3, <1>4, <1>6 DEF HandlesCommand, AtMostOne
<1>7. CASE NoExitSince(i) /\ HandlesDatagram
  BY <1>1, <1>3, <1>4, <1>7 DEF HandlesDatagram, AtMostOne
<1>8. CASE NoExitSince(i) /\ Exits
  BY <1>1, <1>3, <1>4, <1>8 DEF Exits
<1>9. CASE NoExitSince(i) /\ AskedToExit
  <2>1. C' = C /\ D' = D
    BY <1>3, <1>9 DEF AskedToExit, CommandKinds, DatagramKinds
  <2>2. QED BY <1>4, <1>9, <2>1 DEF AskedToExit
<1>10. CASE NoExitSince(i) /\ NoInput
  <2>1. C' = C /\ D' = D
    BY <1>3, <1>10 DEF NoInput, InputKinds
  <2>2. QED BY <1>4, <1>10, <2>1 DEF NoInput
<1>11. QED BY <1>5, <1>6, <1>7, <1>8, <1>9, <1>10, InputSteps

LEMMA PromptNext == PromptInv /\ [HNext]_hvars => PromptInv'
<1> SUFFICES ASSUME PromptInv, [HNext]_hvars PROVE PromptInv'
  OBVIOUS
<1>1. TypeOK' /\ obs' \in Observation
  <2>1. TypeOK'
    BY TypeNext DEF PromptInv, HNext, hvars
  <2>2. QED BY <2>1 DEF TypeOK
<1>2. CASE UNCHANGED hvars
  <2>1. UNCHANGED << log, pc, exitRequest >>
    BY <1>2 DEF hvars
  <2>2. ASSUME NEW i \in DOMAIN log, PromptFor(i) PROVE PromptFor(i)'
    BY <2>1, <2>2 DEF PromptFor, NoExitSince, HandledSince, AtMostOne
  <2>3. QED BY <1>1, <2>1, <2>2 DEF PromptInv
<1> SUFFICES ASSUME Next, Observe PROVE PromptInv'
  BY <1>2 DEF HNext
<1>3. PICK n \in Nat : n = Len(log)
  BY <1>1, LogGrows DEF PromptInv
<1>4. /\ log' \in Seq(Observation) /\ DOMAIN log = 1 .. n
      /\ \A i \in 1 .. n : log'[i] = log[i]
      /\ \/ DOMAIN log' = 1 .. n
         \/ DOMAIN log' = 1 .. n + 1 /\ Len(log') = n + 1 /\ log'[n + 1] = obs'
  BY <1>1, <1>3, LogGrows DEF PromptInv
<1>5. ASSUME NEW i \in DOMAIN log', log'[i].kind = "exit_request" PROVE PromptFor(i)'
  <2>1. CASE i \in DOMAIN log
    BY <1>1, <1>4, <1>5, <2>1, PromptKept
  <2>2. CASE i = n + 1 /\ i \notin DOMAIN log
    <3>1. Len(log') = n + 1 /\ obs'.kind = "exit_request"
      BY <1>4, <1>5, <2>2
    <3>2. \A kinds : HandledSince(i, kinds)' = {}
      BY <2>2, <3>1 DEF HandledSince
    <3>3. exitRequest' = TRUE
      BY <3>1, InputSteps DEF HandlesCommand, HandlesDatagram, Exits, AskedToExit, NoInput,
                              CommandKinds, DatagramKinds
    <3>4. QED BY <3>2, <3>3 DEF PromptFor, AtMostOne
  <2>3. QED BY <1>4, <2>1, <2>2
<1>6. QED BY <1>1, <1>4, <1>5 DEF PromptInv

LEMMA AtMostOneCounts ==
  ASSUME NEW S, AtMostOne(S)
  PROVE  Cardinality(S) <= 1
<1>1. CASE S = {}
  BY <1>1, FS_EmptySet
<1>2. ASSUME NEW x \in S PROVE Cardinality(S) <= 1
  <2>1. S = {x}
    BY <1>2 DEF AtMostOne
  <2>2. Cardinality({x}) = 1
    BY FS_Singleton
  <2>3. QED BY <2>1, <2>2
<1>3. QED BY <1>1, <1>2

LEMMA PromptMeansPrompt == PromptInv => ExitIsPrompt
<1> SUFFICES ASSUME PromptInv, NEW i \in DOMAIN log, log[i].kind = "exit_request"
             PROVE  LET still == {j \in i + 1 .. Len(log) :
                                     \A k \in i + 1 .. j : log[k].kind # "exit"}
                    IN  /\ Cardinality({j \in still : log[j].kind \in CommandKinds}) <= 1
                        /\ Cardinality({j \in still : log[j].kind \in DatagramKinds}) <= 1
  BY DEF ExitIsPrompt
<1> DEFINE still == {j \in i + 1 .. Len(log) : \A k \in i + 1 .. j : log[k].kind # "exit"}
<1>1. \A kinds : {j \in still : log[j].kind \in kinds} = HandledSince(i, kinds)
  BY DEF HandledSince
<1>2. /\ Cardinality(HandledSince(i, CommandKinds)) <= 1
      /\ Cardinality(HandledSince(i, DatagramKinds)) <= 1
  BY AtMostOneCounts DEF PromptInv, PromptFor
<1>3. QED BY <1>1, <1>2

(* Once the exit was asked for, one command and one datagram at most are   *)
(* still handled before the application exits.                             *)
THEOREM ExitIsPromptAlways == HSpec => []ExitIsPrompt
  BY PromptInit, PromptNext, PromptMeansPrompt, PTL DEF HSpec
===============================================================================
