# TLA+ models of the cFE SNTP application

The repository holds an SNTP server that runs as an application ("app") of
NASA's core Flight Executive (cFE): one task that answers SNTP requests on UDP
port 123 and takes ground commands from the cFE software bus. This directory
models it in TLA+, together with the test client and the test server of
`tools/` and the network between them, checks the models with TLC and proves
theorems about them with TLAPS.

## 1. Inventory of the system

| Part | Source | State it keeps | Operations |
|---|---|---|---|
| Main loop | `fsw/src/sntp.c` 131-206 | `RunStatus`, position in the loop | run loop, poll, receive, exit |
| Initialisation | `sntp.c` 58-83, 213-301 | subscriptions, socket, receive timeout | `SNTP_Init`, `initUDPSocket` |
| Commands and telemetry | `sntp.c` 311-476, `sntp_msg.h` | five counters, `HkTlm` | NOOP, RESET, housekeeping, refusals |
| Requests | `sntp.c` 86-124, 179-193 | `netBuf`, `clientAddr`, the reply being built | receive, stamp, answer |
| Time stamps | `sntp_utils.c`, `sntp_utils.h`, `core_sntp_config.h` | none | clock reading, byte order, deserialise, ms and fractions |
| Status texts | `sntp_utils.c` 8-36 | none | `sntp_util_status_to_str` |
| Test client | `tools/client_test.c` | one query: its two clock readings, the response | send, receive, judge the response |
| Test server | `tools/server_test.c` | socket, `netBuf`, the reply being built | blocking receive, answer |

Outside the repository, modelled from how the code uses it: cFE (executive
services start the task, ask it to exit and clean up after it; the software bus
queues packets), the UDP sockets of the operating system, the clock. coreSNTP
(packet layout, client serialiser) is a submodule and is not present.

How the parts interact. The task is the only one to touch the app's data. It
is concurrent with publishers on the bus (which fill its pipe), the network
(which fills its socket), executive services (start, exit request), the clock
(which may be stepped), and other processes (which may own port 123). Every
turn of the loop asks executive services whether to go on, takes at most one
packet from the pipe without waiting, then at most one datagram, waiting up to
one second. The test server is the same service without pipe, counters,
restarts or timeout. A client is a process of its own: it sends one request,
waits for one datagram, compares its originate time stamp with the request's
and works out from four time stamps how far its clock is off. A port may be
used by one client process after another, so that a datagram may arrive at a
process that did not cause it.

What is hard, and what makes each part correct:

* *Initialisation* makes six calls that can fail; none may leave a loop that
  runs half initialised, and repeated starts may not leak (`ServingIsReady`,
  `DescriptorsBounded`). The app does not close its socket when it exits. A
  seventh, the one that sets the receive timeout, is not looked at (`PipeIsPolled`).
* *The loop* serves two inputs and an exit request with one blocking call
  (`CommandsServed`, `RequestsServed`, `ExitHonoured`, `FairShare`,
  `ExitIsPrompt`).
* *Counters and telemetry* must agree with what happened, across resets,
  wrap-arounds of 8 and 16 bits and partial failures (`CountersMatchLog`,
  `TelemetryIsSnapshot`).
* *Requests* share one buffer and one address variable, and take two clock
  readings (`OneAnswerPerRequest`, `StampsAreReadings`).
  `ImplementsService` says the same in one sentence for both servers.
* *The test server* must go on after every failure (`RequestsAnswered`).
* *The client* waits without a timeout and judges a response by its originate
  time stamp only, on a network that loses, delays, reorders and repeats
  (`OffsetIsBounded`, `QuerySucceeds`, `QueryTimesOut`).
* *Together*: requests wait in the app's socket while it takes commands, and
  are lost with it when it exits; a client must learn no less from this server
  than from any other (`ImplementsExchange`, `OffsetIsKnown`).
* *Time stamps* are made and shown with a constant that is rounded up
  (`ReadingIsAccurate`, `ShownIsExact`, `LaterIsNotBefore`).

`PROJECT.json` lists every hazard at its line with the properties that cover it,
or the reason why none does.

## 2. Modules

| Module | What it is |
|---|---|
| `SntpTime` | time stamps: byte order, epoch, `encodeTime`, `Sntp_DeserializeRequest`, `getCurrentSntpTime` |
| `SntpApp` | the app and its environment; EXTENDS `SntpTime` |
| `SntpAppHistory` | `SntpApp` with an observer, for what spans many steps |
| `SntpService` | what a server promises to its clients, as an abstract specification |
| `SntpTestServer` | `tools/server_test.c` and its environment |
| `SntpClient` | the steps of `tools/client_test.c`, and `sntp_util_status_to_str` |
| `SntpExchange` | composes clients, a network and `SntpService` |
| `SntpSystem` | composes `SntpAppHistory` with the clients and the network of `SntpExchange` |
| `SntpClock` | from the host's clock to a time stamp and to the milliseconds shown, in both builds |
| `SntpTimeProofs` | theorems about the conversions, and modular arithmetic |
| `SntpAppProofs`, `SntpAppHistoryProofs` | theorems about the app and about its histories |
| `SntpAppServiceProofs`, `SntpTestServerProofs` | the two servers implement `SntpService` |
| `SntpExchangeProofs`, `SntpClockProofs` | theorems about what a client learns, and about the rounding |
| `SntpSystemProofs` | the composition implements `SntpExchange`, and what follows |
| `MCSntpApp`, `MCSntpAppHistory`, `MCSntpTestServer`, `MCSntpExchange`, `MCSntpSystem` | instances for TLC |

### SntpTime

A time stamp of the code is two 32-bit words that every function treats alike;
one word stands for both. A word has two bytes of `ByteSize` values instead of
four of 256. `Htonl` and `Ntohl` are the byte swaps of a little-endian host,
and `NetWord` is a word as its bytes lie in a packet, so leaving a conversion
out, or doing it twice, gives another value. `SntpTimeOf` adds the offset between the
epochs in unsigned arithmetic, so the end of an era is a value like others.

### SntpApp

`pc` is the place of the task: `down`; the calls of `SNTP_Init` (`register`,
`pipe`, `sub_hk`, `sub_cmd`, `socket`); `run` (at `CFE_ES_RunLoop`); `poll`;
`recv`; `stamp` and `reply` (inside `process_sntp_request`); `exit`. One
action is the code between two calls at which the environment has a say.

* `Start` ... `InitUDPSocket` are `SNTP_Init`. `InitFails` is every failing
  path together with what `SNTP_Main` makes of the status: `APP_ERROR`.
* `RunLoop` and `ExitApp` are executive services. `ExitApp` frees pipe and
  subscriptions but not the socket, a plain socket of the operating system:
  `port` becomes `leaked`.
* `PollCommand` takes the head of the pipe through `ProcessCommandPacket`,
  `ProcessGroundCommand` and the handler in one step, since only the task
  touches that data. `PollNothing` is the empty pipe and, equally silent, the
  pipe that fails.
* `ReceiveRequest`, `ReceiveInvalid`, `ReceiveEmpty`, `ReceiveTimeout` and
  `ReceiveError` are the branches on the result of `recvfrom`. A datagram that
  is too long is cut and served; a short one overwrites the start of `netBuf`.
* `StampReceiveTime` and `Reply` are the two clock readings, with the send and
  the count of a failed send.
* `Publish`, `Arrive`, `RequestExit`, `ClockMoves`, `ForeignPort` are the
  environment. What the bus or the kernel drops changes nothing.

`Faults` names the services that may fail, so a run chooses its world. `obs`
is what the last step showed to the outside or got from a failing service; it
carries the names of events and the contents of telemetry and replies.
The constant fields of a reply (mode, version, stratum, reference id), texts and
performance log entries are left out. Definitions marked *faulty* are plausible errors; none is
part of `Next`. They are used to confirm that each property would notice one.

### SntpAppHistory

`log` is the sequence of all observations, `readings` the clock values since
the current request was received, `bypassed` how often the head of each queue
saw the other queue served. The properties are stated on these and never on the
handlers: `Tally` counts a log, `Exchange` relates a reply to a request.

`asked` is the request shown last. With it the history is mapped to
`SntpService`: the request in hand is `asked` while the task is in
`process_sntp_request`, the answer is the reply of the last step.

### SntpService

One request in hand at most (`inHand`), and for each one answer or none
(`Answer`, `Drop`). The answer goes to the request's sender, gives its time
stamp back, and carries two readings, in order, out of those the clock had while
the request was in hand. Everything else a server does is `Quiet`. The promise
needs a clock that can be read; with the fault `clock` it does not hold.

### SntpTestServer

`pc` is `bind`, `recv` (in `recvfrom`), `stamp` and `reply` (between its two
clock readings) or `stopped` (the port is taken). Each early return of
`run_sntp_server` is an outcome of an action, and `main` calls it again whatever
it returned. `inHand` is auxiliary: the request with the clock values since.

### SntpClient and SntpExchange

A client process on a port is `off`, before `sendto` (`send`), in `recvfrom`
(`wait`) or before its second clock reading (`received`). `Judge` is the rest
of `run_sntp_query` after `recvfrom`. `status` is the number a query returned
(`Returns`); `main` looks at nothing of it, and the process ends. The only text
shown of it is `printed`: the name `sntp_util_status_to_str` finds for a
response that was read and not accepted (`Verdict`). A request that cannot be
serialised fails an `assert` and aborts the process (`AssertFails`), without a
status. `Sntp_DeserializeResponse` is external: the originate
time stamp must match, stratum 0 is a refusal, and the offset is half the sum
of two differences (`TwiceClockOffset`). The random bits that `Sntp_SerializeRequest`
adds below the clock's resolution are left out, which makes requests of the
same reading indistinguishable, the harder case.

`SntpExchange` connects processes to a network (two sets of datagrams; `Carry`,
`Deliver` and `Lose` decide their fate) and to any server that keeps the promise of
`SntpService`. `Stratum` is the server's command line argument cut to eight
bits. A server that does something the clients cannot see is `ServerGoesOn`;
`Lose` takes any number of datagrams, as a server does that ends with a full
queue. Each client's clock is `Ahead[p]` of the server's. `troubled` is
auxiliary: the ports whose query lost a datagram, met a failing `recvfrom`, or
began while something of an earlier query was still under way.

### SntpSystem

The app in the place of the promised server: its variables and actions are those
of `SntpAppHistory`, those of the clients come from `SntpExchange` through the
instance `Net`. `Deliver` is a datagram of the network that reaches the socket
(`Arrive`); datagrams of other sizes arrive from elsewhere. In `Net`, a request
is under way as long as it is on the network or waits in the socket (`Requests`),
so that what the app takes but does not serve, and what it loses with its
socket's queue, are losses of the network there; `troubled` says whose. The clock
only goes on, as in `SntpExchange`, and `Tick` bounds it by `Duration`.
`SNTP_STRATUM` is the stratum clients are shown.

### SntpClock

Words of seconds and fractions apart, the only place where their sizes matter:
`tv_nsec` is cut to milliseconds, multiplied by 1000 * 4295 fractions (2^32 /
10^6 rounded up), and divided by the same number when the client shows it. The
cFE build copies the subseconds instead. `ClockAssumption` is what makes the
constants of the code right: 999 * 4295000 < 2^32 <= 1000 * 4295000.

## 3. Runs

| Run | Question | Bounds |
|---|---|---|
| `app_lifecycle` | what holds with every call failing at will, over any number of restarts | all message kinds, all sizes, words of 4 values, two time stamps, queues of 1, 8-bit counters modulo 2, 16-bit counters modulo 1 (always 0) |
| `app_liveness` | is everything served, is an exit honoured | two clients, all message kinds, queues of 2; failing subscriptions, `setsockopt` and sends |
| `history_counters` | do counters and telemetry tell what happened | 7 observations, 8-bit counters modulo 3, 16-bit counters modulo 2 |
| `history_answers` | does every request get its own answer, is the app an `SntpService` | two clients, two time stamps, words of 4 values, 6 observations, one clock step per request |
| `test_server` | is the test server an `SntpService`, does it answer everything it takes | two clients, two time stamps, words of 4 values, all sizes, queue of 2, one clock step per request; failing bind, receive, send |
| `exchange` | what does a client learn, what keeps it from learning | two ports, used again and again, clocks two ahead and two behind, one datagram each way at a time, one tick; words of 16 values that wrap at that tick; all faults |
| `system` | is the app with its clients a `SntpExchange`; does neither input starve, is an exit prompt | one client two ahead, NOOP commands, pipe of 2, socket of 1, two sizes, one datagram each way, one tick, 6 observations; failing sends |
| `clock` | are the conversions right at every nanosecond | 4 milliseconds of 5 ns and 32 fractions a second, era of 3 s, 90 ns |
| `client_timeout` | does a query end if a datagram is lost | expected to fail; one port |
| `no_timeout` | does the loop come back to the pipe although `setsockopt` may fail | expected to fail; one client |
| `nominal_init` | does a restart succeed when nobody else owns the port | expected to fail |
| `refusals` | is every refused command counted | expected to fail |

Why the bounds are enough. `SntpApp` is finite without any bound on time: the
first two runs cover runs of any length, any number of restarts included. Its counters
influence no decision, so small moduli lose nothing but the values: `app_lifecycle`
holds the 16-bit ones at 0 to make room for its failures, and `history_counters`
is the run that makes all of them wrap. `history_counters` has room for a start, a start-up
event and five more: three commands, enough to wrap the 8-bit counters, and the telemetry
after them; two requests that wrap the 16-bit counters; counts, a reset and counts again. `history_answers` has
room for two requests with their answers after the start, or one with an exit
request in the middle, and words whose byte order shows. Queues of 1 or 2
show every order of two inputs, since a turn of the loop takes one of each; the pipe of depth
32 differs only in how long a packet waits. `MaxLog` and `MaxReadings` are the
only bounds in guards (in `HNext` and `AppSteps`), which is why the history runs and `system` may stop and do
not check for deadlock; the others do. In `history_answers` the clients are symmetric:
no definition tells one from another.

`test_server` is finite but for `MaxReadings`. In `exchange`, `Duration` bounds the clocks and
`MaxInFlight` the network; queries are not bounded, so that responses of
earlier processes, repeated responses and requests do reach later ones, within
one reading of the clock and across the tick. The tick ends the server's era
and each client's end of era is elsewhere, so offsets are taken across it. One
port with `Duration` 3 and two datagrams each way was also run, with the same result.
`system` is as wide as a run of minutes allows: its 6 observations are a start,
a start-up and four more, enough for a command, a request, its answer and another
request in the hands of the task, or for an exit that is asked for while a command and a request
wait, or that loses a waiting request; the client asks again and again, across the tick. The same run with
the inductive invariant `SystemInv` of the proofs in place of the properties
passes as well. Its theorems have none of these bounds.
`clock` has 36 fractions in four milliseconds against 32 in a second, a worse
rounding than that of the code, and covers a second boundary at each of its
milliseconds and one end of an era.

Fairness. `FairSpec` asks for weak fairness of the task as a whole: the
scheduler runs it when it can go on, and the kernel ends a `recvfrom` whose
timeout is set (`sntp.c` 78-80). No event of the environment is asked for:
packets, datagrams, starts and exits may or may not come. Polling and receiving are
taken to succeed: with either failing for ever there is nothing to serve from.
The call that sets the timeout may fail. Then `recvfrom` may block for ever
(`Blocked`), and `CommandsServed` and `ExitHonoured` promise something only
of behaviours in which it does not (`ReceivesEnd`): datagrams that keep coming
are enough. With the timeout set the premise is always true. `RequestsServed`
needs no premise. `no_timeout` shows what the premise leaves out.

The test server's `FairSpec` schedules its three steps; that of receiving says
that `recvfrom` does not fail for ever while datagrams wait. In `SntpExchange`
the processes and the server are scheduled (weak fairness), and a port whose
request stays under way has its turn at the server (strong fairness, since the
socket is a queue: the server takes other requests in between, but finitely many
before this one). Nothing is asked of the network: loss is no part of
`FairSpec`, and `QuerySucceeds` names it as an excuse.

The four runs that fail record disagreements between the code and texts of
the repository (`findings` in `PROJECT.json`):

* `SNTP_Main` exits without closing its socket. A restart in the same process
  then fails to bind port 123, against the nominal case of the unit test
  (`coveragetest_sample_app.c:248`).
* A comment (`sntp.c:369`) says an unknown command code was already found by
  the length test; it was not, and it is not counted.
* A comment in the client speaks of a timeout and an optional retry
  (`client_test.c:143`); its socket has no timeout and nothing is sent again.
  (`client_timeout` may stop, which is the point, and does not check for deadlock.)
* Two comments of the app say that it waits for one second and then polls for
  commands (`sntp.c:78`, `sntp.c:179`); it goes on without a timeout if
  `setsockopt` fails.

Two more were seen while reading and have no run. A `CFE_SB_ReceiveBuffer` error
is ignored (`sntp.c:173`), although the unit test expects an event and the end of
the app (`coveragetest_sample_app.c:228`). The stratum on the test server's
command line is cut to eight bits (`server_test.c:52`): 256 becomes 0, a refusal
to every client. Both are modelled (fault `poll`, `Stratum`); no run checks a
property about them.

## 4. Proofs

All theorems hold for every value of the constants that the named assumptions
allow (`TimeAssumption`, `AppAssumption`, `HistoryAssumption`, `ServerAssumption`,
`ExchangeAssumption`, `SystemAssumption`, `ClockAssumption`): widths, depths and byte sizes are
positive, packets and time stamps have their types, the clocks of an exchange
are less than half an era apart (in the composition also within one era of the
Unix clock, and the app may receive what its clients send), and the constants of the fractions are as far
from exact as those of the code at most. TLC evaluates the assumptions in the
runs. Theorems that say `"clock" \notin Faults` need a clock that can be read.

The app (`SntpAppProofs`, `SntpAppHistoryProofs`, `SntpAppServiceProofs`):

* `TypeCorrect`: `TypeOK` is inductive by itself, one lemma per group of
  actions. It bounds counters and queues.
* `ServingIsReadyAlways`: not inductive by itself, since it says nothing of the
  steps before the loop. `Progress` adds what each step of the initialisation
  has achieved, and that `APP_RUN` at the run loop means that all of it was.
* `DescriptorsBoundedAlways`: inductive; only three actions touch it.
* `CountersMatchLogAlways`, `TelemetryIsSnapshotAlways`: by `ReportInv`.
  `CountAppend` says what one more observation does to a count (a fact of
  finite sets, no induction over the log), `CounterSteps` what each action does
  to the counters according to its observation, `ModSucc` that incrementing a
  counter counts modulo its width, and `TallyAppend` puts them together.
* `FairShareAlways`: by `FairInv`. A queue was passed over only between its own
  turn and the other's, and the queues are empty before the loop is entered.
  `QueueSteps` sorts all actions into four kinds.
* `ExitIsPromptAlways`: by `PromptInv`. While a request to exit is pending,
  what was handled since can only be what the task has behind it in its present
  turn: nothing at the poll, no datagram before the receive. `HandledGrows`
  says what one observation adds; `InputSteps` that only the run loop leads
  back to the poll.
* `AppImplementsService`, `StampsAreReadingsAlways`: by `HandInv`. While the
  task is in `process_sntp_request`, `netBuf` and `clientAddr` are still those
  of the request shown last, the last of the readings is what the clock says,
  and the receive time already taken is one of them. `RequestSteps` sorts the
  actions by what they mean for the request in hand.
* `OneAnswerPerRequestAlways`: by `AnswerInv`, which adds that the request in
  hand is the last one in the log and that only exit requests follow it. It
  holds with every fault, a failing clock included.

The test server (`SntpTestServerProofs`): `TypeCorrect`, and
`ServerImplementsService` by `ServingInv`, with the same argument as for the app.

Client and server (`SntpExchangeProofs`): `OffsetIsBoundedAlways`. What is
inductive is `OriginInv`: every time stamp, in a request or a response under
way, at the server or at a client, stems from a time at which a clock was read,
and those times are in order: asked at q, received at a >= q, answered at
b >= a. A client accepts a response only when its originate time stamp is that of its own
request. It may be the answer to another request of the same reading, but then
that was read at the same time, so the four times are in order all the same.
`DifferenceIsElapsed` turns differences of time stamps into differences of
times, across the end of an era, and the bound is arithmetic on four times.

The composition (`SntpSystemProofs`):

* `SystemInvAlways`: `HandInv` of the app, and `WorldInv`: the clock is one of
  the exchange's, and what clients send and the network carries are datagrams
  the app may receive. The second is what makes every step of `AppSteps` one of
  `HNext` (`AppStepIsNext`), so that what is proved of the app alone can be used.
* `SystemImplementsExchange`: each step is one of `SntpExchange` or none.
  Taking a request is `ServerAccepts`, whether the network still has a copy or
  not; the reply is `ServerAnswers`; a reply that cannot be sent is
  `ServerDrops`; a clock tick is `Tick`; everything else may lose requests
  from the socket but shows nothing (`QuietIsNet`): it is `Lose`, `ServerGoesOn` or a
  stutter. `WaitingInTail` and `WaitingInAppend` say what the queue's
  operations do to the set of waiting requests, `InsideKeeps` which of them the
  app uses.
* `OffsetIsKnownAlways`: no new induction. `SntpExchangeProofs` is instantiated
  with the system's state (`Proved`), its assumptions follow from
  `SystemAssumption`, and `OffsetIsBoundedAlways` holds of the instance.
  `SameNext`, `SameSpec` and `SameOffset` say that its definitions are those of `Net`.
* `SystemIsFair`, `SystemExitIsPrompt`: by `FairInv` and `PromptInv`, which the
  steps of clients and network do not touch; with every fault.

The rounding (`SntpClockProofs`): the stamp is the reading of the clock at
`takenAt` (`StampInv`), and the rest is about that reading. The proofs break the
products of four constants into monotonicity of multiplication (`Mul`) and the
defining property of division (`DivBelow`). With the constants of the code this
gives: less than one millisecond behind, at most 7.6 microseconds ahead, seconds
and fractions together (`SecondsExact`: the seconds are those of the clock, up to
the end of the era), and the client shows the server's millisecond exactly.

`EchoIsExact` (`SntpTimeProofs`): through the deserialiser and the reply, the
origin time stamp is the client's bit for bit, since `htonl` and `ntohl` undo each
other (lemma `NtohlHtonl`).

Only model-checked: the liveness properties (`CommandsServed`,
`RequestsServed`, `ExitHonoured`, `RequestsAnswered`, `QuerySucceeds`), since
the proof system does not reason about fairness with enabledness.

## 5. Plan

1. done: `SntpTime`, `SntpApp`, `SntpAppHistory`, their runs and theorems.
2. done: `SntpService`, implemented by the app and by the test server;
   `SntpTestServer`, `SntpClient`, `SntpExchange`, `SntpClock`.
3. done: every safety property that a run checks is a theorem, refinements included.
4. done: `SntpSystem`, the app with its clients and the network, implements
   `SntpExchange`; what is proved of a promised server is proved of the app.
5. left: the same composition for the test server, which follows from
   `ServerImplementsService` on paper only.

## 6. Not modelled

Printing, performance log entries and event texts (no property is
about them); the constant fields of a reply, but for the stratum; the unused
table and the function prototypes of `sntp.h` that nothing defines; real time
(the timeout is a step that is possible when no datagram waits). Of the tools,
the parsing of the command line, and a second server: the client talks to one.
What a failing clock leaves in a time stamp is an arbitrary word; it is
explored (`app_lifecycle`), but nothing is promised for it. coreSNTP is
external. cFE's own epoch is a setting of the mission and is taken to be the Unix
epoch, as `getCurrentSntpTime` does. The unit test was written for another
application, does not compile against this one, and is used only as a text about the code.
