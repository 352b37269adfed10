# ms2-serial-interface: models and proofs

TLA+ models of the programs of this repository: the `ms2d` daemon, which polls a
MegaSquirt-2 engine controller (ECU) and serves its data on a Unix socket; the
clients, the web server and the browser page behind it; the simulators that
stand in for an ECU; and the Python tools on the other end of the serial line.
TLC checks the models on small instances; TLAPS proves the theorems in the
`*Proofs` modules for every value of the constants. Paths below are relative to
the repository; `D/` stands for `work-ms2d-daemon/ms2d/`.

## 1. The system

    ECU / ecuSim --serial--> worker thread --outpc_buffer--> main thread --socket--> clients
    replay server             (main.c,        (mutex)        (main.c,               (C, Node)
    older simulators           serial_comm.c)                 rpc_server.c,            |
          |                                                   decoder.c)          dashboard server
          +--serial--> dash, capture tool                                              |  HTTP
                                                                                   browser app

| component | state it keeps | operations | what is hard | what makes it correct |
|---|---|---|---|---|
| OUTPC buffer (`D/src/serial_comm.c`, `rpc_server.c`, `decoder.c`) | `outpc_buffer`, `outpc_len`, `outpc_size`, `mutex` | store a frame; decode fields | two threads; `realloc` moves the block or fails; many returns under the lock | no byte outside the live block; an answer is one frame; nobody keeps the mutex |
| Serial link (`D/src/serial_comm.c`, `worker_thread`) | `serial_fd`, `backoff_ms`, `consecutive_failures`, kernel queues | send, read in three parts, check, close, sleep, reopen and flush | answers that are late, lost, damaged or surplus; ECU off; port unplugged | back in step after any error; every poll ends; the retry schedule; recovery |
| Daemon life cycle (`D/src/main.c`, `start.sh`) | `g_running`, threads, descriptors, socket file | set up, main loop, signal, join, free, restart | signals at any moment; failures half way through set-up; worker and main share the port; stale socket file | no descriptor leaks or is closed twice; nothing used after it is freed; shutdown ends; it comes back |
| RPC server (`D/src/rpc_server.c`) | listening socket, request count, timestamp | accept, receive, dispatch, respond, close | clients that are silent or leave; one connection at a time | every connection is closed once; everyone gets a turn |
| Decoder (`D/src/decoder.c`) | none | raw value, scale | bounds, sign, byte order | shows what the ECU encoded |
| INI and project parsers (`D/src/ini_parser.c`, `project_parser.c`) | field array, condition stack | parse, merge | nested `#if`, repeated definitions | fields are those of the active branches; the five readers of the repository agree |
| C client (`D/clients/ms2_client.c`), Node client (`ms2_client.js`) | request id | connect, send, receive for up to 5 s | a key of the answer that is also a value in it; time-outs | what is found is what the daemon put in |
| Dashboard server (`ms2d-dashboard/server.js`) | shared `client`, `connected` | HTTP request to RPC call | handlers overlap at each `await` | the flag follows the daemon |
| Browser app (`public/app.js`) | `state`: data, connection, playback, logs, drag race | poll, log, race | overlapping fetches, timers and frame callbacks | what is shown is no older than its poll; one race at a time |
| ECU simulator, protocol and pages (`ecuSim/`) | request buffer, pages, page file | parse, read, write, check, save | bytes out of step; lost answers and repeated writes; killed before or in a save | every request is answered, in order; a client that trusts a checksum is right; writes are not lost |
| ECU simulator, engine and files | engine state, tune | driving modes, build OUTPC; read INI and tune | rounds of any length; clamping, sign, scale, shared bytes; page numbers | values in range and shown as they were |
| Older simulators and dashes (`exampleFiles/`, `work-ms2d-daemon/`) | partial request, engine | answer, show | a byte lost or too many | deafness is bounded; only OUTPC is shown |
| Capture and replay (`testingTools/`) | capture file, frame index | record, load, replay, inspect | late answers, cut files, sleep with a request in the buffer | recorded in order; played in order; nothing waits |
| cJSON (`D/vendor`) | - | - | third party | - |

The components interact in five places. The worker and the main thread share
`ms2d_state_t`: the OUTPC buffer under `state->mutex`, `serial_fd` and
`g_running` without it. A poller and an ECU, or what stands in for one, exchange
requests and answers over a line that neither controls. The main thread serves
the clients one connection after the other, so each client's behaviour is felt
by the others and by shutdown. `start.sh` and the daemon communicate through the
exit of the process, the device node and the socket file. And the five readers
of an INI file and the two of a tune file must agree, or the numbers one program
shows are not those another one sends.

`PROJECT.json` lists every component with its status and every hazard with its
line and the properties aimed at it.

## 2. Modules

| module | what it is |
|---|---|
| `OutpcFrames` | frames, fields, the value of a field in a frame (`ms2d_decode_field`) |
| `Snapshot` | abstract: one current frame; a call reads all its fields from it, or is refused |
| `OutpcBuffer` | detailed: the two threads, the mutex, the heap block, one byte and one field at a time |
| `SerialLink` | worker, line, ECU and port |
| `Daemon` | main, worker, signals, RPC connections, clients, restart |
| `ClientLibrary` | the text of the daemon's answers and what the C client finds in it |
| `Bridge` | browser page, dashboard server, Node client, daemon |
| `DragRace` | the drag race of the page, a race of callbacks |
| `EcuPages` | the ECU simulator's pages and the file that keeps them, over several runs |
| `EcuCommands` | every command of the ECU simulator, and a tuning session over a line that loses messages |
| `Framing` | a request frame in a buffer of bytes, shared by the readers below |
| `EcuRequests` | how ecuSim finds requests in a stream of bytes |
| `ReplayServer`, `ExampleSimulator` | the replay server and the simulator of `exampleFiles`, which share `read_framed_request` and differ in their loops |
| `PlainSimulator` | the simulator of `work-ms2d-daemon`, whose reader has no buffer |
| `PollingTools` | the capture tool with its file, and the dash |
| `EngineSimulation` | the driving modes of the simulated engine |
| `FieldCodec`, `OutpcContents` | numbers to bytes and back, in five programs |
| `IniReaders`, `FieldLines` | the five readers of the INI file: lines and conditions; columns of one definition |
| `TuneFile` | the two readers of a tune (`.msq`) file |
| `MCOutpcBuffer`, `MCEcuCommands`, `MCEcuRequests` | instances for TLC |
| `MCSerialPrograms`, `MCReadings`, `MCDashboard` | suites for TLC, see section 3 |
| `OutpcBufferProofs`, `SerialLinkProofs`, `DaemonProofs`, `EcuPagesProofs`, `EcuCommandsProofs` | theorems about the module of that name, and their proofs |
| `SerialProgramsProofs`, `ReadingsProofs`, `DashboardProofs` | theorems about the programs of a suite: the readers of framed requests and the capture tool; the engine, the readers of the INI file and the blocks of OUTPC; the page and its race |

The first three detailed modules cut the daemon where its parts meet. `OutpcBuffer`
has all of the mutex and takes polls and calls as given; `SerialLink` has all of
a poll and takes storing a frame as one step, which `OutpcBuffer` shows it to
be; `Daemon` has the processes, and takes a poll and the body of a call as one
step each, which `SerialLink` (`PollEnds`) and `OutpcBuffer` (`CallAnswered`)
show to end. `Bridge` in turn takes the daemon as something that answers, is
gone or hangs, which are the three things `Daemon` shows a client.

A definition whose name says what a module's comment calls a faulty variant
(`AccelUnlimited`, `OpenKeepsBackoff` and so on) is no part of a
specification: it is the definition next to it with a plausible mistake, kept to
show that a property of a run would notice it.

### OutpcBuffer

`wpc` and `mpc` are the places of the worker in `ms2d_serial_poll_outpc`
(serial_comm.c:285-329) and of the main thread in `get_value`, `get_values` and
`get_all` (rpc_server.c:219-399), which have the same critical section with one,
some or all names. `blk`, `size` and `len` are `outpc_buffer`, `outpc_size` and
`outpc_len`; `mem` is the block itself, in which a byte never written is `Junk`.
`Grow` may return the same address or another, `GrowFails` returns
`MS2D_ERROR_MEMORY` before anything changed. `ptr` and `plen` are the copies
`ms2d_decode_field` makes before it reads. `DropResult` is every way a method
gives up with the mutex held: an unknown field, or an allocation that failed.
`published` is a history variable: the last frame stored whole. Bytes in a
field stand for its number, as scale and translate are constants of a field.

### SerialLink

The worker's `pc` follows one poll: `SendRequest`, `ReadLength`, `ReadData`,
then `Accept` or `Reject` on the CRC, or `TimeOut`, `PortError` and `NoMemory`
anywhere they can happen; then the sleep and the reopening of main.c:101-119.
An answer is three chunks: length, data, CRC. Reading a wrong chunk puts the
worker out of step (`MistakeLength`, `ReadAstray`): it may take any number of
chunks and must then fail, as what it has gathered has a wrong CRC. A CRC is
modelled by what it does: two answers differ in it, and damage shows.

The environment may drop or damage a chunk, lose a request, be slow, set a
wrong flag, cut power or unplug the port: each is one of `MaxFaults` faults. An
unplugged port becomes `hung` while it is open (POLLHUP, EIO). `owed`, `shown`
and `refused` are history variables. `TimeOut` takes a fault unless the ECU has
nothing to say: an ECU that is well answers within the second `select` waits.
`SendFails` is a write that waits too long or fails; a request of which the line
takes a part only, and then fails, is for the ECU one that was lost. `refused`
counts the openings that failed since the port was last open.

### Daemon

`main` is the place in `main()`: the port, the RPC socket, `sigaction`,
`pthread_create`, the loop (check, accept, recv, handle, respond, close, nap),
then join, RPC shutdown, close and free. `worker` is the place in
`worker_thread`. `fds` counts the open descriptors of the port, which the code
cannot see, against `held`, which is what `serial_fd` says. A client is away,
connected and `quiet`, `waiting` for its answer, has `left`, or is `answered`
and not closed yet. `Signal` follows the handler: before `sigaction` it ends
the process; after, it clears `g_running` and may interrupt a `recv` that is
already waiting. `BrokenPipe` is `send` without `MSG_NOSIGNAL` to a client that
has left. `Restart` is the loop of start.sh. `stamp` compares the timestamp of
`get_status` with the last good poll; no property speaks of it (section 4).

The abstractions: what a request asks is one of two kinds; the request counter
is left out, as nothing here tells its values apart; a request arrives whole.

### EcuPages

`pages` is `_page_data` of `ecuSim/src/protocol.py`; `Write` is
`_handle_can_write` with its three cases, a write that fits a known table
(`Store`), one that reaches beyond its end (`Overrun`) and one to a table not
seen before (`Create`). `run` follows the process through `_cleanup` and
`save_pages_to_file`: `open` empties the file, then come the header with the
number of pages and one record after the other. `Start` is `_init_pages`, with
`load_pages_from_file` as `Loadable`. The file is a record: whether it exists,
whether the header is whole, the tables the header's count stands for, and the
records; a record that was cut has a shorter sequence than a page. What a
writer that ends early leaves (`Cuts`) is any beginning of what it wrote, as
the file object buffers. `saved` and `ending` are history variables.

The data of a write is up to a page long, and all pages have one size, as those
of `MS2_PAGES` and new ones have (1024). An MSQ tune given at the start is
another constant for `Fallback`.

### EcuCommands

`Serve` is `handle_request`: `Read`, `Write`, `Check` and `Burn` by table, with
the three special tables, the tables that get a page by being written, lengths
and offsets beyond a page, and the errors of a request that is too short. The
client keeps an image of each page, changes it, writes, repeats what was not
answered (`Retry`), and trusts its image of a page when the checksum it reads
is the one of the image. A checksum stands for the content it is made of.

### Framing, EcuRequests, ReplayServer, ExampleSimulator, PlainSimulator

Here a byte is a byte: which bytes are dropped when a length is wrong decides
whether a simulator gets back in step, so `Framing` works on the real bytes of
the real requests with their real CRC-32 (a table, as a computed CRC is out of
place in a model; a payload outside the table is taken not to match). A read
delivers any piece of what is under way. `EcuRequests` is `RequestBuffer` with
the main loop of simulator.py; `deaf` counts the polls swallowed since the last
answer. `ReplayServer` sleeps in `select` before each look at its buffer
(`Wake`), reads the rest of a request in a loop of bounded attempts, and plays
the capture (`playback`). `PlainSimulator` waits for a payload as long as it
takes.

### PollingTools

One module for two programs with the same shape: send, read the header within a
limit, read the rest, check, keep, sleep until the next poll. `Tool` selects
what differs. `line` is every byte the ECU has sent, and which of them have
arrived when a read ends is chosen then, so answers may be late by any amount.
`file` is the capture file with a frame written in two parts; `load_capture`
reads any beginning of it.

### EngineSimulation

`Update` is `EngineState.update`, which the loop of simulator.py calls in each
round. A round takes any time in `Ticks`, each `random.uniform` is a set of values
in its interval, and values are whole units. `ScenarioRunner` is not modelled:
simulator.py makes one and calls its `update` (lines 78 and 207), which does
nothing as long as no `run_...` method was called, and no code calls one.

### OutpcContents and FieldCodec

Both encoders and three decoders over fields of one and two bytes and flags,
with scale and translation as fractions. The engine is in any state of a set
that goes beyond what the fields can hold. Channels may share bytes, as
`iacstep` and `idleDC` of the example INI file do, and as the flags do with the
number they are part of: `Covered` says of which channel a later one has bytes.
In the debug mode ecuSim encodes all channels in the order of their offsets, and
flags as whole bytes (`DebugValue`, `EcuFields`). ecuSim and the decoders have
different formulas for a field with a translation: `ShowsShifted` says by how
much what the daemon shows of it is off.

### IniReaders, FieldLines, TuneFile

A file grows by one line, one column or one element and every reader takes it,
so each reachable state is what all of them make of one whole file. In
`IniReaders` a reference reader that knows what the file says goes along, once
for each set of symbols (`proper`): it keeps of each open block what its
condition was and on which side of the `#else` it is, where the programs keep a
stack of truth values. `odd`, `deep` and `conditional` remember what the
properties exclude. The daemon has its symbols from the project (`Projects`), the
others have theirs built in. A line of the kind `commented` is an `#else` with a
comment behind it, or any other directive that is none for the readers: all of
them pass over it, and so does the reference. That its author may mean something
else is in section 4.

`FieldLines` has five readers of a definition, each with its own splitter.
`DaemonRead` is `parse_output_channel_field`: it differs from the others in
capitals and where a translation is no number, and of flags it keeps the place
of the byte. inspect_capture splits at every comma, and takes scale 1 and
translation 0 where one of both has more in it than a number, a comment for
example; the property says just that.

In `TuneFile` the reference is the last entry of each constant. A page without a
number is none to `load_from_msq`, and page 0 to MSQParser (`PageOf`).

### ClientLibrary

An answer is a sequence of tokens. The C client looks for a key anywhere in the
text and takes what follows; the model asks whether that is what
`rpc_server.c` put there, also for a field that is named like a key.
`GetValues` looks for a row of numbers, and what stands there is objects, so that
it refuses every answer (`RefusesLists`).

### Bridge

`Server(s)` is one HTTP request in server.js to its next await: `Serve` begins
the call, `Answer` and `CallFails` end it. `linked` is the shared flag
`connected` of the server. `Polling(s)` is `poll` of app.js, `Booting` is
`waitForDaemon`. Time is the number of the ECU's last poll; `began`, `sent` and
`got` say for each poll of the page when it began and of when its values are.

### DragRace

`chain` holds the callbacks under way: the steps of a countdown, the frames that
watch for the launch, the frames that track the run. Pressing stage starts new
ones; nothing cancels the old ones, and each of them reads the shared state when
it is called.

## 3. Runs

| run | checks | bounds | what it shows |
|---|---|---|---|
| `outpc_buffer` | `TypeOK`, `CopyStaysInBlock`, `DecodeReadsLiveBytes`, `AnswerFromOneFrame`, `ImplementsSnapshot`, `NobodyStuck` | 4 frames of 0 to 2 bytes, 3 overlapping fields and an unknown name, 4 calls, 2 addresses | memory safety of the buffer, answers from one frame, refinement of `Snapshot`, no path keeps the mutex |
| `serial_link` | `TypeOK`, `FlushResynchronises`, `RetryRate`, `KeepsGoing` | 5 request numbers, 2 requests in the ECU's buffer, 3 faults, the real 1000 and 30000 ms, counts up to 6 | the protocol under faults |
| `daemon` | `TypeOK`, `NoDescriptorLost`, `NoConnectionLost`, `FreedLast`, `Served`, `ShutdownCompletes`, `ComesBack` | 2 clients, backlog 1, 3 faults | start, service, shutdown and restart |
| `daemon_accept` | `AcceptReturns`, violated | 2 clients, 1 fault, clients without fairness | finding 1 |
| `daemon_pipe` | `SurvivesClients`, violated | same | finding 2 |
| `ecu_pages` | `TypeOK`, `StartsWhole`, `KeptAcrossRuns` | 1 configured and 1 new table, pages of 2 bytes, 4 faults | writes, saves that break off anywhere, restarts |
| `ecu_autosave` | `AutoSaved`, violated | same, 2 faults | finding 3 |
| `ecu_commands` | `TypeOK`, `ClientIsRight`, `EveryRequestAnswered` | pages of 2 bytes, one table with and one without a page, the special tables, 1 lost message | commands and a tuning session |
| `ecu_requests_stuck` | `KeepsAnswering`, violated | the request `r 7 0 209` with 1 lost byte | finding 4 |
| `serial_programs` | `TypesOK`, `AllAnsweredInOrder`, `LossIsBounded`, `OnlyOutpcIsKept`, `AnswersAgain`, `StaleByFaults` | eleven settings, below | the programs at both ends of a serial line |
| `readings` | `TypesOK`, `InRange`, `BlocksAreShown`, `IniIsRead`, `TuneIsRead`, `TextsAreRead` | seven subjects, below | from the engine to the numbers that are shown |
| `dashboard` | `TypesOK`, `ShownSincePoll`, `PageGoesOn`, `RunsAreWhole` | 2 overlapping polls, 2 tries, 3 polls of the ECU; 3 countdowns, 1 reset | the page, its server and its race |

### Suites

`serial_programs`, `readings` and `dashboard` are suites. Programs that do not
talk to each other, but answer the same question, are checked in one run: a variable (`program`,
`subject`) that is chosen once selects the program of the behaviour, and only
that program's module takes steps, so their states add up and do not multiply.
A property of a suite is a conjunction with a part for each program, stated in
the program's module:

* `AllAnsweredInOrder`: `AnsweredInOrder` of `ReplayServer`, `EcuRequests` and
  `ExampleSimulator` (what is in the buffer and on the line is exactly the
  requests still to be answered), and `PlaysInOrder` and `NeverSleepsOnRequest`
  of the replay server.
* `LossIsBounded`: the polls that one fault swallows (59 in ecuSim, 95 in the
  simulator of work-ms2d-daemon after two lost bytes, 9327 after a foreign byte
  that is 1 or 255; after one that is a multiple of 7 it answers nothing any
  more, `DeafForGood`, see section 4), and
  the size of the buffers.
* `OnlyOutpcIsKept`: `RecordsInOrder`, `CutIsPrefix`, `PollsAreSpread` of the
  capture, `ShownIsOutpc` of the dash. `StaleByFaults` bounds how old a recorded
  block is by the number of faults.
* `AnswersAgain`: ecuSim answers the daemon's request again and again after a
  fault (compare finding 4); the simulator of exampleFiles answers what it has.
* `BlocksAreShown`: `OldIsShown`, `EcuIsShown`, `FlagsAreShown` of
  `OutpcContents`. `IniIsRead`: `ReadersFollowConditions`, `ConstantsPaged`,
  `DaemonFindsTheSame`, `AllAgreeWithoutConditions` of `IniReaders`.
  `TextsAreRead`: `SplitsAtOuterCommas`, `ReadersAgree`, `DaemonReads`,
  `InspectReads` of `FieldLines`; `FindsTheAnswer` and `RefusesLists` of `ClientLibrary`.
  `TuneIsRead`: `TuneIsServed`, `NothingElseIsServed`, `ReadersAgree` of
  `TuneFile`.
* `PageGoesOn`, all of it liveness: `StartsAnyway`, `AutoReconnects`,
  `LossIsSeen` of `Bridge`, `RaceEnds` of `DragRace`. `RunsAreWhole`, all of it
  safety: `RunningIsStaged`, `EndsAtQuarterMile`, `SavedOnce` of `DragRace`.

Three single properties are conjunctions in the same way: `NobodyStuck` is
`CallAnswered` and `FrameStored`; `KeepsGoing` is `PollEnds`, `UnplugNoticed`,
`SettlesAtCap` and `Recovers`; `ClientIsRight` is `TrustedIsStored` and
`CheckAgreesWithRead`.

### Bounds

Two frames of equal length with different bytes
show a torn copy, the shorter ones show what a longer frame left behind, and
two addresses let `realloc` move the block and reuse one. Three faults allow,
for example, a lost chunk, a late answer to the next poll and a port that goes
away meanwhile; five request numbers are more than the answers that can be
under way, so two of them never have the same number. Six failures reach the
cap of 30000 ms (1, 2, 4, 8, 16, 30 s). In `Daemon` three faults allow a signal
in set-up, a failing call in the next run and another signal in the third; a
backlog that is full with one connection behaves as one of five.
Two tables let a file be whole, miss a record or hold half of one, and pages of
two bytes let a write fit, overlap the end or start beyond it; four faults (each
end of a run is one) are four runs. In `EcuCommands` one lost message is enough
to repeat a write, and three offsets and lengths up to 5 give every position
relative to the end of a page. The length of an answer, of 16 bits in the code,
goes up to 5 here: a read of 5 bytes of a table without a page stands for one of
65535, which with its flag is too long. `EveryRequestAnswered` says that nothing
but such a read ends the simulator.

In `serial_programs` the line holds up to three requests of 7 bytes, so a read
ends inside a frame, between two, and inside the second; one foreign or lost
byte puts a reader at every offset of the repeated request, and the count of
deaf polls runs to its bound of 60, 96 or 9328. All 37 multiples of 7 are put
before a request of the older simulator. The replay runs over two frames and
wraps. The capture and the dash make at least three polls with two faults. In
`readings` an INI file has up to 7 lines and blocks nest to 3 where the daemon's
stack holds 2 (64 in the code), so its limit is crossed; the daemon's project is
one of Fahrenheit with CAN or one of Celsius without; a tune has up to 5
elements; the engine's rounds take no time, a tenth or half of a second, or 9 s,
in which the steps of a mode cross every limit at once. In
`dashboard` two polls can overlap and overtake each other, and a third staging
begins in, after or between the countdowns of two others.
Every counter that grows without end in the code (failures, faults, request
numbers, frames, polls) is bounded by a constant of its module.

### Fairness

* `OutpcBuffer`: each thread takes its next step (WF), and a thread that waits
  for the mutex gets it (SF on the three lock actions): the holder lets go
  after a bounded number of steps and sleeps 33 ms (worker) or 10 ms (main) with
  the mutex free. Nothing makes a client call or an ECU answer.
* `SerialLink`: the worker goes on, as each `select` and `usleep` it makes has a
  limit; an ECU that is on answers; the line delivers. Power and plug need not
  return: `Recovers` and `SettlesAtCap` have them as hypotheses.
* `Daemon`, `ThreadsFair`: both threads go on whenever they can. `FairSpec` adds
  that a connected client sends its request or ends (both client libraries send
  at once), and that start.sh restarts. Without the former `Served` and
  `ShutdownCompletes` are false: that is finding 1.
* `EcuPages` has no liveness: nothing obliges the simulator to end.
* `EcuCommands`: the simulator takes and serves what has arrived, and the client
  repeats what was not answered (WF on `Take`, `Serve`, `Retry`), its time limit
  being finite.
* `EcuRequests`, `ExampleSimulator`, `PlainSimulator`: the program's loop goes
  on (its `select` has a limit), and in the first and the last the client that
  polls asks again after its time limit, as the worker of the daemon does.
* `Bridge`: each handler of the server and of the page that is due runs; a call
  to a daemon that hangs ends by the 5 s limit of the Node client; `poll` is
  started by a timer. The daemon may go or come back at any time and need do
  neither: `AutoReconnects` and `LossIsSeen` have it as hypothesis.
* `DragRace`: timers and frames that are due are called (WF). The frames that
  watch for a launch compete with the resets of the driver for the same state,
  hence SF; and the driver presses the throttle in the end, without which a
  staged car may stand for ever.

### Findings

1. `ms2d_rpc_accept` is "non-blocking" by its header (rpc_server.h:77), yet
   waits in `recv` (rpc_server.c:526) for as long as a client says nothing.
2. A client that leaves before its answer ends the daemon by SIGPIPE
   (rpc_server.c:189), where main.c:328 says "Log error but continue".
3. The simulator promises to save modified pages on exit (simulator.py:191),
   but handles only Ctrl+C; demo.sh, which starts it with a page file, ends it
   by SIGTERM (demo.sh:28), and its writes are lost.
4. ecuSim "Responds to all standard TunerStudio commands" (ecuSim/README.md:15).
   After one byte of an OUTPC request `r` has been lost, a client that repeats
   the request is never answered again: the parser takes 00 07 in its middle for
   a length, and drops one frame of exactly that size for each poll
   (protocol.py:132). `RequestBuffer.clear` is never called. The daemon's own
   request `A` does recover (`AnswersAgain`).

## 4. Disagreements seen while modelling, without a run of their own

The models follow the code in all of these. They are kept here because a reader
who compares a module with a comment in the code will meet them.

In the first nine a property of a passing run says what the code does, exactly in
the case where it is not what a comment or a README says:

* "Serial error - apply exponential backoff" (main.c:86): each failing poll is
  followed by a reopening, and one that succeeds resets the backoff
  (main.c:114). An ECU that is off or silent behind an adapter that stays
  plugged in is polled after 1000 ms for ever; the waits grow only while the
  port itself cannot be opened (`RetryRate`).
* "Unknown table - return zeros" (ecuSim protocol.py:256): a read of 65535
  bytes of such a table makes an answer whose length does not fit 16 bits.
  `struct.pack` raises (protocol.py:100) and the simulator ends
  (`EveryRequestAnswered`, `TooLong`).
* The older simulator "responds to the newserial protocol"
  (ms2_ecu_simulator.py:6). A foreign byte before a request is taken for the
  half of a length (438-442), without a limit of time: after a zero, or any
  multiple of 7, the lengths it reads and the requests of ms2d never meet again
  (`LossIsBounded`, `DeafForGood`; after 1 and 255 it does come back).
* "Reverse the decode formula: displayValue = rawBytes * scale + translate"
  (outpc_builder.py:262): the decoders have (raw + translate) * scale
  (decoder.c:78). A field with a scale and a translation, `vetrim1curr` in the
  example INI file, is shown off by the translation times the scale less one
  (`BlocksAreShown`, `ShowsShifted`).
* `--debug-values` prints values "for matching with TunerStudio"
  (outpc_builder.py:233), but flags are packed as whole bytes (217-221) over the
  numbers they are part of, whose printed values are not those sent
  (`BlocksAreShown`, `Covered`).
* "For simplicity, we'll assume FAHRENHEIT (not CELSIUS)" (ms2_ini_dash.py:102):
  an `#else` with a comment, as `#else ; fahrenheit` in mainController.ini:5276,
  does not end the branch of CELSIUS. So it is for all readers with conditions
  (ini_parser.c:322, ini_parser.py:121, ms2_ecu_simulator.py:96; `IniIsRead`).
  Today nothing is lost by it: the branches of the example file with such an
  `#else` hold calculated values only, which no reader takes.
* inspect_capture dumps "decoded values" (testingTools/README.md:41): a comment
  behind the last column, as that of `egoV` (mainController.ini:5148), makes
  it drop the scale, too (inspect_capture.py:145), and show 100 times the
  voltage (`TextsAreRead`, `InspectReads`).
* `ms2_get_values` returns "0 on success" (ms2_client.h:48-55). It expects
  numbers where the daemon puts objects (ms2_client.c:352, rpc_server.c:300),
  and returns -1 for every correct answer (`TextsAreRead`, `RefusesLists`).
* "Real-time RPM, MAP, TPS gauges" (ms2d-dashboard/README.md:37): polls
  overlap and nothing puts their answers in order (app.js:1431, 1865), so a late
  one puts older values over newer ones, under the time of now. They go back no
  further than to the beginning of their own poll (`ShownSincePoll`).

The others:

* "Red light if jumped" (app.js:584): the reaction time counts from the last
  green light, which is past whenever a launch is looked for, and is never
  below zero. A throttle that is open before the green, and a launch seen by a
  countdown left over from another staging, are not shown as jumped.
* Daemon. `last_poll_timestamp_ms` is the time of the last call
  that decoded fields (rpc_server.c:106; `D/README.md`:184). A BITS field is
  answered with the raw number of four bytes (decoder.c:104; the comment at 97
  says "extract bit range").
* Dashboard. Status 503 is never sent, as connecting does nothing
  (server.js:105, ms2_client.js:32). In the drag race the lights of a countdown
  go on after a reset (app.js:538).
* ecuSim, protocol. A write that reaches beyond its page is answered like one
  that was stored (protocol.py:285, 297). Writes are stored, though its README:58
  says not.
* ecuSim, engine and files. `ScenarioRunner` is never started (simulator.py:78).
  0x28 is not "inj1 + sched1" (engine_state.py:244). Debug values do not follow
  the range of a field (outpc_builder.py:220). Settings by name are served as 0
  (page_builder.py:153). The signature of a tune stays empty, as an XML element
  without children is false (msq_parser.py:92). A page without a number is none
  to `load_from_msq` (page_builder.py:82) and page 0 to MSQParser
  (msq_parser.py:103).
* Dash. It unpacks little-endian (ms2_ini_dash.py:62) where the daemon and
  ecuSim are big-endian; it fits the older simulator of its own directory.
* Capture and replay. A frame of size 0, six zero bytes, ends the capture by an
  IndexError (capture_ecu_outpc.py:79). The replay server leaves its loop after a
  discarded byte and sleeps with a request in the buffer until more arrives
  (replay_ecu_protocol.py:314, 352), and `--no-loop` does not stop at the end
  (402).

Five things the code is exposed to have no property, and are not among the
hazards of PROJECT.json for that reason: `get_status` reads `serial_fd` under
the mutex while the worker writes it without (rpc_server.c:442), a race on one
`int` whose values do not differ in the model; a `close` that fails leaves
`serial_fd` set (serial_comm.c:170), and is taken not to happen; the
sleep of up to 30 s is not cut short by a signal (main.c:107), a question of
seconds; a request in two segments, and an answer in pieces, are cut by the one
`recv` on either side (rpc_server.c:526, ms2_client.c:85), where the models let
a message arrive whole, as the two client libraries send it; and the playback loop of the
page (app.js:467) is wired to no control.

## 5. Theorems

The proofs assume the named ASSUMEs of the modules and nothing else: the sets
and bounds may have any size.

* **OutpcBuffer.** `TypeCorrect`, `CopyIsSafe`, `DecodeIsSafe`,
  `AnswersAreWhole`, `Refinement`. The inductive invariant says who holds the
  mutex at which places; that `size` is the length of the block; that whenever
  the worker is not between `fit` and `SetLength` the first `len` bytes of the
  block are `published`; that during a copy the bytes copied so far are those
  of the frame; and that the values decoded so far are those of `published`,
  which cannot change while the main thread holds the mutex. None of the
  checked invariants is inductive without these: that a copy stays in its block
  depends on `size` after a failed `realloc` in an earlier poll. For the
  refinement, `SetLength` maps to `Publish`, `Call` to `Ask`, `ReaderUnlock`
  to `Answer` or `Refuse`, `Reply` to `Reply`, and the other actions to
  stuttering.
* **SerialLink.** `TypeCorrect`, `BackInStep` and `WaitsForThePort`. For the second
  the inductive invariant has two parts about a port that was opened with nothing owed. `Silent`: before a
  request the line is empty and the ECU has nothing to answer. `OneAnswer`:
  while the worker reads, what is on the line is part of the one answer to that
  request, each part at most once and none that was read already. Reading keeps
  it and sending establishes it for the new number; a poll that fails may break
  it, which is why the flush of the reopening is needed. `WaitsForThePort`
  is about the waits. The openings that failed (`refused`) are counted where an
  opening fails, and the backoff changes where a poll fails or an opening succeeds;
  that the two fit at every sleep needs an invariant for the places between
  (`Paced`): no opening counts as refused while the port is open, so a poll on it
  finds the schedule at its start, and a poll without a port finds it where the
  last refusal left it.
* **Daemon.** `TypeCorrect`, `DescriptorsCounted`, `ConnectionsCounted`,
  `NothingUsedAfterFree`. The inductive invariant has `Stages`, which says for
  each place of `main` whether there is a worker, a listening socket, its file
  and a connection being served, and `PortHeld`, which says from the places of
  main and worker whether the port is open.
* **EcuPages.** `TypeCorrect`, `WholeSaves`, `PagesKept`. `Saving` says what
  the file holds at each step of a save: the header's count is that of all
  pages, the records are pages of this save, and those that are missing are the
  ones still to write. So no beginning of the file but the whole can be loaded,
  and whatever can be loaded is the last save (`Whole`); `Known` carries this
  from the end of a run to the next start.
* **EcuCommands.** `TypeCorrect` and `ClientRight`, for any tables, sizes of
  pages and requests, and any number of lost messages. The inductive invariant:
  an answer on its way was computed from the pages as they are now, since a page
  changes only when a request is served and none is served meanwhile
  (`InFlight`); while a write waits for its acknowledgement, the client trusts
  none of its cells, its image has the new bytes, and once the write was served
  so have the pages, however often it is sent again (`Pending`). That a checksum
  agrees with a read (`CheckAgreesWithRead`) is a lemma about the two handlers.
* **The readers of framed requests** (`SerialProgramsProofs`).
  `InOrderOfAsking`: for any requests, table of checksums, length of line and
  cutting of bytes, the replay server, ecuSim and the simulator of
  `exampleFiles` answer each request in the order of asking as long as no byte
  was lost (afterwards the property claims nothing but what the replay server
  plays, which is proved also then). The bytes of the unanswered requests are a
  recursive function (`Stream`). Lemmas say what it is on longer and shorter
  sequences, and what `ParseFramed` finds in a buffer that begins with it: the
  oldest request once it is whole, nothing before, and no byte is dropped. Then
  seven kinds of steps (`Moves`) are shown to keep the equation
  `buffer \o line = Stream(owed)`, and every step of the programs to be of one
  of these kinds. Where its `pc` is when the buffer holds a whole request
  (`Asleep`) gives that the replay server does not sleep on one.
* **The capture tool** (`SerialProgramsProofs`). `CapturesReadBack`: for any
  blocks, interval, limits of time and number of faults, a capture that is cut at
  any byte reads back as the frames before the cut (`CutIsPrefix`), and of three
  polls the last is an interval after the first (`PollsAreSpread`): two parts of
  the suite's `OnlyOutpcIsKept`, as theorems of `PollingTools!Spec`. The invariant
  says that the file was written frame by frame: there is a place for each frame
  at which its stamp, length and bytes are (`Written`), which one more frame keeps
  (`WriteMore`). What `load_capture` makes of a file is a recursive function of
  places; that it exists is shown from the end of the file backwards
  (`LoadingExists`), and what it gives for a cut file from the last frame before
  the cut backwards (`CutFile`). For the polls the invariant adds that `next` is
  not before the last poll, nor before an interval after the one before
  (`NextAfter`); without the second part two late polls could be followed by a
  third at once.
* **The page** (`DashboardProofs`). `TypeCorrect` for both programs of the suite;
  `ShownIsFresh` for any number of polls under way at once. `ShownSincePoll`
  speaks of a step: what the screen shows after it is from a poll of the ECU no
  earlier than the beginning of the poll of the page. `Fresh` carries this
  through the three awaits between: the values in the server's answer, and those
  the page keeps while it asks for the status, are no older than the beginning
  of their poll. `Asking` says that `waitForDaemon` still has tries while it
  asks, without which the counter has no type. `RacesAreWhole`, for any number of
  splits at any times and any number of countdowns: besides `RunningIsStaged` the
  invariant needs that the quarter mile is not among the splits of a staged car.
  Staging empties the splits, and the frame that adds the quarter mile ends the
  staging; a launch does not empty them, so the claim does not depend on which
  of the chains of callbacks launches.
* **The engine** (`ReadingsProofs`). `TypeCorrect` and `LimitsKept`, for rounds
  of any length and any noise within the intervals of the code: the limits of
  speed, throttle and pressure are inductive together with the types (`Limits`,
  as inequalities: the provers write an interval of numbers out, element by
  element), one arithmetic lemma for each limit of a mode; the wanted speed never
  falls below that of idling, although a mode's own limit is 1200. They are theorems of
  `EngineSimulation!Spec`.
* **The readers of the INI file** (`ReadingsProofs`). `IniReadAlike`, for any set
  of lines (of the ten kinds), any settings of the project, any names of fields,
  any depth of nesting and of the daemon's stack, and files of any length. Each stack of truth values
  `Follows` the blocks of the reference, with one lemma for each of `#if`,
  `#else` and `#endif`; from it, one lemma for each reader and kind of line. The
  references for different symbols open and turn the same blocks (`SameSides`),
  which lets one `odd` and one `deep` stand for all readers. The daemon keeps
  its fields in a row and finds the first of a name, where the others keep a
  dictionary and the last one: `FieldsFollow` relates the two, and where the name
  is in the row once they agree. `Bare` is what holds until the first `#if`, for
  inspect_capture, which has no stack. The kind `commented` is among the lines: the
  theorem says that the readers take it for nothing, as the reference does, and
  not that this is right.
* **The blocks of OUTPC** (`ReadingsProofs`). `BlocksShown`, for any channels,
  any size of the block and any values of the engine, in range or not. Channels
  may overlap in any way, and may be flags; what is shown is said of a number
  whose bytes no channel encoded later has (`Covered`). Scales are positive, and
  for `FlagsAreShown` the flags `ready`, `crank` and `warmup` are bits 0, 1 and 3
  of the number `engine`, whose byte nothing else that is encoded has
  (`ChannelsAssumption`): `mainController.ini` is so, but for numbers of four
  bytes and the scale of `maf`, which is an expression. In the debug mode there
  are no exceptions for flags. Of ecuSim's blocks a field with a
  translation is shown shifted, by an amount the theorem names.
  The argument goes from
  a number and its bytes (a quotient rounded towards zero and clamped is shown as
  near as the field gets: `ClampShows`; its bytes are read back: `BytesFit`), by
  way of a field in a block (`Packed`: the bytes are there, fields apart from it
  keep theirs), to one more channel encoded (`ChannelAdded`). What is shown of the
  channels encoded so far is inductive with the types of the blocks. The
  flags are not encoded: that they are right follows from the number `engine`
  being shown, which with scale 1 leaves its byte one value (`EngineByte`).

The library's induction theorems take an operator, which none of the backends
can instantiate. Induction over numbers and over sequences is therefore stated
over a set (`Least`, `Induction`, `SequenceInduction`): the set of the numbers
for which a claim fails has a least element, by `WFMin`, if it has any. With this
the doubling of the backoff (`Doublings`), `Stream` and `Loaded` are proved about.

Three repairs of the models came out of the proofs. In `FieldLines` two arms of a
`CASE` could both be true, where TLA+ chooses any and the code takes the first;
their guards are disjoint now. `DaemonFindsTheSame` said
"once" by a cardinality, and now says it as it is meant, of two places in the
row. `RunsAreWhole` was a mixture of safety and liveness; the former is proved,
the latter went to `PageGoesOn`.

Only model-checked:

* all liveness (`NobodyStuck`, `KeepsGoing`, `Served`, `ShutdownCompletes`,
  `ComesBack`, `EveryRequestAnswered`, `AnswersAgain`, `PageGoesOn`), as liveness
  under fairness is outside the prover's reach;
* `TypesOK` of `serial_programs`, as `PlainSimulator!TypeOK` says with `ENABLED`
  when the program waits, and of `readings`;
* `LossIsBounded` and `StaleByFaults`, whose bounds count faults against bytes
  of real frames (the 59 comes from one length in one request), and hold for the
  requests of the instance, not for every value of the constants. That is so of
  `BufferBounded`, too: a size that cannot be costs one byte and ends the round,
  in which a whole line of bytes may have come, so on a line with any number of
  foreign bytes the buffer grows;
* of `OnlyOutpcIsKept` the parts `RecordsInOrder` and `ShownIsOutpc`, which need
  that the checksum is not fooled by bytes of two frames put together: true of the
  frames of the instance, and false of an arbitrary `Crc`;
* `TuneIsRead` and `TextsAreRead`: what recursive readers make of elements and
  columns.

## 6. What is not modelled

* cJSON, third-party code; JSON and HTTP syntax; logging and page layout.
* The playback (not wired), the logger, the lap timer and the gauges of the
  page, and its other HTML pages, which are layouts of the same application.
* Serving static files (server.js), and HTTP requests that arrive in pieces.
* Looking for the files of a project (`load_project`), and the command lines.
* Fields of four bytes: the numbers of TLC are 32 bits wide with a sign.
* `ms2_serial_dash.py`, a dash with a fixed table of fields, and the two test
  scripts of `testingTools/`, which ask one question each and keep no state.
* The growth of the field array of the INI parser and
  `ms2d_ini_merge_custom`; the request counter of the RPC server.
* `ScenarioRunner` of ecuSim, which nothing starts.
* Burn of the simulator changes nothing and is an answer only (`EcuCommands`).

## 7. What is left

In the order of use: a composition of `Daemon` and `SerialLink` through an
abstract port, so that an unplugged line reaches the clients' view;
`ms2d_ini_merge_custom` and the growth of the field array; requests in segments;
the logger. Of proofs: `RecordsInOrder`, which needs
the order of what is on the line, in the file and among the answers; `TuneIsRead`,
by elements; and the types of the two suites.
