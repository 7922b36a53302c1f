# Altair 8800 emulator: verification project

TLA+ models of the concurrent and stateful parts of this repository's Altair 8800
emulator and its servers, TLC configurations that check them on small instances, and TLAPS
proofs of the properties that matter most, for every value of the constants. Source paths
are relative to the repository; `src/...` is the emulator's own source directory there.

The emulator runs an Intel 8080 on one thread. Everything around it runs on others: a
web-socket thread per browser, an event loop with timers, a front panel thread, and a
thread per HTTP request. They meet in ring buffers, in single-chunk hand-overs and in
globals without a lock. Two Python servers hold files and disks for clients that come and
go. On the machine's side, CP/M programs keep files with counts and an index. That is
where the code is hard to test, and what this project is about.

1. [Inventory](#1-inventory)
2. [Modules](#2-modules)
3. [Runs](#3-runs)
4. [Proofs](#4-proofs)
5. [What is not modelled](#5-what-is-not-modelled)

## 1. Inventory

| Component | Source | State | Operations | Talks to |
|---|---|---|---|---|
| Web console, output | `src/web_console.c` | `current_client`, output ring with mutex | publish, enqueue, flush, onopen, onclose, send error | CPU thread, timer, web-socket library, CPU mode |
| Terminal input, command line | `src/web_console.c` | input queue with mutex, command buffer and its length | message, ctrl-M, enqueue, dequeue, collect a line | CPU thread, CPU monitor |
| CPU monitor | `src/cpu_monitor.c` | `cmd_switches`, `bus_switches` | examine, deposit, step, trace, disassemble, reset, load | a session's thread or the panel's, against the CPU thread |
| CPU thread, modes, start | `src/main.c` | `atomic_cpu_operating_mode`, start handshake | bursts of 1000 cycles, toggle, connect, disconnect | all of the above |
| Front panels | `src/FrontPanels/*` | levers, last command, last panel mode | poll, light | monitor, CPU thread |
| Floppy controller | `src/Altair8800/88dcdd.c` | four drives: head, status, sector buffer, file offset | select, step, head load, write enable, sector, read, write | ports 8, 9, 10; images; differencing disk |
| Differencing disk | `src/difference_disk.c` | sectors written, by key | find, add | floppy controller, cloud build only |
| Intel 8080 core, memory | `src/Altair8800/intel8080.c`, `memory.c` | registers, flags, memory | cycle, one handler per opcode | ports, disk, terminal |
| Port dispatch | `src/io_ports.c` | request unit of port 200 | out, in | port drivers |
| Time and utility ports | `src/PortDrivers/time_io.c`, ... | timer targets and delays | out, in | CPU, clock |
| Web file transfer | `src/PortDrivers/http_io.c`, `AppSamples/gf/gf.c` | one chunk, status, transfer thread, mutex, condition | start, cancel, curl callback, poll, read | ports 33, 109-114, 201; curl |
| OpenAI stream | `src/PortDrivers/openai.c` | one chunk of text, status, request state | request, stream callback, poll, read | ports 120-127; curl |
| File transfer client | `src/PortDrivers/files_io.c` | connection, name, offset, chunk | name, request, status, close | ports 60, 61; its server over TCP |
| File transfer server | `RemoteFS/remote_ft_server.py` | handle cache, sessions | chunk, close, evict | clients |
| Remote file system server | `RemoteFS/remote_fs_server.py` | directories, lists of opened disks, sessions, lock | init, read, write, disconnect | clients |
| Environment, weather, location | `src/environment.c`, `location_from_ip.c`, `env_open_weather_map.c`, `weather_io.c` | cached data with a flag each, cache timer | refresh, make up, expire, show | timers, web services, CPU thread |
| MQTT publishing | `src/mqtt_manager.c`, `main.c` | connection | connect, publish, reconnect | timers, broker |
| ISAM library and its programs | `AppSamples/isam` | table file, counts, configuration file, sparse index | create, insert, update, delete, read, index build, lookup | CP/M files |
| Chat program | `AppSamples/chat/chat.c`, `chatjson.c` | messages in two kinds of slots, with maps and marks | add a message, clear, make a request, receive | ports 120-127 |
| Configuration | `src/altair_config.c` | options | parse | start |
| Other CP/M samples, SDK, web page, drivers, containers | `AppSamples/*`, `terminal/*`, `drivers`, ... | files of the CP/M side, text | - | ports |

What makes each correct, and where it is hard:

* **Web console output.** No byte doubled, none lost while its session lives, order kept,
  the ring gets empty, a dead session is never current. Hard: two flushing threads, a
  client loaded before the lock and used after it, the late `onclose` of an evicted session.
* **Terminal input.** The ring is a FIFO over wraps and partial messages; a line is
  executed as it was typed. Hard: head and tail reset at empty, the mode read once per
  message, a command buffer shared by threads.
* **Monitor, modes, panel, start.** What is entered is in memory and will start; a lever is
  one command; the main thread wakes. Hard: two operators and the CPU thread share the
  command word, the switches and the program counter without a lock; a condition wait
  without a predicate.
* **Floppy controller and differencing disk.** What is written is read back, on its own
  drive, track and sector, whatever half-finished sector the program left. Hard: one buffer
  for both directions, a file offset that nothing ties to the head, an index that is never
  checked, keys computed by arithmetic.
* **8080 core and ports.** Flags and arithmetic at the boundaries of the width, calls that
  come back, characters in order, timers that wait as long as they were set.
* **Web file transfer, OpenAI stream.** The reader gets a prefix of its own file or answer,
  and learns how it ended. Hard: time-outs, polling without the mutex, asynchronous
  cancellation; in OpenAI's case a wait that nobody ends and two threads for one request.
* **File transfer.** The program reads the file once, in order and to its end. Hard:
  answers that come late, a server that restarts between chunks, a cache of handles that
  outlive the file they were opened on.
* **Remote file system.** What a client wrote is on its disk. Hard: check and open are in
  different critical sections, ids that share a directory, a kill while templates are copied.
* **Chat program.** The last messages of a conversation are remembered, in order and with
  their texts. Hard: half as many slots for answers as for messages, a slot that is freed
  and taken in one call, a request that leaves out what does not fit.
* **Environment and MQTT.** Only what is complete is published, measurements are not lost
  to made-up ones, the cache ends, the connection comes back. Hard: a failure between two
  requests, flags read without a lock.
* **ISAM.** Lookups through a sparse index find every record, counts agree with the file,
  an insert takes no slot that is in use. Hard: counts that are saved by a call of their
  own, index entries that are lost by deletions.

`PROJECT.json` lists every component with its status and every hazard at its line, with
the properties that are about it.

## 2. Modules

| Component | Model | Instance for TLC | Theorems |
|---|---|---|---|
| Console output | `WebConsole` | `MCWebConsole` | `WebConsoleProofs` |
| Terminal input | `TerminalInput` | itself | `TerminalInputProofs` |
| Start, CPU thread, panel, monitor | `Machine` | `MCMachine` | `MachineProofs` |
| Disk | `DiskController`, implements `SectorDisk` | `MCDisk` | `DiskControllerProofs` |
| Processor | `Cpu8080`; `Altair` composes it with `TimePorts` | `MCAltair` | `PortProofs` |
| Web transfer | `HttpTransfer`, implements `StreamCopy` | itself | `PortProofs` |
| OpenAI, chat program | `OpenAIStream`, implements `StreamCopy`; `ChatHistory` | `MCChat` | `SampleProofs` |
| File transfer | `FileTransfer`, implements `StreamCopy` | itself | `FileTransferProofs` |
| Remote disks | `RemoteFS` | `MCRemoteFS` | `RemoteFSProofs` |
| Weather, broker | `Environment` | itself | `MachineProofs` |
| ISAM | `Isam`, implements `IsamTable` | itself | `SampleProofs` |

Conventions. An action is a critical section or a single load or store of shared state; a
`pc`, `at` or step field says where a thread is between two of them. Constants marked
"bound" exist for TLC only, and where the proofs allow they are any number. "Variant of X"
marks a definition that is wrong on purpose: `PROJECT.json` names the property that must
fail when it takes the place of X. Variables marked "history" appear in no guard.

### WebConsole

`current` is `current_client`; `conn` is what the server knows of a connection; `ring` is
the output buffer as a sequence, which is what its head, tail and count denote (the input
queue, in `TerminalInput`, is modelled at the level of its indices). A byte is the number
it got on entering the ring. `Publish` and `Enqueue` are `publish_message` and
`enqueue_terminal_output`; `FlushLoad`, `Drain`, `SendOk`, `SendFail`, `HandleError` are
the pieces of `flush_terminal_output_buffer` between which other threads run; `OnOpen*`,
`ConnectedCb`, `OnClose`, `DisconnectCb` those of the callbacks. The timer thread and a
producer that filled the ring can be inside the flush at the same time. The send is
external: a frame handed to an open connection arrives; on one that is closing the call
may report success or fail; on a closed one it fails.

### TerminalInput

`queue` has `buffer`, `head`, `tail` and `count` as in the code. `handler[c]` is the
web-socket thread of session `c` with the message it handles. `Dispatch` reads the mode
once. `Collect` and `Store` are the loop over a message: the length is checked, and the
character is written at the length checked or, since neither is atomic, at what it is by
then. `meant` (history) is what was taken for the line, set when a message is dispatched and
not when its characters are stored; `clash` says that two threads were in the line at once
(`InLine`) since it was last cleared: the sessions may come in any order, but while they are
in it together their characters are mixed or dropped. `BurstStarts`, `BurstCycle`, `BurstEnds` are the CPU thread. The meaning of a line is
left open here, any of the commands; it is `Machine` that has the commands.

### Machine

`main` is the main thread's way from the panel through `init_altair`, `Create` and `Wait`
(the mutex and the condition of the start) to the event loop; `thread` is the CPU thread,
which starts with `Signal`. `mode`, `pc`, `bus`, `memory`, `switches`, `command` and
`deferred` are shared: `step[o]` is where operator `o`, a session or the panel, is.

A step is a call of the processor's core (a cycle, an examine, a deposit) or one load or
store of a word that threads share, so other threads come between any two of these:

* ctrl-M is `ToggleLoad` and `ToggleStore`, and, when the CPU is stopped by it, `ToggleShow`,
  which puts the bus on the switches over whatever was typed;
* `Look` is `panel_refresh_thread` with the transfer of `kit_front_panel_io`, which sets the
  switches or fails; `Take` hands over a lever that is another than last time;
* `process_control_panel_commands`: `Check` is its test; `Switch` reads the command word again;
  `Defer` reads it once more, into `deferred_command`, which the operators share as well;
  `Select` is the switch over that; `Handle` has one disjunct for each thing a command does to
  the machine (DISASSEMBLE, TRACE, RESET and STOP do several); `Show` stores the bus to the
  switches after the state was published; `Clear` is the store at the end.

An instruction (`Cycle`) is what it may do: change a cell, leave the bus and the counter
anywhere. `entered` (history) is what the session asked for since its last EXAMINE, by itself:
the address, the cell it is at, the bytes it deposited, and the input that its monitor shows
it, which ctrl-M changes. `Asks` says what each command is to do; that it does it, through
the shared words, is `ProgramEntered`. A burst, or the other thread's change of the machine or
of a word that a command of the session goes by, ends the entry (`Disturbed`, `Interfered`,
`Intrudes`). `presses` and `taken` count levers and the commands that the panel's thread runs.
`SignalNotMissed` is what `MainStarts` rests on: whenever the main thread is asleep, the
signal is still to come, or there is no thread to give it.

### DiskController and SectorDisk

`drive[d]` is the `disk_t` of a drive; `diskPointer` and the file's `offset` count in
sectors; `status` is the set of conditions that are true (active low in the code). One
action per port operation, for both builds (`Cloud`). `moved` and `mode` are the program of
the machine, which keeps the protocol of the hardware: it reads a sector from its start, or
enables writing and writes it from its start with at most the byte that flushes it, and
turns to another drive or steps away at any byte. The controller relies on that protocol
(the index into the buffer is not checked), so it is a part of the model.

`SectorDisk` has no buffer, no file and no offset: a byte is stored when it is written. The
refinement mapping is `Holds`: the buffer if it is dirty, then the differencing disk, then
the file. `Implements` is `SectorDisk!Spec` under it.

### Cpu8080, TimePorts, Altair, MCAltair

`Cpu8080` has an action for every handler of `intel8080.c`'s table, or for each family that
differs in its operand only; registers have the numbers of the opcodes and the flags are
the set of their bits. Arithmetic keeps the code's way: subtraction is addition of the two's
complement, DAA is two additions. `Cycle` decodes the byte at `pc`. The terminal ports are
part of it, with the character that the status port holds back (`character`); what other
devices answer is any of `Devices`. `TimePorts` is `time_io.c`; `Altair` sends the ports 24
to 30 there, which is what `io_ports.c` does, and keeps the times at which a program passes
a mark, and what it has told each timer (`asked`, history). `MCAltair` has eight programs in
machine code that between them use every handler, each with its operands and what it must have
computed when it halts.

What holds of every program is stated in `Altair`, of single instructions:
`InstructionsRight`, whose parts are `ArithmeticExact`, `StackReturns`, `CharactersInOrder`.
`Pending` is what was typed and not read, whether the terminal or the status port has it.
`DecimalsRight` says of DAA what it makes of every packed sum, also of those it gets wrong.
`TimersExact` compares what an IN answers with `asked`: a timer of milliseconds runs exactly as
long as it was set for, the timer of seconds is never late and less than a second early.

### StreamCopy

What a port that brings data promises to the program behind it: a transfer copies one source
from its beginning, nothing is skipped, doubled or left over from another transfer, and the
program is told that it is done when it has everything. It knows no chunk, no thread and no
connection. Three models implement it, each as a property of its run:

| | `source` | `closed` | `report` | `spoiled` |
|---|---|---|---|---|
| `HttpTransfer`, `Implements` | the file of the transfer, of the size curl brings | what `copy_web` made of curl's end; `"badly"` lets NULs follow, and a cut copy be reported as done | `result` of the reader | never |
| `FileTransfer`, `Implements` | the version that is in the directory | always `"well"`: the file is there from the start | `result` of the program | the file was replaced under the reader, or answers are out of step |
| `OpenAIStream`, `AnswerCopied` | the deltas so far, so it grows | once the callback handed over the end mark | `"done"` when the program saw the end mark | the request is `disturbed` |

### HttpTransfer

`chunk`, `complete`, `status`, `active` are the fields of `webget` and of the thread's
registration; `net` is the transfer thread with its place in `copy_web` and `write_data`;
`cpu` is the CPU thread, which runs the reader (`gf.c`, `dxwebcpy`). `Poll` reads the status
without the mutex, as port 33 does. Curl passes blocks of any size, ends well, or fails at
any time. The wait of the callback times out at any time, also when it was woken already.
`Die` is the asynchronous cancellation: it strikes anywhere, and does not release the mutex.
`NobodyWaitsInVain` is about the hand-over itself: the callback waits only for a reader who has
something to read and is told so, and a reader who is told to wait has a thread at work for it.

### OpenAIStream

`chunk` and `complete` are `openai_response`. `worker` holds the detached threads: port 121
starts one and port 120 another (`Starts`), each tests `streaming` (`Check`) and sets it in
a further step (`Claim`). `Delta`, `Add` and `Finish` are the callback, which hands over one
delta per chunk and waits without a time-out; `CurlEnds` is the end of the request, well or
not, of which the reader is not told. The reader may stop because its buffer is full or
because it waited too long. A request is `disturbed` when an older stream is still alive, or
both of its threads stream: the two share a line buffer, and what comes then is undefined.
`CallbackWaitsForReader` says that the callback waits only while there is text to read, and
that `streaming`, which turns other requests away, is set only while somebody streams.

### ChatHistory, MCChat

The program behind those ports. `rows` are the messages it has, as slots `<<type, number>>`;
`busy` the slots in use; `memory` their texts. `AddMessage` is `ch_addm`, whole: when there
is no room the oldest message is forgotten and its slot freed, then the first free slot of
the type is taken, and without one the message is dropped. `Position` and `RequestFits` are
`j_genreq`: messages that do not fit are passed over. `said` is the conversation (history).
`MCChat` lets TLC check the stream and the history in one run, each with the other at rest.

### FileTransfer

The server's directory is `size` and `version` (a file can be replaced or taken away by
somebody else); `handles` is its cache, least recently used first, each handle showing the
version it was opened on. `ServeChunk` and `ServeClose` are the session's handlers, whole:
no `await` lies between the lookup of a handle and its use. Between them are `requests`
and `wire`, the bytes on their way back. The client is `files_io.c`: `Name`, `Request` and
`Close` are its ports; `Receive`, `ReceiveError`, `ReceiveFails`, `CloseAnswered` how a call
of `recv` can end. Every failure drops the connection, except a missing answer to CLOSE,
whose late byte is then taken for the next status (`late`). The program polls, takes the
chunk, and after an error gives up or asks again. `Restart` is the server's end and new
start, with any part of what was on its way lost.

### RemoteFS

`session[s]` is the thread of a connection with its place in INIT: `GetDir` and `Copy` are
`get_client_dir` (the lock is held while templates are copied), `GetList`, `Open`, `Create`,
`Store` are `get_client_disks` with `DiskImage._open`, which opens outside the lock. A file
is `Missing`, `Short` while it is being filled, or has the content of one sector, which
stands for all. Clients send writes without waiting, drop connections, and come back;
`Restart` kills the server at any point. `last` is what a client wrote last. A client is
`excused` when nobody can vouch for its disks: its old connection still has requests to
deliver, another id shares its directory, or the server was killed while it copied.

### Environment

The main thread starts (`Locate`, `Connect`) and then runs one timer's handler after the
other: `UpdateEnvironment` with the steps of a fetch, `WeatherCacheExpired`, `Report`. Data
and its flag are stored in two steps, and the CPU's thread may ask between any two
(`WeatherOut`, `OtherOut`, `RequestIn`: ports 35, 39 and the request unit of port 200). A
measurement is the age of the world it was taken in, or blank, or made up; the service is
down, answers garbage, answers without measurements, or answers well.

### Isam and IsamTable

`file` is the table's slots; `nrecs` and `maxrec` are the counts in memory, `config` those
in the configuration file. `Insert`, `Update`, `Delete` are `i_insrt`, `i_uprec`, `i_delrec`
with their slot searches; `Built`, `Inserted`, `AfterDelete`, `Search`, `SlotRange`,
`Lookup` are the index, with a sample of every so many records.
Two clients use them: `doctor.c`, which keeps the index itself in phases, and one that
calls the library in any order, saves when it likes and may be restarted between two calls.
`sound` says that no restart read old counts. `IsamTable` is what a program is promised: a
sequence of records, without slots, counts or index; `Implements` says the library keeps
that promise.

## 3. Runs

| Run | Shows | Bounds, and why they are enough |
|---|---|---|
| `web_console` | `NothingLostWhileAllStay`, `OrderPerFlusher`, `NoDeadCurrent`, `BufferedOutputIsSent`, `SlotsAreFreed` | two settings in one run: two browsers, so that one evicts the other, and one message; or one browser and up to four bytes. Ring of 2, messages up to 2: a message fits, fits in part, fills the ring |
| `web_console_close` | refutes `CloseEndsOwnSession` | two browsers |
| `terminal_input` | `QueueIsFifo`, `ReadInOrder`, `LineAsTyped` | two sessions, four characters, a queue of 2 and messages of up to 2 (wrap, part, full), a line buffer for two characters: order shows, and the third is cut. 3.5 million states |
| `machine` | `ProgramEntered`, `PressOnce`, `SignalNotMissed`, `MainStarts` | memory of 2 bytes of 2 values, so that NEXT wraps; two settings in one run: every command of the monitor and nobody at the panel; or the kit with RUN and STOP and one lever moved, against a session that enters a program. A trace of 2 instructions for the code's 21, so that the bus is walked between them. 2.1 million states |
| `disk` | `PointerInBuffer`, `Implements` | three settings in one run: one drive, two drives, one drive over the differencing disk; two tracks of two sectors of two bytes: both stops, the wrap of the sector number, half-written sectors, turning away with a dirty buffer and back |
| `altair` | `ProgramsRight`, `TimersExact`, `Halts`, `InstructionsRight`, `DecimalsRight` | eight programs, operands at the edges (0, 1, 15, 127, 128, 255; packed digits with and without carry), three keys struck at any moment, a clock that moves by 130 or 250 |
| `http_transfer` | `Implements`, `NobodyWaitsInVain`, `TransferEnds` | chunks of 2, blocks up to 3, files up to 5: blocks of several chunks, files of several blocks; three transfers, each possibly abandoned at any step |
| `chat` | `AnswerCopied`, `CallbackWaitsForReader`, `RecentShown`, `StreamEnds` | two settings in one run. Stream: two requests of two threads each, two deltas in all; chunk of 3, so a delta of 1 fits and one of 3 is cut; a reader with room for 3. History: three messages remembered of five said, so that two slots for answers serve three messages; texts of 1 and 4 with room for one long one |
| `file_transfer` | `Implements`, `TransferEnds` | two files, a cache of one handle, so that each evicts the other; chunks of 3, files of 3 and 4: a full last chunk and one of a byte; two transfers, two versions, two faults |
| `remote_fs` | `Durable`, `ReadBack`, `InitEnds` | two ids that share a directory, two connections, a disk with a template and one without, one restart, one request on its way |
| `environment` | `PublishedComplete`, `NeverBack`, `Refreshes`, `Reconnects` | the weather changes once; answers of two characters; the outside is free to change for ever |
| `isam` | `LookupFinds`, `TableOK`, `InsertSpares`, `Implements` | four records, four slots, an index of two entries, one for every second slot: it is full and skips slots |

In the settings of `MCWebConsole`, `MCMachine`, `MCDisk` and `MCChat` a variable that never changes says which
instance a behaviour belongs to, so that each property is checked in every one. Every
passing property has a mutant in `PROJECT.json`: a plausible bug in one definition that
makes the property fail under the run's own configuration.

Deadlock is checked by `altair` and `environment`, where something can always go on. In the
other models users may stop typing, programs may stop moving bytes, and bounds end the
behaviours.

### Fairness

* `WebConsole`: weak fairness for the timer thread (the event loop repeats the timer every
  20 ms), for the CPU thread except for its decision to print, and for the handlers of each
  session. Users need not connect, type or leave.
* `Machine`: the main thread's start and the CPU thread's signal are scheduled. `MainStarts`
  excepts a thread that could not be created: nobody looks, and main waits for ever.
* `HttpTransfer`: weak fairness for either thread as a whole; curl ends because of its 20
  second limit and the file's length, and a wait ends after 5 seconds. `TransferEnds`
  excepts `MutexLost`: the asynchronous cancellation can strike between lock and unlock,
  and then nobody unlocks the mutex. The exception names exactly that state, so any other
  way to hang is an error of the run.
* `OpenAIStream`: weak fairness for the program once it asked (its loop polls), for each
  worker's steps up to and after the wait, and for the end of its curl call (its 40 second
  limit). `StreamEnds` excepts disturbed requests and a reader that asks anew before it
  read everything.
* `FileTransfer`: weak fairness for the server and for the client. A missing answer ends
  `recv` after ten seconds.
* `RemoteFS`: strong fairness for each thread, since the lock comes and goes: a thread that
  waits for it gets it at last.
* `Altair`: weak fairness for the processor, strong fairness for the clock.
* `Environment`: weak fairness for the start and a fetch that began; strong fairness for
  the three handlers, each of which is enabled only between the others: their timers are
  periodic, and `Refreshes` and `Reconnects` suppose that the network and the service, or
  the broker, stay.

No fairness is put on a single outcome: a failure need not happen, nor a success.

### What the violation run shows, and other disagreements

`CloseEndsOwnSession`: `onclose` says it validates that it closes the current client
(`src/web_console.c:494`) and stores 0 in either case. After an eviction the late `onclose`
of the old session disconnects the new one.

Met while modelling, and described here without a run of their own. The properties leave
room for them, each by a named exception:

* `http_io.c:300`: a failure between the reader's poll and its read is overwritten by the end
  of the file, though line 588 speaks of a status FAILED. A cut copy is reported as done;
  hence `StreamCopy` lets a program be told "done" of a source that closed badly.
* `openai.c:145`: OUT 122 empties the chunk under a waiting callback without a signal. A
  reader that gave up and asks again leaves `streaming` true for ever.
* `difference_disk.c:16`: the keys of two drives are 2000 apart and a drive has 2464 sectors,
  so the last 464 sectors of one drive are the first of the next. `Implements` is proved for
  drives whose keys do not meet (`KeysApart`), which with the real numbers is one drive, or
  disks that leave their last tracks alone.
* `remote_fs_server.py:298`: a server that is killed between making a client's directory and
  copying the templates leaves that client with empty disks for good (`excused`).
* `cpu_monitor.c:327`, `:175`: disassemble and trace start at the input switches, and
  disassemble returns there. The front panel's documentation
  (`docs/docs/en/60-programming/06-Front-panel-programming.md:61`, `:109`) speaks of the
  instruction pointer that EXAMINE set; the two differ as soon as a byte was typed.
* `cpu_monitor.c:308`: an examine during a burst that is still under way is undone by its
  next cycle; `ProgramEntered` excepts it.
* `dxfile.c:196`: the library's README tells programs to save the counts after changes. A
  program that ends before it did goes by old counts: a record it inserts takes the place
  of one behind the old count, or is itself out of reach. `InsertSpares` says what still
  holds, no record that can be read is overwritten, and `Implements` supposes less then
  (`saved`).
* `intel8080.c:1146`: DAA takes the carry of its second addition alone, and looks for it in
  a byte that the first may have overflowed. Packed sums whose binary value is 250 to 255
  come out 60 too small, greater ones lose their hundred. `ProgramsRight` excepts them;
  `DecimalsRight` states both, and that all others are right.
* `doctor.c:598`: what looks for the next record to sample in place of a deleted one looks
  for an entry that the deletion has already taken out, so no sample ever takes its place
  and the index gets thinner with deletions. `LookupFinds` holds all the same.
* `chatjson.c:141`: requests are packed from the oldest message on. When the room ends it is the
  newest message, the question, that is left out.
* The usage text of `altair_config.c` gives false as the default of the option that slows the
  CPU on disconnect; the code has true. `SlowCpu` is a constant of the models.
* `web_console.c:468`: two sessions that open at the same time both stay open; frames of the
  timer and of a full producer can overtake one another (within one thread they cannot:
  `OrderPerFlusher`).

## 4. Proofs

Each proof module states its theorems for every value of the constants, from the named
assumptions of its model. The inductive invariants were checked with TLC on the instances of
the runs before they were proved. Liveness stays with TLC, since it rests on fairness and
ENABLED.

* **`WebConsoleProofs`**, from `ConsoleAssumption`: any set of clients, any ring.
  `TypeCorrect` adds to `TypeOK` that a thread about to drain or send has a client. `ByteOnce`
  and `FlusherOrder` come from `ByteInv`: the ring holds the newest bytes, frames and received
  frames older ones; frames are disjoint, and what a thread sent is older than the frame it
  holds. Neither is inductive alone: that a thread's next frame is newer needs the order
  between ring and frames. `NothingLost` (`NothingLostWhileAllStay`) needs `StayInv`: a byte
  that entered is kept in the ring, in the frame a thread holds, or with a client, and while
  nobody leaves a send finds its client open. `DeadNeverCurrent`: a connection is closed only
  when its thread is past the callback, and nobody but that thread makes its client current.
* **`TerminalInputProofs`**, from `InputAssumption`: any sizes, any sessions. `Fifo` relates
  head, tail and count to the sequence they stand for; the reset at empty and the wrap are
  its two cases. `Order` says that read, queued and typed characters are one sequence in pieces.
  `Typed` (`LineAsTyped`) needs `LineHolds`: unless two threads clashed, at most one is in the
  line; the buffer is what was taken for it, or that without what this thread has still to
  write; and the place which it looked up is still the end.
* **`MachineProofs`**, from `MachineAssumption`: any memory, levers, commands and number of
  presses. `Presses` (`PressOnce`) counts: a command the panel's thread is about to take is
  a press that was seen and not yet counted. `Entered` (`ProgramEntered`) has an
  invariant for each place a session's command can be at (`Entering`): before it reads the
  command word for the last time that word, then `deferred`, is what was given (`Early`,
  `Going`), and the bus, the switches and memory are what the command needs to do what was
  asked for (`Awaited`); when it is done, counter, bus and memory are what was entered
  (`Steady`). Steps of others leave all this alone, or end the entry. `NoMissedSignal` (`SignalNotMissed`) adds who
  holds the start's mutex (`Starting`): the thread does not exist before the main thread has
  locked it, and cannot signal before the main thread's wait has released it.
* **`DiskControllerProofs`**, from `DiskAssumption`: any drives, geometry, build and images.
  `TypeCorrect`, `BufferNotOverrun` (`PointerInBuffer`) and `SavedUnderHead` come from one
  invariant: types and, for every drive, `InStep`, which ties the buffer to the program: in an
  untouched sector the index is 0 and the file is positioned; while the program writes,
  index and `writeStatus` count its bytes; while it reads, the buffer is clean and filled.
  `DrivesStore` is the refinement, `KeysApart => (Spec => Implements)`: its invariant adds
  that a sector in the differencing disk is of the drive whose key it has, and that a sector
  being read is the one `Holds` shows; then each port operation is a step of `SectorDisk` or
  a stutter. `Track0Correct` goes by the steps of the head.
* **`PortProofs`**, the web file transfer, from `TransferAssumption`: any chunk, file, block.
  The invariant has five parts: types; which thread may be where (`Threads`); a block's bytes
  are those the stream has next (`Blocks`); what was read, the chunk and the rest of the block
  are consecutive (`Stream`); and what a status promises (`Promises`). From it follow `Prefix`,
  `Whole` and `NulFailure` (every byte at its place, all of them at the end, a NUL only after a
  failure), and on these the refinement rests: `TransferImplements` (`Implements`) maps the
  reader's steps and the end of curl to steps of `StreamCopy`, and everything else, chunks,
  locks, time-outs and cancellations, to stutters. A cancelled thread keeps the mutex and
  changes nothing of it. `NobodyWaits` (`NobodyWaitsInVain`) adds `Worked`: a
  reader of a transfer that is not over has a thread that works on it, unless there was none
  from the beginning, which the status tells.
* **`PortProofs`**, the processor, from `CpuAssumption` and `TimeAssumption`: any memory, any
  contents of it, so any program, any keys and answers of devices, any clock.
  `AltairTypesKept` goes through the handlers one by one: whatever they compute they cut to
  its width. Its parts are the registers, the cells, the characters and the timers. On this
  rest the theorems about steps. `AltairArithmetic` (`ArithmeticExact`): modulo 256 with its
  carry is exact, for the complement too, where an operand of 0 or 256 is the edge.
  `AltairStack` (`StackReturns`): a word written is the word read (`PushedWord`), the pointer
  comes back over the ends of memory (`StackBack`), and the eight bits of a byte are the set
  it was made from (`BitsBack`). `AltairInputOrder` (`CharactersInOrder`): what the status
  port holds goes before the queue. `AltairInstructions` (`InstructionsRight`) is the three
  together. `AltairDecimals` (`DecimalsRight`): a packed sum is followed through the two corrections of DAA; its
  premise is what the addition left in the flags, which the same theorem says ADD and ADC do.
  `AltairTimers` (`TimersExact`) is about what a program told a timer and what the driver
  keeps of it. Its invariant `AskedOK` ties the two: the delay's high byte is the one set
  last, the target is the moment the timer is due, for the timer of seconds cut to a second,
  and it is 0 when nothing runs.
* **`FileTransferProofs`**, from `TransferAssumption`: any names, chunk of at least three
  bytes, cache, lengths. `TurnsOK` says whose turn it is, `ChannelOK` that the channel is
  quiet, or holds one answer to the one request, or the rest of a CLOSE; `StreamOK` that what
  was read and the unread chunk are the file up to `offset`. A step that makes the channel
  lose step with the requests sets `spoiled`. `Prefix` and `Whole` follow.
  `TransferImplements` (`Implements`) is the refinement of `StreamCopy`; it needs one thing
  more, that a program which still asks was told nothing (`Untold`).
* **`RemoteFSProofs`**, from `RemoteAssumption`: any clients, directories, disks and number of
  restarts. Types, then `IdsOK`, `DirsOK`, `LockOK` (who may fill a directory), `FilledOK` (a
  disk that a session has open is there in full), `Apart` (one unexcused id per directory),
  `ListsOK`, `NewestOK` (requests are on the newest connection only) and `WrittenOK`: what the
  queue still has to write leads from the image to `last`. `Stays` (`Durable`) is the case of
  an empty queue; `ReadsBack` says the same of the answer in the middle of it.
* **`MachineProofs`**, the environment, from `EnvironmentAssumption`. `CompletePublished`,
  `KnownShown`, `NeverGoesBack` and `WholeAnswers` rest on one invariant: a flag is set only
  after its data (`Vouched`), and what is about to be stored is not older than what is there.

* **`SampleProofs`**, ISAM, from `IsamAssumption`: any records, slots, distance of samples and
  size of index. `IInv` is `TableOK`, with what the index may hold (`IndexOK`), what doctor.c
  knows of its table in each phase (`DoctorOK`) and what it may report (`ReportOK`).
  `LookupsFind` (`LookupFinds`) needs the binary search: its turns narrow an interval that
  keeps the key, by induction over the turns; the building of the index is an induction over
  its samples. The library's induction rule takes an operator, which the provers cannot
  instantiate; the module proves a rule for sets of numbers from the least element, and that
  functions by recursion exist, and uses those. `TableImplements` (`Implements`) shows each
  step of the library to be a step of `IsamTable` or a stutter; the work is in what a change
  of one slot does to the sequence of records.
* **`SampleProofs`**, the stream, from `StreamAssumption`. `StreamInv` says which thread may be
  where (`Shapes`, `OthersWait`), that a new request begins with nothing (`Unanswered`), and
  that what was read, the chunk and the rest of a delta are the answer so far (`Streamed`), as
  long as the request is not disturbed. `AnswersFromStart` and `EndsAfterAnswer` follow, and
  with them the refinement, `StreamImplements` (`AnswerCopied`): a delta grows the source when the
  callback cuts it, the end mark closes it, the reader's steps read. `CallbackWaitsInTurn`
  (`CallbackWaitsForReader`) takes what is to be shown as the invariant, in two parts: a worker
  waits only after it filled the chunk, and whoever sets `streaming` streams and clears it.
* **`SampleProofs`**, the history, from `ChatAssumption`: any number of messages. `ChatInv` says
  that messages have slots of their own and no others are in use (`OwnSlots`), that two
  answers never follow each other (`Alternate`), and what is remembered (`Remembered`). That a
  slot is free for each message is the pigeonhole principle: answers alternate, so at most
  half of the messages, rounded up, are answers. With one slot fewer it fails, which is the
  mutant of `RecentShown`.

Type correctness is a theorem for every model. Every safety property, action property and
refinement that a passing run checks is a theorem too, but one: `ProgramsRight` speaks of eight
given programs, and its proof would be a run of these by hand; what it rests on in any
program is proved. Liveness (`BufferedOutputIsSent`, `SlotsAreFreed`, `MainStarts`,
`Halts`, `TransferEnds`, `StreamEnds`, `InitEnds`, `Refreshes`, `Reconnects`) is
model-checked.

## 5. What is not modelled

* **Content of messages.** Echo and upper-casing, the text the monitor shows, and the
  formatting of time, weather, and JSON. Models tell messages apart by number.
* **OpenAI's payload buffer, line buffer and finish reason** (ports 120 and 121 but for their
  end, 126, 127), and the ports of `http_io.c` that collect a URL: strings put together.
* **The chat program's configuration files**, lines that are longer than its buffer, and the
  parsing of what port 120 brings.
* **`SET_FILENAME`** of the file transfer server, which no client sends.
* **Failed or short reads and writes of disk images**: the code logs them and goes on.
* **The session expiry timer**: nothing sends the message that would arm it.
* **`delete_all`** of the differencing disk: nothing reaches it.
* **Front panels but the kit**, the drivers of buses and LEDs: hardware through one bus.
* **Utility, power and on-board ports**: one formatted value each, or nothing in these builds.
* **Configuration**: pure parsing. **`env_air_visual.c`**: commented out, not built.
* **Other CP/M samples and the SDK, the web page, containers and services**: sequential
  games and demonstrations, thin wrappers of ports, text.
* **A crash in the middle of a call of the ISAM library, or of the remote file system's
  `Create`.** `Isam`'s `Save` is one step, although `i_cfwr` truncates the configuration and then
  writes it, and restarts fall between the library's calls: CP/M has no other program that
  could come between, but somebody may switch the machine off. `RemoteFS`'s `Create` is one
  step, although `_open` first opens the file and then writes it: a file is missing there only
  when the server was killed while it filled the directory, and `Durable` and `ReadBack` except
  the clients of such a directory. What a second session of such a client sees of the file
  between the two steps (too short to be mapped) is therefore not shown.
* **Measurements that the CPU's thread reads while the main thread writes the same text**:
  `Environment` knows a whole measurement or none.
* **Spurious wake-ups** of the main thread's condition wait, which the code would not notice.
* **Libraries** (web sockets, curl, MQTT client) beyond what the code relies on; these
  definitions are marked external in `PROJECT.json`.

Left for further work, in this order: OpenAI's finish reason and payload buffer; a sector
disk over `RemoteFS`, composed with `DiskController`'s program; I/O errors of images as a
fault of `DiskController`, with what survives them.
