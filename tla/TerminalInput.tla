---------------------------- MODULE TerminalInput ----------------------------
(***************************************************************************)
(* The input half of the web terminal, src/web_console.c, and the CPU      *)
(* monitor it feeds, src/cpu_monitor.c.                                    *)
(*                                                                         *)
(* A message of a session is handled on that session's web-socket thread.  *)
(* ctrl-M toggles the CPU's mode.  While the CPU runs, characters go into  *)
(* the input queue; while it is stopped they collect in the command        *)
(* buffer, which the sessions share without a lock, and RETURN executes    *)
(* the line, on the same thread.  The CPU thread looks at the mode only    *)
(* between bursts of cycles, so it still executes when the mode is         *)
(* STOPPED already.                                                        *)
(*                                                                         *)
(* Character n typed in session c is <<c, n>>.  What a line means is left  *)
(* open: a line is a reset, an examine, a single step or something else.   *)
(***************************************************************************)
EXTENDS Integers, Sequences, SequencesExt

CONSTANTS Clients,    \* sessions that come and go
          QueueSize,  \* TERMINAL_INPUT_BUFFER_SIZE
          LineSize,   \* COMMAND_BUFFER_SIZE
          MaxText,    \* bound: longest message, in characters
          MaxTyped,   \* bound: characters typed in all sessions together
          SlowCpu,    \* altair_config.slow_cpu_on_disconnect
          None        \* an unused slot of a buffer

ASSUME InputAssumption ==
  /\ QueueSize \in Nat \ {0}
  /\ LineSize \in Nat \ {0}
  /\ MaxText \in Nat \ {0}
  /\ MaxTyped \in Nat
  /\ SlowCpu \in BOOLEAN

VARIABLES
  session,   \* whether a session was opened, and ended
  typed,     \* characters typed in each session
  handler,   \* what a session's thread does: its step, message, and local values
  mode,      \* atomic_cpu_operating_mode
  queue,     \* terminal_input_queue: buffer, head, tail, count
  line,      \* command_buffer, and the byte after it
  length,    \* command_buffer_length
  counter,   \* the CPU's program counter: in the program, at the boot ROM, or as examined
  burst,     \* the CPU thread executes cycles
  accepted,  \* history: what was queued, without what a reset cleared
  read,      \* history: what the program read
  meant,     \* history: the messages that were taken for the line, cut at its size
  ran,       \* history: the line that was executed last, and what was taken for it
  clash      \* history: two threads were in the line at once, and it was not cleared since

vars == <<session, typed, handler, mode, queue, line, length, counter, burst, accepted,
          read, meant, ran, clash>>
fifo == <<queue, accepted, read>>
command == <<line, length, meant, ran, clash>>
machine == <<mode, counter, burst>>

Slots == 0..(QueueSize - 1)
Idle == [at |-> "idle", text |-> <<>>, loaded |-> 0]

Init ==
  /\ session = [c \in Clients |-> "new"]
  /\ typed = [c \in Clients |-> 0]
  /\ handler = [c \in Clients |-> Idle]
  /\ mode = "STOPPED" /\ counter = "boot" /\ burst = FALSE
  /\ queue = [buffer |-> [i \in Slots |-> None], head |-> 0, tail |-> 0, count |-> 0]
  /\ line = [i \in 0..LineSize |-> None] /\ length = 0
  /\ accepted = <<>> /\ read = <<>>
  /\ meant = <<>> /\ ran = [line |-> <<>>, meant |-> <<>>] /\ clash = FALSE

-----------------------------------------------------------------------------
(* The queue, whose functions hold its mutex *)

Contents(q) == [i \in 1..q.count |-> q.buffer[(q.head + i - 1) % QueueSize]]

\* The loop of terminal_enqueue_input_command over s, which fits.
Put(q, s) ==
  LET offset(i) == (i - q.tail) % QueueSize
  IN [buffer |-> [i \in Slots |-> IF offset(i) < Len(s) THEN s[offset(i) + 1] ELSE q.buffer[i]],
      head |-> q.head, tail |-> (q.tail + Len(s)) % QueueSize, count |-> q.count + Len(s)]

\* The part of a message there is room for.
Fitting(s) ==
  LET room == QueueSize - queue.count IN IF Len(s) <= room THEN s ELSE SubSeq(s, 1, room)

\* Variants of Without: only the head of an emptied queue is reset; the head stays.
WithoutTail(q) ==
  IF q.count = 1 THEN [q EXCEPT !.head = 0, !.count = 0]
  ELSE [q EXCEPT !.head = (@ + 1) % QueueSize, !.count = @ - 1]

WithoutMove(q) ==
  IF q.count = 1 THEN [q EXCEPT !.head = 0, !.tail = 0, !.count = 0]
  ELSE [q EXCEPT !.count = @ - 1]

\* dequeue_terminal_input_character: an emptied queue starts over.
Without(q) ==
  IF q.count = 1 THEN [q EXCEPT !.head = 0, !.tail = 0, !.count = 0]
  ELSE [q EXCEPT !.head = (@ + 1) % QueueSize, !.count = @ - 1]

-----------------------------------------------------------------------------
(* The CPU thread *)

BurstStarts ==
  /\ ~burst /\ mode # "STOPPED"
  /\ burst' = TRUE
  /\ UNCHANGED <<session, typed, handler, mode, counter, fifo, command>>

\* One cycle: the program goes on, and may read the terminal.
Cycle ==
  /\ counter' = "program"
  /\ \/ UNCHANGED fifo
     \/ /\ queue.count > 0
        /\ read' = Append(read, Head(Contents(queue)))
        /\ queue' = Without(queue)
        /\ UNCHANGED accepted

BurstCycle == burst /\ Cycle /\ UNCHANGED <<session, typed, handler, mode, burst, command>>

BurstEnds ==
  /\ burst /\ burst' = FALSE
  /\ UNCHANGED <<session, typed, handler, mode, counter, fifo, command>>

-----------------------------------------------------------------------------
(* A session: its callbacks change the mode *)

Opens(c) ==
  /\ session[c] = "new"
  /\ session' = [session EXCEPT ![c] = "open"]
  /\ mode' = "RUNNING"
  /\ UNCHANGED <<typed, handler, counter, burst, fifo, command>>

Ends(c) ==
  /\ session[c] = "open" /\ handler[c] = Idle
  /\ session' = [session EXCEPT ![c] = "ended"]
  /\ mode' = IF SlowCpu THEN "LOW_POWER" ELSE mode
  /\ UNCHANGED <<typed, handler, counter, burst, fifo, command>>

Step(c, to) == handler' = [handler EXCEPT ![c].at = to]
Finish(c) == handler' = [handler EXCEPT ![c] = Idle]
At(c, step) == handler[c].at = step

\* Where a thread uses the line, from its look at the mode to its last store: no lock keeps
\* another one out.
InLine(c) == handler[c].at \in {"collect", "store", "execute", "examine", "step", "reset", "boot",
                               "start", "done", "clear"}
Others(c) == \E d \in Clients \ {c} : InLine(d)

\* onmessage: ctrl-M, a RETURN (with what follows it dropped), or characters.
Message(c) ==
  /\ session[c] = "open" /\ handler[c] = Idle
  /\ \/ Step(c, "toggle") /\ UNCHANGED typed
     \/ \E n \in 1..MaxText : \E to \in {"return", "text"} :
          /\ to = "return" => n = 1
          /\ FoldFunction(+, n, typed) <= MaxTyped
          /\ typed' = [typed EXCEPT ![c] = @ + n]
          /\ handler' = [handler EXCEPT ![c] =
               [at |-> to, text |-> [i \in 1..n |-> <<c, typed[c] + i>>], loaded |-> 0]]
  /\ UNCHANGED <<session, machine, fifo, command>>

\* toggle_cpu_operating_mode: a load and a store.
ToggleLoad(c) ==
  /\ At(c, "toggle")
  /\ Step(c, IF mode = "RUNNING" THEN "stop" ELSE "run")
  /\ UNCHANGED <<session, typed, machine, fifo, command>>

ToggleRun(c) ==
  /\ At(c, "run")
  /\ mode' = "RUNNING"
  /\ Finish(c)
  /\ UNCHANGED <<session, typed, counter, burst, fifo, command>>

ToggleStop(c) ==
  /\ At(c, "stop")
  /\ mode' = "STOPPED"
  /\ Step(c, "clear")
  /\ clash' = (clash \/ Others(c))
  /\ UNCHANGED <<session, typed, counter, burst, fifo, line, length, meant, ran>>

Clear(c) ==
  /\ length' = 0 /\ line' = [line EXCEPT ![0] = None]
  /\ meant' = <<>> /\ clash' = Others(c)

\* Stopping the CPU starts a new line.
ToggleClear(c) ==
  /\ At(c, "clear")
  /\ Clear(c)
  /\ Finish(c)
  /\ UNCHANGED <<session, typed, machine, fifo, ran>>

\* What the buffer has room for, with its closing zero.
Cut(s) == IF Len(s) < LineSize THEN s ELSE SubSeq(s, 1, LineSize - 1)

\* terminal_handler looks at the mode once; in LOW_POWER the message is dropped.
Dispatch(c) ==
  /\ handler[c].at \in {"return", "text"}
  /\ \/ mode = "RUNNING" /\ Step(c, "enqueue") /\ UNCHANGED <<meant, clash>>
     \/ /\ mode = "STOPPED" /\ clash' = (clash \/ Others(c))
        /\ \/ At(c, "return") /\ Step(c, "execute") /\ UNCHANGED meant
           \/ At(c, "text") /\ Step(c, "collect") /\ meant' = Cut(meant \o handler[c].text)
     \/ mode = "LOW_POWER" /\ Finish(c) /\ UNCHANGED <<meant, clash>>
  /\ UNCHANGED <<session, typed, machine, fifo, line, length, ran>>

\* What does not fit is dropped.
Enqueue(c) ==
  LET s == Fitting(handler[c].text)
  IN /\ At(c, "enqueue")
     /\ queue' = Put(queue, s)
     /\ accepted' = accepted \o s
     /\ Finish(c)
     /\ UNCHANGED <<session, typed, machine, read, command>>

\* The loop that collects a line checks the length for every character, and writes at
\* the length it checked or, when the build loads it again, at what it is by then.
Collect(c) ==
  /\ At(c, "collect")
  /\ IF handler[c].text # <<>> /\ length < LineSize - 1
     THEN handler' = [handler EXCEPT ![c].at = "store", ![c].loaded = length]
     ELSE Finish(c)
  /\ UNCHANGED <<session, typed, machine, fifo, command>>

Store(c) ==
  /\ At(c, "store")
  /\ \E at \in {handler[c].loaded, length} :
       /\ line' = [line EXCEPT ![at] = Head(handler[c].text)]
       /\ length' = at + 1
  /\ handler' = [handler EXCEPT ![c].at = "collect", ![c].text = Tail(@)]
  /\ UNCHANGED <<session, typed, machine, fifo, meant, ran, clash>>

Line == [i \in 1..length |-> line[i - 1]]

\* process_virtual_input: an empty line only prompts; process_control_panel_commands
\* ignores a command unless the CPU is (still) stopped.
Execute(c) ==
  /\ At(c, "execute")
  /\ line' = [line EXCEPT ![length] = None]
  /\ ran' = IF clash THEN ran ELSE [line |-> Line, meant |-> meant]
  /\ \/ Step(c, "done")
     \/ /\ length > 0 /\ line[0] # None /\ mode = "STOPPED"
        /\ \E to \in {"examine", "step", "reset"} : Step(c, to)
  /\ UNCHANGED <<session, typed, machine, fifo, length, meant, clash>>

Examine(c) ==
  /\ At(c, "examine")
  /\ counter' = "examined"
  /\ Step(c, "done")
  /\ UNCHANGED <<session, typed, mode, burst, fifo, command>>

\* A single step runs a cycle on the session's thread.
SingleStep(c) ==
  /\ At(c, "step")
  /\ Cycle
  /\ Step(c, "done")
  /\ UNCHANGED <<session, typed, mode, burst, command>>

\* RESET: the queue is cleared, the boot ROM loaded, the CPU set running.
ResetQueue(c) ==
  /\ At(c, "reset")
  /\ queue' = [queue EXCEPT !.head = 0, !.tail = 0, !.count = 0]
  /\ accepted' = read
  /\ Step(c, "boot")
  /\ UNCHANGED <<session, typed, machine, read, command>>

ResetBoot(c) ==
  /\ At(c, "boot")
  /\ counter' = "boot"
  /\ Step(c, "start")
  /\ UNCHANGED <<session, typed, mode, burst, fifo, command>>

ResetRun(c) ==
  /\ At(c, "start")
  /\ mode' = "RUNNING"
  /\ Step(c, "done")
  /\ UNCHANGED <<session, typed, counter, burst, fifo, command>>

\* Variant of Done: the line is kept.
DoneKeeps(c) ==
  /\ At(c, "done")
  /\ meant' = <<>> /\ clash' = Others(c)
  /\ Finish(c)
  /\ UNCHANGED <<session, typed, machine, fifo, line, length, ran>>

Done(c) ==
  /\ At(c, "done")
  /\ Clear(c)
  /\ Finish(c)
  /\ UNCHANGED <<session, typed, machine, fifo, ran>>

-----------------------------------------------------------------------------
Handle(c) ==
  \/ ToggleLoad(c) \/ ToggleRun(c) \/ ToggleStop(c) \/ ToggleClear(c)
  \/ Dispatch(c) \/ Enqueue(c) \/ Collect(c) \/ Store(c)
  \/ Execute(c) \/ Examine(c) \/ SingleStep(c)
  \/ ResetQueue(c) \/ ResetBoot(c) \/ ResetRun(c) \/ Done(c)

CpuThread == BurstStarts \/ BurstCycle \/ BurstEnds

Next == CpuThread \/ \E c \in Clients : Opens(c) \/ Ends(c) \/ Message(c) \/ Handle(c)

Spec == Init /\ [][Next]_vars

-----------------------------------------------------------------------------
(* Properties *)

Chars == Clients \X Nat

TypeOK ==
  /\ session \in [Clients -> {"new", "open", "ended"}]
  /\ typed \in [Clients -> Nat]
  /\ mode \in {"RUNNING", "STOPPED", "LOW_POWER"}
  /\ queue.buffer \in [Slots -> Chars \union {None}]
  /\ queue.head \in Slots /\ queue.tail \in Slots /\ queue.count \in 0..QueueSize
  /\ line \in [0..LineSize -> Chars \union {None}]
  /\ counter \in {"program", "boot", "examined"} /\ burst \in BOOLEAN

\* The input queue is a FIFO: what the program read and what is still queued are exactly
\* the characters that were accepted, in their order, over all wraps of the ring, resets
\* of the indices and messages that fit only in part.
QueueIsFifo == accepted = read \o Contents(queue)

\* Each session's characters reach the program in the order they were typed, none twice.
ReadInOrder ==
  \A i, j \in DOMAIN read :
    i < j /\ read[i][1] = read[j][1] => read[i][2] < read[j][2]

\* The monitor executes the line that was typed: the messages, of whichever session, that
\* found the CPU stopped since the last RETURN or ctrl-M, one after the other and cut at the
\* buffer's size.  Over changes of the mode, resets, and sessions that evict each other; only
\* while two threads were in the buffer at once the line is not promised, until it is cleared.
LineAsTyped ==
  /\ ran.line = ran.meant
  /\ ~clash => length < LineSize /\ ((\A c \in Clients : ~InLine(c)) => Line = meant)

=============================================================================
