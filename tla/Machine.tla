------------------------------ MODULE Machine ------------------------------
(***************************************************************************)
(* The machine and those who operate it: its start in src/main.c, the CPU  *)
(* thread, the front panel kit (src/FrontPanels) with its refresh thread,  *)
(* and the CPU monitor of src/cpu_monitor.c, which a browser's session and *)
(* the panel's thread run alike.                                           *)
(*                                                                         *)
(* Both operators hand their command over in one global, cmd_switches, and *)
(* share the switches with the monitor, which sets them to the address it  *)
(* shows.  Nobody holds a lock.  The panel is looked at only when what it  *)
(* shows is out of date, and a command is taken when it differs from the   *)
(* one that was seen last.                                                 *)
(*                                                                         *)
(* A step is a call of the processor's core (a cycle, an examine, a        *)
(* deposit), or a load or store of what the threads share.  An instruction *)
(* is what it may do to the machine: it may change a cell, and it leaves   *)
(* the bus at some address and the counter at another.                     *)
(***************************************************************************)
EXTENDS Naturals

CONSTANTS Size,          \* the memory's size: 64 K
          Width,         \* values of a byte
          Boot,          \* ROM_LOADER_ADDRESS
          Rom, Basic,    \* the memory after an image was loaded
          Kit,           \* the front panel kit was selected
          SlowCpu,       \* slow_cpu_on_disconnect
          Levers,        \* bound: commands given on the panel
          Commands,      \* bound: commands given to the monitor
          TraceLength,   \* bound: instructions of a TRACE, 21 in the code
          MaxPresses,    \* bound: times a lever of the panel moves
          None

Address == 0..(Size - 1)
Byte == 0..(Width - 1)
Operators == {"session", "panel"}
PanelCommands == {"RUN", "STOP", "SINGLE_STEP", "EXAMINE", "EXAMINE_NEXT", "DEPOSIT",
                  "DEPOSIT_NEXT"}
MonitorCommands == (PanelCommands \ {"RUN", "STOP"})
                   \union {"DISASSEMBLE", "TRACE", "RESET", "LOAD_ALTAIR_BASIC"}
NOP == "NOP"
Stages == {"none", "ready", "run", "halt", "stopped", "take", "check", "switch", "defer", "select",
           "list", "trace", "jump", "start", "counter", "back", "show", "clear"}
          \union MonitorCommands

ASSUME MachineAssumption ==
  /\ Size \in Nat \ {0} /\ Boot \in Address
  /\ Width \in Nat \ {0} /\ Width <= Size
  /\ Rom \in [Address -> Byte] /\ Basic \in [Address -> Byte]
  /\ Kit \in BOOLEAN /\ SlowCpu \in BOOLEAN
  /\ Levers \subseteq PanelCommands /\ Commands \subseteq MonitorCommands
  /\ TraceLength \in Nat \ {0} /\ MaxPresses \in Nat
  /\ None \notin Address

VARIABLES
  main,      \* where the main thread is
  locked,    \* who holds altair_start_mutex
  thread,    \* the CPU thread
  mode,      \* atomic_cpu_operating_mode
  pc, bus,   \* the program counter and the address bus
  memory,
  switches,  \* bus_switches
  command,   \* cmd_switches
  deferred,  \* deferred_command
  step,      \* where each operator is; a command, while its case is next
  loaded,    \* the address that each loaded, to examine it
  left,      \* instructions that their TRACE has left
  lever,     \* the lever that is held on the panel
  seen,      \* last_command
  outdated,  \* the panel may not show the status, data and address there are
  presses, taken,  \* history: levers moved, and commands that the panel's thread ran
  entered    \* history: what the session asked for since its last EXAMINE

start == <<main, locked, thread>>
machine == <<mode, pc, bus, memory>>
panel == <<lever, seen, outdated, presses>>
control == <<switches, command, deferred, step, loaded, left>>
vars == <<start, machine, panel, control, taken, entered>>

Empty == [a \in Address |-> 0]
After(a) == (a + 1) % Size
Low(a) == a % Width          \* an address cut to a byte

\* What the session asked for, by itself: the address it examined, the cell it is at, the
\* input its monitor shows, and the bytes it deposited.
Nothing == [valid |-> FALSE, at |-> 0, where |-> 0, input |-> None,
            cells |-> [a \in Address |-> None]]
Disturbed == entered' = Nothing

\* A command of the session is on its way.
Commanding == step["session"] \notin {"none", "ready", "run", "halt", "stopped"}

\* Another operator changed what such a command goes by.
Interfered(o) == entered' = IF o = "session" \/ ~Commanding THEN entered ELSE Nothing

Init ==
  /\ main = "panel" /\ locked = "nobody" /\ thread = "none"
  /\ mode = "STOPPED" /\ pc = 0 /\ bus = 0 /\ memory = Empty
  /\ switches = 0 /\ command = NOP /\ deferred = NOP
  /\ step = [o \in Operators |-> "none"]
  /\ loaded = [o \in Operators |-> 0] /\ left = [o \in Operators |-> 0]
  /\ lever = NOP /\ seen = NOP /\ outdated = TRUE
  /\ presses = 0 /\ taken = 0 /\ entered = Nothing

-----------------------------------------------------------------------------
(* The start *)

\* front_panel_manager_init: a kit that does not open is no panel.  Opening it reads its
\* levers and switches, and leaves the command in cmd_switches.
InitPanel ==
  /\ main = "panel" /\ main' = "altair"
  /\ \/ ~Kit /\ UNCHANGED <<seen, command, switches, step>>
     \/ Kit /\ UNCHANGED <<seen, command, switches, step>>
     \/ /\ Kit
        /\ seen' = lever /\ command' = lever /\ switches' \in Address
        /\ step' = [step EXCEPT !["panel"] = "ready"]
  /\ UNCHANGED <<locked, thread, machine, deferred, loaded, left, lever, outdated, presses,
                 taken, entered>>

\* init_altair: without a disk the CPU is not reset, without the ROM the memory is empty;
\* the program goes on in either case, to its event loop.
InitAltair ==
  /\ main = "altair" /\ main' = "create"
  /\ \/ memory' = Rom /\ pc' = Boot /\ bus' = Boot
     \/ UNCHANGED <<memory, pc, bus>>
  /\ UNCHANGED <<locked, thread, mode, panel, control, taken, entered>>

\* Variant of Create: the lock is not held.
CreateUnlocked ==
  /\ main = "create" /\ main' = "wait"
  /\ thread' \in {"signal", "failed"}
  /\ UNCHANGED <<locked, machine, panel, control, taken, entered>>

\* start_altair_thread, with the lock held; nobody looks whether there is a thread.
Create ==
  /\ main = "create" /\ main' = "wait"
  /\ locked' = "main"
  /\ thread' \in {"signal", "failed"}
  /\ UNCHANGED <<machine, panel, control, taken, entered>>

\* Variant of Wait: it sleeps, and keeps the lock.
WaitHolding ==
  /\ main = "wait" /\ main' = "asleep"
  /\ UNCHANGED <<locked, thread, machine, panel, control, taken, entered>>

\* pthread_cond_wait: it gives the lock back.  A wake-up without a signal, which nobody
\* would notice, is left out.
Wait ==
  /\ main = "wait" /\ main' = "asleep"
  /\ locked' = "nobody"
  /\ UNCHANGED <<thread, machine, panel, control, taken, entered>>

\* The web server is started, and the panel's thread if there is a panel.
Serve ==
  /\ main = "woken" /\ locked = "nobody" /\ main' = "loop"
  /\ UNCHANGED <<locked, thread, machine, panel, control, taken, entered>>

\* The event loop ends, and with it the process.
End ==
  /\ main = "loop" /\ main' = "ended"
  /\ UNCHANGED <<locked, thread, machine, panel, control, taken, entered>>

-----------------------------------------------------------------------------
(* The CPU thread *)

Signal ==
  /\ thread = "signal" /\ locked = "nobody"
  /\ thread' = "loop"
  /\ main' = IF main = "asleep" THEN "woken" ELSE main
  /\ UNCHANGED <<locked, machine, panel, control, taken, entered>>

\* i8080_cycle.  Whatever changes the bus is taken to change what the panel should show;
\* as nothing says that the panel is looked at, this includes that it does not.
Cycle ==
  /\ pc' \in Address /\ bus' \in {pc} \union Address
  /\ \/ UNCHANGED memory
     \/ \E v \in Byte : memory' = [memory EXCEPT ![bus'] = v]
  /\ outdated' = TRUE

BurstStarts ==
  /\ thread = "loop" /\ main # "ended" /\ mode # "STOPPED"
  /\ thread' = "burst"
  /\ UNCHANGED <<main, locked, machine, panel, control, taken, entered>>

BurstCycle ==
  /\ thread = "burst" /\ main # "ended"
  /\ Cycle
  /\ Disturbed
  /\ UNCHANGED <<start, mode, lever, seen, presses, control, taken>>

BurstEnds ==
  /\ thread = "burst" /\ main # "ended"
  /\ thread' = "loop"
  /\ UNCHANGED <<main, locked, machine, panel, control, taken, entered>>

-----------------------------------------------------------------------------
(* A browser *)

Session(at) == main = "loop" /\ step["session"] = at

Moves(to) == step' = [step EXCEPT !["session"] = to]

Connects ==
  /\ Session("none")
  /\ Moves("ready") /\ mode' = "RUNNING"
  /\ UNCHANGED <<start, pc, bus, memory, panel, switches, command, deferred, loaded, left, taken,
                 entered>>

Disconnects ==
  /\ Session("ready")
  /\ Moves("none")
  /\ mode' = IF SlowCpu THEN "LOW_POWER" ELSE mode
  /\ UNCHANGED <<start, pc, bus, memory, panel, switches, command, deferred, loaded, left, taken,
                 entered>>

\* ctrl-M: toggle_cpu_operating_mode loads the mode and stores the other one.
ToggleLoad ==
  /\ Session("ready")
  /\ Moves(IF mode = "RUNNING" THEN "halt" ELSE "run")
  /\ UNCHANGED <<start, machine, panel, switches, command, deferred, loaded, left, taken, entered>>

ToggleStore ==
  /\ \/ Session("run") /\ mode' = "RUNNING" /\ Moves("ready")
     \/ Session("halt") /\ mode' = "STOPPED" /\ Moves("stopped")
  /\ UNCHANGED <<start, pc, bus, memory, panel, switches, command, deferred, loaded, left, taken,
                 entered>>

\* handle_ctrl_character: a CPU that was stopped has its bus on the switches, whatever was
\* typed before.
ToggleShow ==
  /\ Session("stopped") /\ Moves("ready")
  /\ switches' = bus
  /\ entered' = [entered EXCEPT !.input = IF entered.valid THEN entered.where ELSE None]
  /\ UNCHANGED <<start, machine, panel, command, deferred, loaded, left, taken>>

Toggle == ToggleLoad \/ ToggleStore \/ ToggleShow

\* process_virtual_switches
Type(a) ==
  /\ Session("ready") /\ mode = "STOPPED"
  /\ switches' = a
  /\ entered' = [entered EXCEPT !.input = a]
  /\ UNCHANGED <<start, machine, panel, command, deferred, step, loaded, left, taken>>

\* What the session asks for with command c: EXAMINE starts at the input, the NEXT commands
\* go on by one and show it, and the deposits put the input, cut to a byte, where that is.
Asks(c) ==
  LET next == After(entered.where)
      byte == Low(entered.input)
      begins == c = "EXAMINE" /\ entered.input # None
      goesOn == c \in {"EXAMINE_NEXT", "DEPOSIT", "DEPOSIT_NEXT"} /\ entered.valid
  IN \/ begins /\ entered' = [Nothing EXCEPT !.valid = TRUE, !.at = entered.input,
                                              !.where = entered.input, !.input = entered.input]
     \/ /\ goesOn
        /\ \/ /\ c = "EXAMINE_NEXT"
              /\ entered' = [entered EXCEPT !.where = next, !.input = next]
           \/ /\ c = "DEPOSIT"
              /\ entered' = [entered EXCEPT !.cells[entered.where] = byte]
           \/ /\ c = "DEPOSIT_NEXT"
              /\ entered' = [entered EXCEPT !.where = next, !.input = next, !.cells[next] = byte]
     \/ ~begins /\ ~goesOn /\ entered' = Nothing

\* process_virtual_input: any other line of the monitor.
Give(c) ==
  /\ Session("ready") /\ mode = "STOPPED"
  /\ command' = c
  /\ Moves("check")
  /\ Asks(c)
  /\ UNCHANGED <<start, machine, panel, switches, deferred, loaded, left, taken>>

-----------------------------------------------------------------------------
(* The panel *)

\* Somebody moves a lever, or lets it go.
Move(l) ==
  /\ main # "ended" /\ presses < MaxPresses /\ l # lever
  /\ lever' = l /\ presses' = presses + 1
  /\ UNCHANGED <<start, machine, seen, outdated, control, taken, entered>>

\* panel_refresh_thread: only a panel that is out of date is looked at; kit_front_panel_io
\* takes over its switches, unless the transfer fails: then nothing is read until the
\* display changes again.
Look ==
  /\ main = "loop" /\ step["panel"] = "ready" /\ outdated
  /\ outdated' = FALSE
  /\ \/ switches' \in Address /\ step' = [step EXCEPT !["panel"] = "take"] /\ Disturbed
     \/ UNCHANGED <<switches, step, entered>>
  /\ UNCHANGED <<start, machine, lever, seen, presses, command, deferred, loaded, left, taken>>

\* Variant of Take: every look at the panel takes the lever that is held.
TakeAgain ==
  /\ main = "loop" /\ step["panel"] = "take"
  /\ seen' = lever /\ command' = lever
  /\ step' = [step EXCEPT !["panel"] = IF lever # NOP THEN "check" ELSE "ready"]
  /\ Interfered("panel")
  /\ UNCHANGED <<start, machine, lever, outdated, presses, switches, deferred, loaded, left, taken>>

\* Only a command that is another one than last time is taken.
Take ==
  /\ main = "loop" /\ step["panel"] = "take"
  /\ IF lever # seen
     THEN /\ seen' = lever /\ command' = lever
          /\ step' = [step EXCEPT !["panel"] = IF lever # NOP THEN "check" ELSE "ready"]
          /\ Interfered("panel")
     ELSE step' = [step EXCEPT !["panel"] = "ready"] /\ UNCHANGED <<seen, command, entered>>
  /\ UNCHANGED <<start, machine, lever, outdated, presses, switches, deferred, loaded, left, taken>>

-----------------------------------------------------------------------------
(* process_control_panel_commands, on the thread of operator o *)

Does(o, at) == main = "loop" /\ step[o] = at
Goes(o, at) == step' = [step EXCEPT ![o] = at]
\* What another operator does to the machine or the switches undoes what the session entered.
Intrudes(o) == entered' = IF o = "session" THEN entered ELSE Nothing

Check(o) ==
  /\ Does(o, "check")
  /\ Goes(o, IF mode = "STOPPED" \/ command = "STOP" THEN "switch" ELSE "clear")
  /\ UNCHANGED <<start, machine, panel, switches, command, deferred, loaded, left, taken, entered>>

\* The switch over cmd_switches reads it again: it may be another operator's by now, or none.
Switch(o) ==
  /\ Does(o, "switch")
  /\ taken' = IF o = "panel" THEN taken + 1 ELSE taken
  /\ \/ command = "RUN" /\ mode' = "RUNNING" /\ Goes(o, "clear")
     \/ command = "STOP" /\ mode' = "STOPPED" /\ Goes(o, "counter")
     \/ command \notin {"RUN", "STOP"} /\ UNCHANGED mode /\ Goes(o, "defer")
  /\ Interfered(o)
  /\ UNCHANGED <<start, pc, bus, memory, panel, switches, command, deferred, loaded, left>>

\* It is read once more, into a global that the operators share as well.
Defer(o) ==
  /\ Does(o, "defer") /\ Goes(o, "select")
  /\ deferred' = command
  /\ Interfered(o)
  /\ UNCHANGED <<start, machine, panel, switches, command, loaded, left, taken>>

\* altair_panel_command_handler has no case for RUN, STOP and nothing.
Select(o) ==
  /\ Does(o, "select")
  /\ Goes(o, IF deferred \in MonitorCommands THEN deferred ELSE "clear")
  /\ UNCHANGED <<start, machine, panel, switches, command, deferred, loaded, left, taken, entered>>

\* i8080_examine
Examined(a) == pc' = a /\ bus' = a /\ outdated' = TRUE

Examine(o) ==
  /\ Does(o, "EXAMINE") /\ Goes(o, "show")
  /\ Examined(switches)
  /\ UNCHANGED <<mode, memory, loaded, left>>

ExamineNext(o) ==
  /\ Does(o, "EXAMINE_NEXT") /\ Goes(o, "show")
  /\ bus' = After(bus) /\ outdated' = TRUE
  /\ UNCHANGED <<mode, pc, memory, loaded, left>>

Deposit(o) ==
  /\ Does(o, "DEPOSIT") /\ Goes(o, "clear")
  /\ memory' = [memory EXCEPT ![bus] = Low(switches)]
  /\ outdated' = TRUE
  /\ UNCHANGED <<mode, pc, bus, loaded, left>>

\* Variant of DepositNext: the byte comes before the address.
DepositNextEarly(o) ==
  /\ Does(o, "DEPOSIT_NEXT") /\ Goes(o, "show")
  /\ bus' = After(bus)
  /\ memory' = [memory EXCEPT ![bus] = Low(switches)]
  /\ outdated' = TRUE
  /\ UNCHANGED <<mode, pc, loaded, left>>

DepositNext(o) ==
  /\ Does(o, "DEPOSIT_NEXT") /\ Goes(o, "show")
  /\ bus' = After(bus)
  /\ memory' = [memory EXCEPT ![bus'] = Low(switches)]
  /\ outdated' = TRUE
  /\ UNCHANGED <<mode, pc, loaded, left>>

SingleStep(o) ==
  /\ Does(o, "SINGLE_STEP") /\ Goes(o, "show")
  /\ Cycle
  /\ UNCHANGED <<mode, loaded, left>>

\* disassemble starts and ends with an EXAMINE of the switches.
Disassemble(o) ==
  /\ Does(o, "DISASSEMBLE") /\ Goes(o, "list")
  /\ Examined(switches)
  /\ UNCHANGED <<mode, memory, loaded, left>>

\* It reads an instruction by walking the bus, and so does trace between two of its own.
Walk(o) ==
  /\ Does(o, "list") \/ (Does(o, "trace") /\ left[o] < TraceLength)
  /\ bus' = After(bus) /\ outdated' = TRUE
  /\ UNCHANGED <<mode, pc, memory, step, loaded, left>>

ListEnds(o) ==
  /\ Does(o, "list") /\ Goes(o, "show")
  /\ Examined(switches)
  /\ UNCHANGED <<mode, memory, loaded, left>>

Trace(o) ==
  /\ Does(o, "TRACE") /\ Goes(o, "trace")
  /\ Examined(switches)
  /\ left' = [left EXCEPT ![o] = TraceLength]
  /\ UNCHANGED <<mode, memory, loaded>>

TraceCycle(o) ==
  /\ Does(o, "trace") /\ left[o] > 0
  /\ left' = [left EXCEPT ![o] = @ - 1]
  /\ Goes(o, IF left[o] = 1 THEN "show" ELSE "trace")
  /\ Cycle
  /\ UNCHANGED <<mode, loaded>>

\* RESET, or BASIC from its ROM: the memory, which stays empty without the image, the
\* counter, and at last the mode.
Load(o, c, image, at) ==
  /\ Does(o, c) /\ Goes(o, "jump")
  /\ memory' \in {image, Empty}
  /\ loaded' = [loaded EXCEPT ![o] = at]
  /\ UNCHANGED <<mode, pc, bus, outdated, left>>

Jump(o) ==
  /\ Does(o, "jump") /\ Goes(o, "start")
  /\ Examined(loaded[o])
  /\ loaded' = [loaded EXCEPT ![o] = 0]
  /\ UNCHANGED <<mode, memory, left>>

StartCpu(o) ==
  /\ Does(o, "start") /\ Goes(o, "clear")
  /\ mode' = "RUNNING"
  /\ UNCHANGED <<pc, bus, memory, outdated, loaded, left>>

\* STOP examines the counter it loads: a burst that still runs is taken back.
Counter(o) ==
  /\ Does(o, "counter") /\ Goes(o, "back")
  /\ loaded' = [loaded EXCEPT ![o] = pc]
  /\ UNCHANGED <<machine, outdated, left>>

Back(o) ==
  /\ Does(o, "back") /\ Goes(o, "show")
  /\ Examined(loaded[o])
  /\ loaded' = [loaded EXCEPT ![o] = 0]
  /\ UNCHANGED <<mode, memory, left>>

\* What a command does to the machine.
Handle(o) ==
  /\ \/ Examine(o) \/ ExamineNext(o) \/ Deposit(o) \/ DepositNext(o) \/ SingleStep(o)
     \/ Disassemble(o) \/ Walk(o) \/ ListEnds(o) \/ Trace(o) \/ TraceCycle(o)
     \/ Load(o, "RESET", Rom, Boot) \/ Load(o, "LOAD_ALTAIR_BASIC", Basic, 0)
     \/ Jump(o) \/ StartCpu(o) \/ Counter(o) \/ Back(o)
  /\ Intrudes(o)
  /\ UNCHANGED <<start, lever, seen, presses, switches, command, deferred, taken>>

\* After the command was published, its address goes to the switches.
Show(o) ==
  /\ Does(o, "show") /\ Goes(o, "clear")
  /\ switches' = bus
  /\ Intrudes(o)
  /\ UNCHANGED <<start, machine, panel, command, deferred, loaded, left, taken>>

\* The command is cleared, also one that another operator gave meanwhile.
Clear(o) ==
  /\ Does(o, "clear") /\ Goes(o, "ready")
  /\ command' = NOP
  /\ Interfered(o)
  /\ UNCHANGED <<start, machine, panel, switches, deferred, loaded, left, taken>>

Process(o) == Check(o) \/ Switch(o) \/ Defer(o) \/ Select(o) \/ Handle(o) \/ Show(o) \/ Clear(o)

-----------------------------------------------------------------------------
MainThread == InitPanel \/ InitAltair \/ Create \/ Wait \/ Serve
CpuThread == Signal \/ BurstStarts \/ BurstCycle \/ BurstEnds
User ==
  \/ Connects \/ Disconnects \/ Toggle
  \/ \E a \in Address : Type(a)
  \/ \E c \in Commands : Give(c)
  \/ \E l \in {NOP} \union Levers : Move(l)

Next ==
  \/ MainThread \/ End \/ CpuThread \/ User \/ Look \/ Take
  \/ \E o \in Operators : Process(o)

\* The threads of the start are scheduled.
StartFairness == WF_vars(MainThread) /\ WF_vars(Signal)
Spec == Init /\ [][Next]_vars /\ StartFairness

-----------------------------------------------------------------------------
(* Properties *)

TypeOK ==
  /\ main \in {"panel", "altair", "create", "wait", "asleep", "woken", "loop", "ended"}
  /\ locked \in {"nobody", "main"} /\ thread \in {"none", "signal", "failed", "loop", "burst"}
  /\ mode \in {"RUNNING", "STOPPED", "LOW_POWER"}
  /\ pc \in Address /\ bus \in Address /\ memory \in [Address -> Byte]
  /\ switches \in Address /\ {command, deferred} \subseteq {NOP} \union Levers \union Commands
  /\ step \in [Operators -> Stages]
  /\ loaded \in [Operators -> Address] /\ left \in [Operators -> 0..TraceLength]
  /\ {lever, seen} \subseteq {NOP} \union Levers /\ outdated \in BOOLEAN
  /\ presses \in 0..MaxPresses /\ taken \in 0..MaxPresses

\* A program that is entered with EXAMINE, DEPOSIT and the NEXT commands is in memory, byte
\* after byte from where it was examined, and the CPU will start with its first: each command
\* did what the session asked for, also over ctrl-M and while the panel's thread has the same
\* command word, unless an instruction ran or that thread came between.
ProgramEntered ==
  entered.valid /\ ~Commanding =>
    /\ pc = entered.at
    /\ \A a \in Address : entered.cells[a] # None => memory[a] = entered.cells[a]

\* A lever that is held is one command, although the command itself changes the display
\* and has the panel looked at again.
PressOnce == taken <= presses

\* While the main thread sleeps in its condition wait, which has no predicate, the signal is
\* still to come, unless there is no thread to give it.
SignalNotMissed == main = "asleep" => thread \in {"signal", "failed"}

\* The main thread does not miss the CPU thread's signal: it gets to its event loop, if
\* there is a thread.
MainStarts == main = "create" ~> main = "loop" \/ thread = "failed"
=============================================================================
