---------------------------- MODULE MachineProofs ----------------------------
(***************************************************************************)
(* Proofs about the emulator's own threads.  About Machine, for every size *)
(* of the memory, every pair of ROM images and every set of commands: the  *)
(* state has its types, a held lever is one command, a program that was    *)
(* entered on the monitor is in memory, and the signal of the start is not *)
(* missed.  About Environment, for every length of the world's history and *)
(* of an answer: what is published and shown was known, and never goes     *)
(* back.                                                                   *)
(***************************************************************************)
EXTENDS Machine, Environment, TLAPS

LEMMA Arithmetic ==
  ASSUME NEW a \in Address
  PROVE  After(a) \in Address /\ Low(a) \in Byte /\ Low(a) \in Address
<1>1. Size \in Nat \ {0} /\ Width \in Nat \ {0} /\ Width <= Size
  BY MachineAssumption
<1>2. After(a) \in Address
  BY <1>1 DEF After, Address
<1>3. Low(a) \in 0..(Width - 1)
  BY <1>1 DEF Low, Address
<1> QED
  BY <1>1, <1>2, <1>3 DEF Address, Byte

LEMMA Constants ==
  /\ Boot \in Address /\ 0 \in Address /\ Byte \subseteq Address /\ 0 \in Byte
  /\ Rom \in [Address -> Byte] /\ Basic \in [Address -> Byte]
  /\ TraceLength \in Nat \ {0} /\ MaxPresses \in Nat
BY MachineAssumption DEF Address, Byte

\* What the presses bound: a command of the panel that was not run yet was a press of its
\* own, and so is a lever that was moved and not yet looked at.
Pending == IF step["panel"] \in {"check", "switch"} THEN 1 ELSE 0
Moved == IF lever # seen THEN 1 ELSE 0

Words == {NOP} \union Levers \union Commands

TypesStart ==
  /\ main \in {"panel", "altair", "create", "wait", "asleep", "woken", "loop", "ended"}
  /\ locked \in {"nobody", "main"} /\ thread \in {"none", "signal", "failed", "loop", "burst"}

TypesMachine ==
  /\ mode \in {"RUNNING", "STOPPED", "LOW_POWER"}
  /\ pc \in Address /\ bus \in Address /\ memory \in [Address -> Byte]

TypesControl ==
  /\ switches \in Address /\ command \in Words /\ deferred \in Words
  /\ step \in [Operators -> Stages]
  /\ loaded \in [Operators -> Address] /\ left \in [Operators -> 0..TraceLength]

TypesPanel ==
  /\ lever \in {NOP} \union Levers /\ seen \in {NOP} \union Levers /\ outdated \in BOOLEAN
  /\ presses \in 0..MaxPresses /\ taken \in Nat

\* What no case of a command touches.
LEMMA HandleFrame ==
  ASSUME NEW o \in Operators, Handle(o)
  PROVE  /\ UNCHANGED <<start, lever, seen, presses, switches, command, deferred, taken>>
         /\ main = "loop" /\ Intrudes(o)
         /\ outdated' \in {outdated, TRUE} /\ mode' \in {mode, "RUNNING"}
BY DEF Handle, Examine, ExamineNext, Deposit, DepositNext, SingleStep, Cycle, Disassemble, Walk,
       ListEnds, Trace, TraceCycle, Load, Jump, StartCpu, Counter, Back, Examined, Does, machine

LEMMA ProcessFrame ==
  ASSUME NEW o \in Operators, Process(o)
  PROVE  UNCHANGED <<start, lever, seen, presses>> /\ outdated' \in {outdated, TRUE}
<1>1. CASE Handle(o)
  BY <1>1, HandleFrame
<1> QED
  BY <1>1 DEF Process, Check, Switch, Defer, Select, Show, Clear, panel, machine

LEMMA StepStart ==
  ASSUME TypesStart, [Next]_vars
  PROVE  TypesStart'
<1>1. CASE UNCHANGED start
  BY <1>1 DEF TypesStart, start
<1>2. CASE MainThread \/ End \/ CpuThread
  BY <1>2 DEF MainThread, InitPanel, InitAltair, Create, Wait, Serve, End, CpuThread, Signal,
              BurstStarts, BurstCycle, BurstEnds, TypesStart, start
<1>3. ASSUME User \/ Look \/ Take \/ \E o \in Operators : Process(o)
      PROVE  UNCHANGED start
  BY <1>3, ProcessFrame DEF User, Connects, Disconnects, Toggle, ToggleLoad, ToggleStore,
     ToggleShow, Type, Give, Move, Look, Take
<1> QED
  BY <1>1, <1>2, <1>3 DEF Next, vars, start

\* Until there is the thread, the lock is free, and it is held until the main thread sleeps.
Starting ==
  /\ main \in {"panel", "altair", "create"} => thread = "none"
  /\ main = "wait" => locked = "main"
  /\ main \in {"wait", "asleep"} => thread \in {"signal", "failed"}

LEMMA SameStart == ASSUME UNCHANGED start, Starting PROVE Starting'
  BY DEF Starting, start

LEMMA StepStarting ==
  ASSUME Starting, [Next]_vars
  PROVE  Starting'
<1>1. CASE UNCHANGED vars
  BY <1>1, SameStart DEF vars, start
<1>2. CASE MainThread
  BY <1>2 DEF MainThread, InitPanel, InitAltair, Create, Wait, Serve, Starting
<1>3. CASE End
  BY <1>3 DEF End, Starting
<1>4. CASE Signal
  BY <1>4 DEF Signal, Starting
<1>5. CASE BurstStarts \/ BurstCycle \/ BurstEnds
  BY <1>5 DEF BurstStarts, BurstCycle, BurstEnds, Starting, start
<1>6. CASE User \/ Look \/ Take \/ \E o \in Operators : Process(o)
  <2>1. UNCHANGED start
    BY <1>6, ProcessFrame DEF User, Connects, Disconnects, Toggle, ToggleLoad, ToggleStore,
       ToggleShow, Type, Give, Move, Look, Take
  <2> QED
    BY <2>1, SameStart
<1> QED
  BY <1>1, <1>2, <1>3, <1>4, <1>5, <1>6 DEF Next, CpuThread

LEMMA CycleMachine ==
  ASSUME TypesMachine, Cycle, mode' = mode
  PROVE  TypesMachine'
<1>1. pc' \in Address /\ bus' \in Address
  BY DEF Cycle, TypesMachine
<1>2. memory' \in [Address -> Byte]
  BY <1>1 DEF Cycle, TypesMachine
<1> QED
  BY <1>1, <1>2 DEF TypesMachine

\* What a command does to the machine and to the operators' own variables.
LEMMA HandleTypes ==
  ASSUME TypesMachine, TypesControl, NEW o \in Operators, Handle(o)
  PROVE  TypesMachine' /\ TypesControl'
<1> USE DEF Goes
<1> DEFINE Own == /\ step' \in [Operators -> Stages] /\ loaded' \in [Operators -> Address]
                  /\ left' \in [Operators -> 0..TraceLength]
<1>1. SUFFICES TypesMachine' /\ Own
  BY HandleFrame DEF TypesControl
<1>2. step \in [Operators -> Stages] /\ loaded \in [Operators -> Address]
      /\ left \in [Operators -> 0..TraceLength] /\ switches \in Address
  BY DEF TypesControl
<1>3. CASE Examine(o) \/ Disassemble(o) \/ ListEnds(o)
  BY <1>2, <1>3 DEF Examine, Disassemble, ListEnds, Examined, TypesMachine, Stages
<1>4. CASE ExamineNext(o) \/ Walk(o)
  <2>1. After(bus) \in Address
    BY Arithmetic DEF TypesMachine
  <2> QED
    BY <1>2, <1>4, <2>1 DEF ExamineNext, Walk, TypesMachine, Stages
<1>5. CASE Deposit(o) \/ DepositNext(o)
  <2>1. After(bus) \in Address /\ Low(switches) \in Byte
    BY <1>2, Arithmetic DEF TypesMachine
  <2> QED
    BY <1>2, <1>5, <2>1 DEF Deposit, DepositNext, TypesMachine, Stages
<1>6. CASE SingleStep(o)
  BY <1>2, <1>6, CycleMachine DEF SingleStep, Stages
<1>7. CASE Trace(o)
  BY <1>2, <1>7, Constants DEF Trace, Examined, TypesMachine, Stages
<1>8. CASE TraceCycle(o)
  <2>1. TypesMachine'
    BY <1>8, CycleMachine DEF TraceCycle
  <2>2. left' \in [Operators -> 0..TraceLength]
    BY <1>2, <1>8, Constants DEF TraceCycle
  <2> QED
    BY <1>2, <1>8, <2>1, <2>2 DEF TraceCycle, Stages
<1>9. CASE Load(o, "RESET", Rom, Boot) \/ Load(o, "LOAD_ALTAIR_BASIC", Basic, 0)
  BY <1>2, <1>9, Constants DEF Load, Empty, TypesMachine, Stages
<1>10. CASE Jump(o) \/ Back(o)
  BY <1>2, <1>10, Constants DEF Jump, Back, Examined, TypesMachine, Stages
<1>11. CASE StartCpu(o) \/ Counter(o)
  BY <1>2, <1>11 DEF StartCpu, Counter, machine, TypesMachine, Stages
<1> QED
  BY <1>3, <1>4, <1>5, <1>6, <1>7, <1>8, <1>9, <1>10, <1>11 DEF Handle

LEMMA ProcessTypes ==
  ASSUME TypesMachine, TypesControl, NEW o \in Operators, Process(o)
  PROVE  TypesMachine' /\ TypesControl'
<1> USE DEF Goes
<1>1. CASE Check(o) \/ Switch(o) \/ Defer(o) \/ Clear(o)
  BY <1>1 DEF Check, Switch, Defer, Clear, machine, TypesMachine, TypesControl, Stages, Words
<1>2. CASE Select(o) \/ Show(o)
  BY <1>2 DEF Select, Show, machine, TypesMachine, TypesControl, Stages
<1> QED
  BY <1>1, <1>2, HandleTypes DEF Process

LEMMA StepTypes ==
  ASSUME TypesMachine, TypesControl, TypesPanel, [Next]_vars
  PROVE  TypesMachine' /\ TypesControl'
<1>1. CASE UNCHANGED vars
  BY <1>1 DEF vars, machine, control, TypesMachine, TypesControl
<1>2. CASE InitPanel
  <2>1. command' \in {command, lever} /\ switches' \in Address \union {switches}
        /\ step' \in {step, [step EXCEPT !["panel"] = "ready"]}
    BY <1>2 DEF InitPanel
  <2> QED
    BY <1>2, <2>1 DEF InitPanel, machine, TypesMachine, TypesControl, TypesPanel, Stages, Operators,
                      Words
<1>3. CASE InitAltair
  BY <1>3, Constants DEF InitAltair, control, TypesMachine, TypesControl
<1>4. CASE Create \/ Wait \/ Serve \/ End \/ Signal \/ BurstStarts \/ BurstEnds
  BY <1>4 DEF Create, Wait, Serve, End, Signal, BurstStarts, BurstEnds, machine, control,
              TypesMachine, TypesControl
<1>5. CASE BurstCycle
  <2>1. TypesMachine'
    BY <1>5, CycleMachine DEF BurstCycle
  <2> QED
    BY <1>5, <2>1 DEF BurstCycle, control, TypesControl
<1>6. CASE User
  <2>1. CASE Connects \/ Disconnects \/ Toggle
    BY <2>1 DEF Connects, Disconnects, Toggle, ToggleLoad, ToggleStore, ToggleShow, Moves, machine,
                TypesMachine, TypesControl, Stages, Operators
  <2>2. CASE \E a \in Address : Type(a)
    BY <2>2 DEF Type, machine, TypesMachine, TypesControl
  <2>3. CASE \E c \in Commands : Give(c)
    BY <2>3 DEF Give, Moves, machine, TypesMachine, TypesControl, Stages, Operators, Words
  <2>4. CASE \E l \in {NOP} \union Levers : Move(l)
    BY <2>4 DEF Move, machine, control, TypesMachine, TypesControl
  <2> QED
    BY <1>6, <2>1, <2>2, <2>3, <2>4 DEF User
<1>7. CASE Look \/ Take
  <2>1. switches' \in Address /\ command' \in {command, lever} /\ deferred' = deferred
        /\ UNCHANGED <<machine, loaded, left>>
        /\ step' \in {[step EXCEPT !["panel"] = a] : a \in {"take", "check", "ready"}}
    BY <1>7 DEF Look, Take, TypesControl
  <2> QED
    BY <2>1 DEF machine, TypesMachine, TypesControl, TypesPanel, Stages, Operators, Words
<1>8. CASE \E o \in Operators : Process(o)
  BY <1>8, ProcessTypes
<1> QED
  BY <1>1, <1>2, <1>3, <1>4, <1>5, <1>6, <1>7, <1>8 DEF Next, MainThread, CpuThread

-----------------------------------------------------------------------------
(* The panel's lever *)

Pressed == taken + Pending + Moved <= presses

LEMMA SamePressed ==
  ASSUME TypesPanel, Pressed, UNCHANGED <<lever, seen, presses, taken>>, outdated' \in BOOLEAN,
         step'["panel"] \in {"check", "switch"} => step["panel"] \in {"check", "switch"}
  PROVE  TypesPanel' /\ Pressed'
<1>1. /\ \/ Pending = 0 /\ Pending' = 0
         \/ Pending = 1 /\ (Pending' = 0 \/ Pending' = 1)
      /\ Moved \in 0..1 /\ Moved' = Moved
  BY DEF Pending, Moved
<1>2. taken \in Nat /\ presses \in Nat /\ taken + Pending + Moved <= presses
      /\ taken' = taken /\ presses' = presses
  BY Constants DEF TypesPanel, Pressed
<1>3. taken' + Pending' + Moved' <= presses'
  BY <1>1, <1>2
<1> QED
  BY <1>3 DEF TypesPanel, Pressed

LEMMA TakePressed ==
  ASSUME TypesControl, TypesPanel, Pressed, Take
  PROVE  TypesPanel' /\ Pressed'
<1>1. UNCHANGED <<lever, outdated, presses, taken>> /\ step["panel"] = "take"
  BY DEF Take
<1>2. CASE lever = seen
  BY <1>1, <1>2, SamePressed DEF Take, TypesControl, TypesPanel, Operators
<1>3. CASE lever # seen
  <2>1. seen' = lever /\ step'["panel"] \in {"check", "ready"}
    BY <1>3 DEF Take, TypesControl, Operators
  <2>2. Pending = 0 /\ Moved = 1 /\ (Pending' = 0 \/ Pending' = 1) /\ Moved' = 0
    BY <1>1, <1>3, <2>1 DEF Pending, Moved
  <2>3. taken \in Nat /\ presses \in Nat /\ taken + Pending + Moved <= presses
    BY Constants DEF TypesPanel, Pressed
  <2>4. taken' + Pending' + Moved' <= presses'
    BY <1>1, <2>2, <2>3
  <2> QED
    BY <1>1, <2>1, <2>4 DEF TypesPanel, Pressed
<1> QED
  BY <1>2, <1>3

LEMMA SwitchPressed ==
  ASSUME TypesControl, TypesPanel, Pressed, NEW o \in Operators, Switch(o)
  PROVE  TypesPanel' /\ Pressed'
<1>1. UNCHANGED <<lever, seen, outdated, presses>> /\ step[o] = "switch"
      /\ taken' = IF o = "panel" THEN taken + 1 ELSE taken
  BY DEF Switch, Does, panel
<1>2. step' \in {[step EXCEPT ![o] = "clear"], [step EXCEPT ![o] = "counter"],
                 [step EXCEPT ![o] = "defer"]}
  BY DEF Switch, Goes
<1>3. CASE o # "panel"
  <2>1. step'["panel"] = step["panel"]
    BY <1>2, <1>3 DEF TypesControl, Operators
  <2> QED
    BY <1>1, <1>3, <2>1, SamePressed DEF TypesPanel
<1>4. CASE o = "panel"
  <2>1. step'["panel"] \in {"clear", "counter", "defer"}
    BY <1>2, <1>4 DEF TypesControl, Operators
  <2>2. Pending = 1 /\ Pending' = 0 /\ Moved \in 0..1 /\ Moved' = Moved
    BY <1>1, <1>4, <2>1 DEF Pending, Moved
  <2>3. taken \in Nat /\ presses \in Nat /\ taken + Pending + Moved <= presses
        /\ taken' = taken + 1 /\ presses' = presses
    BY <1>1, <1>4, Constants DEF TypesPanel, Pressed
  <2>4. taken' + Pending' + Moved' <= presses'
    BY <2>2, <2>3
  <2> QED
    BY <1>1, <2>3, <2>4 DEF TypesPanel, Pressed
<1> QED
  BY <1>3, <1>4

\* Only the panel's look at its lever starts a command of its own.
LEMMA ProcessPressed ==
  ASSUME TypesControl, TypesPanel, Pressed, NEW o \in Operators, Process(o)
  PROVE  TypesPanel' /\ Pressed'
<1> USE DEF Goes
<1>1. CASE Switch(o)
  BY <1>1, SwitchPressed
<1>2. CASE ~Switch(o)
  <2>1. UNCHANGED <<lever, seen, presses>> /\ outdated' \in BOOLEAN
    BY ProcessFrame DEF TypesPanel
  <2>2. taken' = taken
    BY <1>2, HandleFrame DEF Process, Check, Defer, Select, Show, Clear
  <2>3. step'["panel"] \in {"check", "switch"} => step["panel"] \in {"check", "switch"}
    <3>1. CASE Check(o) \/ Defer(o) \/ Show(o) \/ Clear(o)
      BY <3>1 DEF Check, Defer, Show, Clear, Does, TypesControl, Operators
    <3>2. CASE Select(o)
      BY <3>2 DEF Select, MonitorCommands, PanelCommands, TypesControl, Operators
    <3>3. CASE Handle(o)
      <4>1. \/ step' = step
            \/ \E a \in {"show", "clear", "list", "trace", "jump", "start", "back"} :
                 step' = [step EXCEPT ![o] = a]
        BY <3>3 DEF Handle, Examine, ExamineNext, Deposit, DepositNext, SingleStep, Disassemble,
           Walk, ListEnds, Trace, TraceCycle, Load, Jump, StartCpu, Counter, Back
      <4> QED
        BY <4>1 DEF TypesControl, Operators
    <3> QED
      BY <1>2, <3>1, <3>2, <3>3 DEF Process
  <2> QED
    BY <2>1, <2>2, <2>3, SamePressed
<1> QED
  BY <1>1, <1>2

LEMMA StepPanel ==
  ASSUME TypesControl, TypesPanel, Pressed, [Next]_vars
  PROVE  TypesPanel' /\ Pressed'
<1>1. CASE UNCHANGED <<panel, taken, step>>
  BY <1>1, SamePressed DEF panel, TypesPanel
<1>2. CASE InitPanel
  <2>1. CASE UNCHANGED <<seen, step>>
    BY <1>2, <2>1, SamePressed DEF InitPanel, TypesPanel
  <2>2. CASE seen' = lever /\ step' = [step EXCEPT !["panel"] = "ready"]
    <3>1. /\ Pending \in 0..1 /\ Pending' = 0 /\ Moved \in 0..1 /\ Moved' = 0
          /\ UNCHANGED <<taken, presses, lever, outdated>>
      BY <1>2, <2>2 DEF InitPanel, Pending, Moved, TypesControl, Operators
    <3>2. taken \in Nat /\ presses \in Nat /\ taken + Pending + Moved <= presses
      BY Constants DEF TypesPanel, Pressed
    <3>3. taken' + Pending' + Moved' <= presses'
      BY <3>1, <3>2
    <3> QED
      BY <2>2, <3>1, <3>3 DEF TypesPanel, Pressed
  <2> QED
    BY <1>2, <2>1, <2>2 DEF InitPanel
<1>3. CASE BurstCycle
  BY <1>3, SamePressed DEF BurstCycle, Cycle, control
<1>4. ASSUME NEW l \in {NOP} \union Levers, Move(l)
      PROVE  TypesPanel' /\ Pressed'
  <2>1. /\ lever' = l /\ presses' = presses + 1 /\ presses < MaxPresses
        /\ UNCHANGED <<seen, outdated, taken, step>>
    BY <1>4 DEF Move, control
  <2>2. /\ Pending \in 0..1 /\ Pending' = Pending
        /\ (Moved = 0 \/ Moved = 1) /\ (Moved' = 0 \/ Moved' = 1)
    BY <2>1 DEF Pending, Moved
  <2>3. taken \in Nat /\ presses \in 0..MaxPresses /\ taken + Pending + Moved <= presses
        /\ MaxPresses \in Nat
    BY Constants DEF TypesPanel, Pressed
  <2>4. taken' + Pending' + Moved' <= presses' /\ presses' \in 0..MaxPresses
    BY <2>1, <2>2, <2>3
  <2> QED
    BY <2>1, <2>4 DEF TypesPanel, Pressed
<1>5. CASE Look
  BY <1>5, SamePressed DEF Look, TypesControl, Operators
<1>6. CASE Connects \/ Disconnects \/ Toggle \/ \E c \in Commands : Give(c)
  <2>1. UNCHANGED <<panel, taken>> /\ \E a \in Stages : step' = [step EXCEPT !["session"] = a]
    BY <1>6 DEF Connects, Disconnects, Toggle, ToggleLoad, ToggleStore, ToggleShow, Give, Moves,
                Stages
  <2>2. step'["panel"] = step["panel"]
    BY <2>1 DEF TypesControl, Operators
  <2> QED
    BY <2>1, <2>2, SamePressed DEF panel, TypesPanel
<1>7. CASE \E a \in Address : Type(a)
  BY <1>1, <1>7 DEF Type
<1>8. CASE InitAltair \/ Create \/ Wait \/ Serve \/ End \/ Signal \/ BurstStarts \/ BurstEnds
  BY <1>1, <1>8 DEF InitAltair, Create, Wait, Serve, End, Signal, BurstStarts, BurstEnds, control
<1> QED
  BY <1>1, <1>2, <1>3, <1>4, <1>5, <1>6, <1>7, <1>8, TakePressed, ProcessPressed
     DEF Next, vars, control, MainThread, CpuThread, User

-----------------------------------------------------------------------------
(* What the session entered *)

TypesEntered ==
  entered \in [valid : BOOLEAN, at : Address, where : Address, input : Address \union {None},
               cells : [Address -> Byte \union {None}]]

\* Where the session is: it gives no command, its command is on its way to a case, or it is
\* one of the four that a program is entered with.
Stage == step["session"]
Calm == {"none", "ready", "run", "halt", "stopped"}
Early == {"check", "switch", "defer", "select"}
Entries == {"EXAMINE", "EXAMINE_NEXT", "DEPOSIT", "DEPOSIT_NEXT"}

InMemory(but) == \A a \in Address \ but : entered.cells[a] # None => memory[a] = entered.cells[a]
Steady == bus = entered.where /\ pc = entered.at /\ InMemory({})
Ahead == After(bus) = entered.where /\ pc = entered.at /\ entered.input = entered.where

\* What the machine and the switches must be for command c to do what was asked for.
Awaited(c) ==
  \/ /\ c = "EXAMINE" /\ switches = entered.at /\ entered.where = entered.at
     /\ entered.input = entered.at /\ entered.cells = [a \in Address |-> None]
  \/ c = "EXAMINE_NEXT" /\ Ahead /\ InMemory({})
  \/ /\ c = "DEPOSIT" /\ bus = entered.where /\ pc = entered.at /\ switches = entered.input
     /\ entered.cells[bus] = Low(switches) /\ InMemory({bus})
  \/ /\ c = "DEPOSIT_NEXT" /\ Ahead
     /\ entered.cells[After(bus)] = Low(switches) /\ InMemory({After(bus)})

\* The word that the case of the session's command is taken from.
Going == IF Stage \in {"check", "switch", "defer"} THEN command
         ELSE IF Stage = "select" THEN deferred ELSE Stage

Entering ==
  /\ main \notin {"loop", "ended"} => entered = Nothing
  /\ Stage \in Calm \union {"clear"} => /\ entered.input # None => switches = entered.input
                                        /\ entered.valid => Steady
  /\ entered.valid => /\ entered.input # None
                      /\ Stage \in Calm \union {"clear", "show"} \union Early \union Entries
  /\ ~entered.valid /\ Stage \notin Calm => entered.input = None
  /\ entered.valid /\ Stage = "show" => Steady /\ entered.input = bus
  /\ entered.valid /\ Stage = "check" => mode = "STOPPED"
  /\ entered.valid /\ Stage \in Early \union Entries => Awaited(Going)

LEMMA NothingFacts ==
  /\ Nothing \in [valid : BOOLEAN, at : Address, where : Address, input : Address \union {None},
                  cells : [Address -> Byte \union {None}]]
  /\ ~Nothing.valid /\ Nothing.input = None
BY Constants DEF Nothing

LEMMA NothingEntering ==
  ASSUME entered' = Nothing
  PROVE  TypesEntered' /\ Entering'
BY NothingFacts DEF TypesEntered, Entering

\* A session that entered nothing, or whose command is another one.
LEMMA BlankEntering ==
  ASSUME TypesEntered, UNCHANGED entered, ~entered.valid, entered.input = None, main' = "loop"
  PROVE  TypesEntered' /\ Entering'
BY DEF TypesEntered, Entering

\* Steps that leave what counts alone.
LEMMA SameEntering ==
  ASSUME TypesEntered, Entering, Stage' = Stage,
         UNCHANGED <<entered, switches, command, deferred, mode, pc, bus, memory>>,
         main' \notin {"loop", "ended"} => main \notin {"loop", "ended"}
  PROVE  TypesEntered' /\ Entering'
<1>1. Steady' = Steady /\ Ahead' = Ahead
  BY DEF Steady, Ahead, InMemory, After
<1>2. Going' = Going
  BY DEF Going
<1>3. \A c : Awaited(c)' = Awaited(c)
  BY <1>1 DEF Awaited, InMemory, Low, After
<1> QED
  BY <1>1, <1>2, <1>3 DEF TypesEntered, Entering

\* While the session gives no command, the command and the mode do not matter.
LEMMA CalmEntering ==
  ASSUME TypesEntered, Entering, Stage \in Calm, Stage' \in Calm,
         UNCHANGED <<entered, switches, pc, bus, memory>>, main' = "loop"
  PROVE  TypesEntered' /\ Entering'
<1>1. Steady' = Steady
  BY DEF Steady, InMemory
<1> QED
  BY <1>1 DEF TypesEntered, Entering, Calm, Early, Entries

LEMMA CommandingStage == Commanding <=> Stage \notin Calm
BY DEF Commanding, Stage, Calm

\* The panel shares the command word with the session.
LEMMA PanelEntering ==
  ASSUME TypesControl, TypesEntered, Entering, Take \/ Process("panel")
  PROVE  TypesEntered' /\ Entering'
<1>1. main' = "loop"
  BY HandleFrame DEF Take, Process, Check, Switch, Defer, Select, Show, Clear, Does, start, Operators
<1>2. CASE entered' = Nothing
  BY <1>2, NothingEntering
<1>3. CASE Handle("panel") \/ Show("panel")
  BY <1>2, <1>3, HandleFrame DEF Show, Intrudes, Operators
<1>4. ASSUME ~Handle("panel"), ~Show("panel")
      PROVE  Stage' = Stage
  BY <1>4 DEF Take, Process, Check, Switch, Defer, Select, Clear, Goes, Stage, TypesControl, Operators
<1>5. CASE Check("panel") \/ Select("panel")
  BY <1>1, <1>4, <1>5, SameEntering, <1>3 DEF Check, Select, machine
<1>6. ASSUME Take \/ Switch("panel") \/ Defer("panel") \/ Clear("panel"),
             ~Handle("panel"), ~Show("panel")
      PROVE  TypesEntered' /\ Entering'
  <2>1. UNCHANGED <<switches, pc, bus, memory>>
    BY <1>6 DEF Take, Switch, Defer, Clear, machine
  <2>2. \/ Interfered("panel")
        \/ UNCHANGED <<entered, command, deferred, mode>>
    BY <1>6 DEF Take, Switch, Defer, Clear, machine
  <2>3. CASE Commanding /\ Interfered("panel")
    BY <1>2, <2>3 DEF Interfered
  <2>4. CASE ~Commanding /\ Interfered("panel")
    BY <1>1, <1>4, <1>6, <2>1, <2>4, CalmEntering, CommandingStage DEF Interfered
  <2>5. CASE UNCHANGED <<entered, command, deferred, mode>>
    BY <1>1, <1>4, <1>6, <2>1, <2>5, SameEntering
  <2> QED
    BY <2>2, <2>3, <2>4, <2>5
<1> QED
  BY <1>3, <1>5, <1>6 DEF Process

\* What the session asks for is what its command will do.
LEMMA GiveEntering ==
  ASSUME TypesMachine, TypesControl, TypesEntered, Entering, NEW c \in Commands, Give(c)
  PROVE  TypesEntered' /\ Entering'
<1>1. /\ main = "loop" /\ main' = "loop" /\ Stage = "ready" /\ mode = "STOPPED"
      /\ UNCHANGED <<switches, mode, pc, bus, memory>> /\ Asks(c)
  BY DEF Give, Session, start, machine, Stage
<1>2. Stage' = "check" /\ command' = c
  BY DEF Give, Moves, Stage, TypesControl, Operators
<1>3. CASE entered' = Nothing
  BY <1>3, NothingEntering
<1>4. /\ entered.at \in Address /\ entered.where \in Address
      /\ entered.input \in Address \union {None} /\ After(entered.where) \in Address
      /\ entered.cells \in [Address -> Byte \union {None}]
      /\ DOMAIN entered = {"valid", "at", "where", "input", "cells"}
  BY Arithmetic DEF TypesEntered
<1>5. /\ entered.input # None => switches = entered.input
      /\ entered.valid => Steady /\ entered.input # None
  BY <1>1 DEF Entering, Calm
<1>6. ASSUME TypesEntered', entered'.valid, entered'.input # None, Awaited(c)'
      PROVE  TypesEntered' /\ Entering'
  BY <1>1, <1>2, <1>6 DEF Entering, Early, Calm, Going
<1>7. None \notin Address
  BY MachineAssumption
<1>8. CASE c = "EXAMINE" /\ entered.input # None
  <2>1. entered' = [Nothing EXCEPT !.valid = TRUE, !.at = entered.input, !.where = entered.input,
                                   !.input = entered.input]
    BY <1>1, <1>8 DEF Asks
  <2>2. /\ entered'.valid /\ entered'.at = entered.input /\ entered'.where = entered.input
        /\ entered'.input = entered.input /\ entered'.cells = [a \in Address |-> None]
    BY <2>1 DEF Nothing
  <2>3. TypesEntered'
    BY <1>4, <1>8, <2>1 DEF Nothing, TypesEntered
  <2>4. Awaited(c)'
    BY <1>1, <1>5, <1>8, <2>2 DEF Awaited
  <2> QED
    BY <1>6, <1>8, <2>2, <2>3, <2>4
<1>9. CASE c = "EXAMINE_NEXT" /\ entered.valid
  <2>1. entered' = [entered EXCEPT !.where = After(entered.where), !.input = After(entered.where)]
    BY <1>1, <1>9 DEF Asks
  <2>2. /\ entered'.valid /\ entered'.at = entered.at /\ entered'.where = After(entered.where)
        /\ entered'.input = After(entered.where) /\ entered'.cells = entered.cells
    BY <1>4, <1>9, <2>1
  <2>3. TypesEntered'
    BY <1>4, <2>1 DEF TypesEntered
  <2>4. Awaited(c)'
    BY <1>1, <1>5, <1>9, <2>2 DEF Awaited, Ahead, Steady, InMemory, After
  <2> QED
    BY <1>4, <1>6, <1>7, <2>2, <2>3, <2>4
<1>10. CASE c = "DEPOSIT" /\ entered.valid
  <2>1. entered' = [entered EXCEPT !.cells[entered.where] = Low(entered.input)]
    BY <1>1, <1>10 DEF Asks
  <2>2. entered.input \in Address /\ Low(entered.input) \in Byte
    BY <1>4, <1>5, <1>10, Arithmetic
  <2>3. /\ entered'.valid /\ entered'.at = entered.at /\ entered'.where = entered.where
        /\ entered'.input = entered.input
        /\ entered'.cells = [entered.cells EXCEPT ![entered.where] = Low(entered.input)]
    BY <1>4, <1>10, <2>1
  <2>4. TypesEntered'
    BY <1>4, <2>1, <2>2 DEF TypesEntered
  <2>5. Awaited(c)'
    BY <1>1, <1>4, <1>5, <1>10, <2>3 DEF Awaited, Steady, InMemory, Low
  <2> QED
    BY <1>5, <1>6, <1>10, <2>3, <2>4, <2>5
<1>11. CASE c = "DEPOSIT_NEXT" /\ entered.valid
  <2>1. entered' = [entered EXCEPT !.where = After(entered.where), !.input = After(entered.where),
                                   !.cells[After(entered.where)] = Low(entered.input)]
    BY <1>1, <1>11 DEF Asks
  <2>2. entered.input \in Address /\ Low(entered.input) \in Byte
    BY <1>4, <1>5, <1>11, Arithmetic
  <2>3. /\ entered'.valid /\ entered'.at = entered.at /\ entered'.where = After(entered.where)
        /\ entered'.input = After(entered.where)
        /\ entered'.cells = [entered.cells EXCEPT ![After(entered.where)] = Low(entered.input)]
    BY <1>4, <1>11, <2>1
  <2>4. TypesEntered'
    BY <1>4, <2>1, <2>2 DEF TypesEntered
  <2>5. Awaited(c)'
    BY <1>1, <1>4, <1>5, <1>11, <2>3 DEF Awaited, Ahead, Steady, InMemory, Low, After
  <2> QED
    BY <1>4, <1>6, <1>7, <2>3, <2>4, <2>5
<1> QED
  BY <1>1, <1>3, <1>8, <1>9, <1>10, <1>11 DEF Asks

\* The session's command on its way: the word that it is read from is still its own.
LEMMA WayEntering ==
  ASSUME TypesControl, TypesEntered, Entering,
         Check("session") \/ Switch("session") \/ Defer("session") \/ Select("session")
  PROVE  TypesEntered' /\ Entering'
<1>1. /\ main' = "loop" /\ Stage \in Early /\ UNCHANGED <<entered, switches, pc, bus, memory, command>>
  BY DEF Check, Switch, Defer, Select, Does, Stage, Early, Interfered, start, machine
<1>2. CASE ~entered.valid
  BY <1>1, <1>2, BlankEntering DEF Entering, Early, Calm
<1>3. CASE entered.valid
  <2>1. Awaited(Going) /\ entered.input # None /\ (Stage = "check" => mode = "STOPPED")
    BY <1>1, <1>3 DEF Entering, Early
  <2>2. Going \in Entries
    BY <2>1 DEF Awaited, Entries
  <2>3. Stage' \in Early \union Entries /\ Going' = Going
    <3>1. CASE Check("session")
      BY <2>1, <3>1 DEF Check, Does, Goes, Stage, Going, Early, TypesControl, Operators
    <3>2. CASE Switch("session")
      BY <2>2, <3>2 DEF Switch, Does, Goes, Stage, Going, Early, Entries, TypesControl, Operators
    <3>3. CASE Defer("session")
      BY <3>3 DEF Defer, Does, Goes, Stage, Going, Early, TypesControl, Operators
    <3>4. CASE Select("session")
      BY <2>2, <3>4 DEF Select, Does, Goes, Stage, Going, Entries, MonitorCommands, PanelCommands,
                        TypesControl, Operators
    <3> QED
      BY <3>1, <3>2, <3>3, <3>4
  <2>4. Stage' # "check"
    BY DEF Check, Switch, Defer, Select, Goes, Stage, TypesControl, Operators, MonitorCommands,
           PanelCommands
  <2>5. Awaited(Going)'
    <3>1. \A c : Awaited(c) => Awaited(c)'
      BY <1>1 DEF Awaited, Ahead, InMemory, Low, After
    <3> QED
      BY <2>1, <2>3, <3>1
  <2> QED
    BY <1>1, <1>3, <2>1, <2>3, <2>4, <2>5 DEF TypesEntered, Entering, Early, Entries, Calm
<1> QED
  BY <1>2, <1>3

LEMMA HandleEntering ==
  ASSUME TypesMachine, TypesControl, TypesEntered, Entering, Handle("session")
  PROVE  TypesEntered' /\ Entering'
<1>1. main' = "loop" /\ UNCHANGED <<entered, switches>>
  BY HandleFrame DEF Intrudes, start, Operators
<1>2. Stage \notin Calm \union Early \union {"clear", "show"}
  BY DEF Handle, Examine, ExamineNext, Deposit, DepositNext, SingleStep, Disassemble, Walk, ListEnds,
     Trace, TraceCycle, Load, Jump, StartCpu, Counter, Back, Does, Stage, Calm, Early
<1>3. CASE ~entered.valid
  BY <1>1, <1>2, <1>3, BlankEntering DEF Entering
<1>4. ASSUME entered.valid
      PROVE  TypesEntered' /\ Entering'
  <2>1. Stage \in Entries /\ Awaited(Stage) /\ entered.input # None
    BY <1>2, <1>4 DEF Entering, Going, Entries
  <2>2. /\ bus \in Address /\ memory \in [Address -> Byte] /\ After(bus) \in Address
        /\ entered.cells \in [Address -> Byte \union {None}]
    BY Arithmetic DEF TypesMachine, TypesEntered
  <2>3. ASSUME Stage' = "show", Steady', entered.input = bus'
        PROVE  TypesEntered' /\ Entering'
    BY <1>1, <1>4, <2>1, <2>3 DEF TypesEntered, Entering, Calm, Early, Entries
  <2>4. CASE Stage = "EXAMINE"
    <3>1. Examine("session")
      BY <2>4 DEF Handle, Examine, ExamineNext, Deposit, DepositNext, SingleStep, Disassemble, Walk,
         ListEnds, Trace, TraceCycle, Load, Jump, StartCpu, Counter, Back, Does, Stage
    <3>2. pc' = switches /\ bus' = switches /\ Stage' = "show"
      BY <3>1 DEF Examine, Examined, Goes, Stage, TypesControl, Operators
    <3>3. /\ switches = entered.at /\ entered.where = entered.at /\ entered.input = entered.at
          /\ entered.cells = [a \in Address |-> None]
      BY <2>1, <2>4 DEF Awaited
    <3> QED
      BY <1>1, <2>3, <3>2, <3>3 DEF Steady, InMemory
  <2>5. CASE Stage = "EXAMINE_NEXT"
    <3>1. ExamineNext("session")
      BY <2>5 DEF Handle, Examine, ExamineNext, Deposit, DepositNext, SingleStep, Disassemble, Walk,
         ListEnds, Trace, TraceCycle, Load, Jump, StartCpu, Counter, Back, Does, Stage
    <3>2. bus' = After(bus) /\ UNCHANGED <<pc, memory>> /\ Stage' = "show"
      BY <3>1 DEF ExamineNext, Goes, Stage, TypesControl, Operators
    <3>3. Ahead /\ InMemory({})
      BY <2>1, <2>5 DEF Awaited
    <3> QED
      BY <1>1, <2>3, <3>2, <3>3 DEF Ahead, Steady, InMemory
  <2>6. CASE Stage = "DEPOSIT"
    <3>1. Deposit("session")
      BY <2>6 DEF Handle, Examine, ExamineNext, Deposit, DepositNext, SingleStep, Disassemble, Walk,
         ListEnds, Trace, TraceCycle, Load, Jump, StartCpu, Counter, Back, Does, Stage
    <3>2. memory' = [memory EXCEPT ![bus] = Low(switches)] /\ UNCHANGED <<pc, bus>> /\ Stage' = "clear"
      BY <3>1 DEF Deposit, Goes, Stage, TypesControl, Operators
    <3>3. /\ bus = entered.where /\ pc = entered.at /\ switches = entered.input
          /\ entered.cells[bus] = Low(switches) /\ InMemory({bus})
      BY <2>1, <2>6 DEF Awaited
    <3>4. Steady'
      BY <1>1, <2>2, <3>2, <3>3 DEF Steady, InMemory
    <3> QED
      BY <1>1, <1>4, <2>1, <3>2, <3>3, <3>4 DEF TypesEntered, Entering, Calm, Early, Entries
  <2>7. CASE Stage = "DEPOSIT_NEXT"
    <3>1. DepositNext("session")
      BY <2>7 DEF Handle, Examine, ExamineNext, Deposit, DepositNext, SingleStep, Disassemble, Walk,
         ListEnds, Trace, TraceCycle, Load, Jump, StartCpu, Counter, Back, Does, Stage
    <3>2. /\ bus' = After(bus) /\ memory' = [memory EXCEPT ![After(bus)] = Low(switches)]
          /\ pc' = pc /\ Stage' = "show"
      BY <3>1 DEF DepositNext, Goes, Stage, TypesControl, Operators
    <3>3. Ahead /\ entered.cells[After(bus)] = Low(switches) /\ InMemory({After(bus)})
      BY <2>1, <2>7 DEF Awaited
    <3>4. Steady'
      BY <1>1, <2>2, <3>2, <3>3 DEF Ahead, Steady, InMemory
    <3> QED
      BY <2>3, <3>2, <3>3, <3>4 DEF Ahead
  <2> QED
    BY <2>1, <2>4, <2>5, <2>6, <2>7 DEF Entries
<1> QED
  BY <1>3, <1>4

LEMMA SessionEntering ==
  ASSUME TypesMachine, TypesControl, TypesEntered, Entering, Process("session")
  PROVE  TypesEntered' /\ Entering'
<1>1. CASE Show("session")
  <2>1. /\ main' = "loop" /\ Stage = "show" /\ Stage' = "clear" /\ switches' = bus
        /\ UNCHANGED <<entered, pc, bus, memory>>
    BY <1>1 DEF Show, Does, Goes, Intrudes, Stage, start, machine, TypesControl, Operators
  <2>2. CASE ~entered.valid
    BY <2>1, <2>2, BlankEntering DEF Entering, Calm
  <2>3. CASE entered.valid
    <3>1. Steady' /\ entered.input = bus /\ entered.input # None
      BY <2>1, <2>3 DEF Entering, Steady, InMemory
    <3> QED
      BY <2>1, <2>3, <3>1 DEF TypesEntered, Entering, Calm, Early, Entries
  <2> QED
    BY <2>2, <2>3
<1>2. CASE Clear("session")
  <2>1. /\ main' = "loop" /\ Stage = "clear" /\ Stage' = "ready"
        /\ UNCHANGED <<entered, switches, pc, bus, memory>>
    BY <1>2 DEF Clear, Does, Goes, Interfered, Stage, start, machine, TypesControl, Operators
  <2>2. Steady' = Steady
    BY <2>1 DEF Steady, InMemory
  <2> QED
    BY <2>1, <2>2 DEF TypesEntered, Entering, Calm, Early, Entries
<1> QED
  BY <1>1, <1>2, WayEntering, HandleEntering DEF Process

LEMMA StepEntering ==
  ASSUME TypesMachine, TypesControl, TypesEntered, Entering, [Next]_vars
  PROVE  TypesEntered' /\ Entering'
<1>1. CASE UNCHANGED vars
  BY <1>1, SameEntering DEF vars, start, machine, control, Stage
<1>2. CASE InitPanel \/ InitAltair
  <2>1. main \notin {"loop", "ended"} /\ entered' = entered
    BY <1>2 DEF InitPanel, InitAltair
  <2> QED
    BY <2>1, NothingEntering DEF Entering
<1>3. CASE Create \/ Wait \/ Serve \/ End \/ Signal \/ BurstStarts \/ BurstEnds
           \/ \E l \in {NOP} \union Levers : Move(l)
  <2>1. UNCHANGED <<entered, switches, command, deferred, step, mode, pc, bus, memory>>
    BY <1>3 DEF Create, Wait, Serve, End, Signal, BurstStarts, BurstEnds, Move, machine, control
  <2>2. main' \notin {"loop", "ended"} => main \notin {"loop", "ended"}
    BY <1>3 DEF Create, Wait, Serve, End, Signal, BurstStarts, BurstEnds, Move, start
  <2> QED
    BY <2>1, <2>2, SameEntering DEF Stage
<1>4. CASE BurstCycle \/ Look
  <2>1. CASE Disturbed
    BY <2>1, NothingEntering DEF Disturbed
  <2>2. CASE Look /\ UNCHANGED <<switches, step, entered>>
    <3>1. UNCHANGED <<entered, switches, command, deferred, step, mode, pc, bus, memory, main>>
      BY <2>2 DEF Look, start, machine
    <3> QED
      BY <3>1, SameEntering DEF Stage
  <2> QED
    BY <1>4, <2>1, <2>2 DEF BurstCycle, Look
<1>5. CASE Connects \/ Disconnects \/ ToggleLoad \/ ToggleStore
  <2>1. Stage \in Calm /\ Stage' \in Calm
    BY <1>5 DEF Connects, Disconnects, ToggleLoad, ToggleStore, Session, Moves, Stage, Calm,
       TypesControl, Operators
  <2>2. UNCHANGED <<entered, switches, pc, bus, memory>> /\ main' = "loop"
    BY <1>5 DEF Connects, Disconnects, ToggleLoad, ToggleStore, Session, start, machine
  <2> QED
    BY <2>1, <2>2, CalmEntering
<1>6. CASE ToggleShow
  <2>1. /\ main' = "loop" /\ Stage = "stopped" /\ Stage' = "ready" /\ switches' = bus
        /\ UNCHANGED <<pc, bus, memory>>
        /\ entered' = [entered EXCEPT !.input = IF entered.valid THEN entered.where ELSE None]
    BY <1>6 DEF ToggleShow, Session, Moves, Stage, start, machine, TypesControl, Operators
  <2>2. /\ entered'.input = IF entered.valid THEN entered.where ELSE None
        /\ entered'.valid = entered.valid /\ entered'.at = entered.at
        /\ entered'.where = entered.where /\ entered'.cells = entered.cells
        /\ TypesEntered' /\ entered.where # None
    BY <2>1, MachineAssumption DEF TypesEntered
  <2>3. entered.valid => Steady /\ Steady'
    BY <2>1, <2>2 DEF Entering, Calm, Steady, InMemory
  <2> QED
    BY <2>1, <2>2, <2>3 DEF Entering, Calm, Early, Entries, Steady
<1>7. ASSUME NEW a \in Address, Type(a)
      PROVE  TypesEntered' /\ Entering'
  <2>1. /\ main' = "loop" /\ Stage = "ready" /\ Stage' = "ready" /\ switches' = a
        /\ UNCHANGED <<pc, bus, memory>> /\ entered' = [entered EXCEPT !.input = a]
    BY <1>7 DEF Type, Session, Stage, start, machine
  <2>2. /\ entered'.input = a /\ entered'.valid = entered.valid /\ entered'.at = entered.at
        /\ entered'.where = entered.where /\ entered'.cells = entered.cells
        /\ TypesEntered' /\ a # None
    BY <2>1, MachineAssumption DEF TypesEntered
  <2>3. entered.valid => Steady'
    BY <2>1, <2>2 DEF Entering, Calm, Steady, InMemory
  <2> QED
    BY <2>1, <2>2, <2>3 DEF Entering, Calm, Early, Entries
<1>8. CASE \E o \in Operators : Process(o)
  BY <1>8, PanelEntering, SessionEntering DEF Operators
<1> QED
  BY <1>1, <1>2, <1>3, <1>4, <1>5, <1>6, <1>7, <1>8, GiveEntering, PanelEntering
     DEF Next, MainThread, CpuThread, User, Toggle

-----------------------------------------------------------------------------
IInv ==
  /\ TypesStart /\ TypesMachine /\ TypesControl /\ TypesPanel
  /\ Pressed /\ TypesEntered /\ Entering

LEMMA InitIInv == Init => IInv
<1> SUFFICES ASSUME Init
             PROVE  IInv
  OBVIOUS
<1>1. TypesStart /\ TypesMachine /\ TypesControl /\ TypesPanel
  BY Constants DEF Init, Empty, TypesStart, TypesMachine, TypesControl, TypesPanel, Stages, Words
<1>2. Pressed
  BY DEF Init, Pressed, Pending, Moved, Operators
<1>3. TypesEntered /\ Entering
  BY NothingFacts DEF Init, TypesEntered, Entering
<1> QED
  BY <1>1, <1>2, <1>3 DEF IInv

LEMMA StepIInv == IInv /\ [Next]_vars => IInv'
  BY StepStart, StepTypes, StepPanel, StepEntering DEF IInv

\* Every variable has its type, and the panel runs no more commands than there were presses.
THEOREM TypeCorrect == Spec => []TypeOK
<1>1. ASSUME IInv
      PROVE  TypeOK
  <2>1. taken \in 0..MaxPresses
    BY <1>1, Constants DEF IInv, TypesPanel, Pressed, Pending, Moved
  <2> QED
    BY <1>1, <2>1 DEF IInv, TypesStart, TypesMachine, TypesControl, TypesPanel, Words, TypeOK
<1> QED
  BY <1>1, InitIInv, StepIInv, PTL DEF Spec

\* A lever that is held is one command, however often the panel is looked at.
THEOREM Presses == Spec => []PressOnce
<1>1. ASSUME IInv
      PROVE  PressOnce
  BY <1>1 DEF IInv, TypesPanel, Pressed, Pending, Moved, PressOnce
<1> QED
  BY <1>1, InitIInv, StepIInv, PTL DEF Spec

\* What the session entered with EXAMINE and DEPOSIT is in memory, and will be run: whatever
\* the CPU and the panel's thread did between, unless the session was disturbed.
THEOREM Entered == Spec => []ProgramEntered
<1>1. IInv => ProgramEntered
  BY CommandingStage DEF IInv, Entering, Steady, InMemory, ProgramEntered
<1> QED
  BY <1>1, InitIInv, StepIInv, PTL DEF Spec

\* The signal of the CPU thread cannot come before the main thread sleeps: the lock is held
\* from before the thread is created until it does.
THEOREM NoMissedSignal == Spec => []SignalNotMissed
<1>1. Init => Starting
  BY DEF Init, Starting
<1>2. Starting => SignalNotMissed
  BY DEF Starting, SignalNotMissed
<1> QED
  BY <1>1, <1>2, StepStarting, PTL DEF Spec

-----------------------------------------------------------------------------
(* Environment                                                             *)
OutsideType == /\ network \in BOOLEAN /\ broker \in BOOLEAN
               /\ service \in Services /\ world \in 0..MaxWorld
FlagType == /\ located \in BOOLEAN /\ initialized \in BOOLEAN /\ cached \in BOOLEAN
            /\ expiry \in BOOLEAN /\ valid \in BOOLEAN /\ at \in Places
            /\ connected \in BOOLEAN /\ reporting \in BOOLEAN /\ emptied \in BOOLEAN
Measured == [data : Data, updated : BOOLEAN]
MeasuredType == /\ weather \in Measured /\ pollution \in Measured
                /\ message \in {Silence} \cup Data
PortType == /\ request \in [text : {Silence} \cup Data, count : 0..TextLength]
            /\ heard \in Seq(Data \X (1..TextLength))

TypeGroups == OutsideType /\ FlagType /\ MeasuredType /\ PortType

LEMMA TypeParts == EnvTypeOK <=> TypeGroups
  BY DEF EnvTypeOK, TypeGroups, OutsideType, FlagType, MeasuredType, PortType, Measured

(* What the data of a measurement can be. *)
LEMMA DataFacts ==
  /\ Blank \in Data /\ Fake \in Data /\ Silence \notin Data
  /\ 0..MaxWorld \subseteq Data /\ Data \subseteq Int
  BY EnvironmentAssumption DEF Data, Blank, Fake, Silence

LEMMA InitType == ASSUME EnvInit PROVE TypeGroups
<1>1. OutsideType
  BY EnvironmentAssumption DEF EnvInit, OutsideType
<1>2. FlagType
  BY DEF EnvInit, FlagType, Places
<1>3. MeasuredType
  BY DataFacts DEF EnvInit, MeasuredType, Measured
<1>4. PortType
  BY EnvironmentAssumption DEF EnvInit, PortType
<1> QED BY <1>1, <1>2, <1>3, <1>4 DEF TypeGroups

(* The bytes that a program reads from the request unit, and what it asks. *)
LEMMA PortStep ==
  ASSUME PortType, MeasuredType, Cpu PROVE PortType'
<1>1. ASSUME NEW text \in {Silence} \cup Data, Ask(text) PROVE PortType'
  BY <1>1, EnvironmentAssumption DEF Ask, PortType
<1>2. CASE RequestIn
  <2>1. request.text \in Data /\ request.count + 1 \in 1..TextLength
    BY <1>2, EnvironmentAssumption DEF RequestIn, PortType
  <2>2. request' \in [text : {Silence} \cup Data, count : 0..TextLength]
    BY <1>2, <2>1, EnvironmentAssumption DEF RequestIn, PortType
  <2>3. heard' \in Seq(Data \X (1..TextLength))
    BY <1>2, <2>1 DEF RequestIn, PortType
  <2> QED BY <2>2, <2>3 DEF PortType
<1>3. Known(weather) \in {Silence} \cup Data /\ Known(pollution) \in {Silence} \cup Data
  BY DEF MeasuredType, Measured, Known
<1> QED BY <1>1, <1>2, <1>3 DEF Cpu, WeatherOut, OtherOut

LEMMA FetchStep ==
  ASSUME OutsideType, MeasuredType, Fetch PROVE MeasuredType'
<1> USE DataFacts DEF OutsideType, MeasuredType, Measured
<1>1. CASE FetchWeather
  <2>1. \/ weather' = weather
        \/ weather' = [weather EXCEPT !.data = Fake]
        \/ weather' = [weather EXCEPT !.data = world]
    BY <1>1 DEF FetchWeather, MakeUp
  <2> QED BY <1>1, <2>1 DEF FetchWeather, mqttVars
<1>2. CASE MarkWeather
  BY <1>2 DEF MarkWeather, mqttVars
<1>3. CASE FetchPollution
  <2>1. pollution' = pollution \/ pollution' = [pollution EXCEPT !.data = world]
    BY <1>3 DEF FetchPollution
  <2> QED BY <1>3, <2>1 DEF FetchPollution, mqttVars
<1>4. CASE MarkPollution
  BY <1>4 DEF MarkPollution, mqttVars
<1>5. CASE Cache
  BY <1>5 DEF Cache, mqttVars
<1>6. CASE Publish
  BY <1>6 DEF Publish
<1> QED BY <1>1, <1>2, <1>3, <1>4, <1>5, <1>6 DEF Fetch

LEMMA FetchFlags ==
  ASSUME OutsideType, FlagType, MeasuredType, Fetch PROVE FlagType'
<1> USE DEF FlagType, Places
<1>1. CASE FetchWeather
  <2>1. at' \in {"mark", "pollution"} /\ emptied' \in BOOLEAN
    BY <1>1 DEF FetchWeather, MakeUp
  <2> QED BY <1>1, <2>1 DEF FetchWeather, mqttVars
<1>2. CASE MarkWeather
  BY <1>2 DEF MarkWeather, mqttVars
<1>3. CASE FetchPollution
  <2>1. at' \in {"cache", "markPollution"} /\ emptied' \in BOOLEAN
    BY <1>3 DEF FetchPollution
  <2> QED BY <1>3, <2>1 DEF FetchPollution, mqttVars
<1>4. CASE MarkPollution
  BY <1>4 DEF MarkPollution, mqttVars
<1>5. CASE Cache
  <2>1. cached' \in BOOLEAN /\ expiry' \in BOOLEAN
    BY <1>5 DEF Cache, MeasuredType, Measured
  <2> QED BY <1>5, <2>1 DEF Cache, mqttVars
<1>6. CASE Publish
  <2>1. valid' \in BOOLEAN
    BY <1>6 DEF Publish, MeasuredType, Measured
  <2> QED BY <1>6, <2>1 DEF Publish
<1> QED BY <1>1, <1>2, <1>3, <1>4, <1>5, <1>6 DEF Fetch

LEMMA StepType == ASSUME TypeGroups, [EnvNext]_envVars PROVE TypeGroups'
<1>0. OutsideType /\ FlagType /\ MeasuredType /\ PortType
  BY DEF TypeGroups
<1>1. OutsideType'
  <2>1. UNCHANGED outside \/ WorldChanges
    BY DEF EnvNext, envVars, Start, Fetch, Handlers, Cpu, Locate, Connect, FetchWeather, MarkWeather,
       FetchPollution, MarkPollution, Cache, Publish, UpdateEnvironment, WeatherCacheExpired,
       Report, WeatherOut, OtherOut, Ask, RequestIn, ConnectionLost
  <2>2. CASE UNCHANGED outside
    BY <1>0, <2>2 DEF OutsideType, outside
  <2>3. CASE WorldChanges
    <3>1. network' \in BOOLEAN /\ broker' \in BOOLEAN /\ service' \in Services
      BY <1>0, <2>3 DEF OutsideType, WorldChanges
    <3>2. world' = world \/ (world < MaxWorld /\ world' = world + 1)
      BY <2>3 DEF WorldChanges
    <3>3. world' \in 0..MaxWorld
      BY <1>0, <3>2, EnvironmentAssumption DEF OutsideType
    <3> QED BY <3>1, <3>3 DEF OutsideType
  <2> QED BY <2>1, <2>2, <2>3
<1>2. CASE Fetch
  <2>1. UNCHANGED <<request, heard>>
    BY <1>2 DEF Fetch, FetchWeather, MarkWeather, FetchPollution, MarkPollution,
       Cache, Publish, portVars
  <2>2. PortType'
    BY <1>0, <2>1 DEF PortType
  <2> QED BY <1>0, <1>1, <1>2, <2>2, FetchStep, FetchFlags DEF TypeGroups
<1>3. CASE Cpu
  <2>1. UNCHANGED <<located, weatherVars, at, mqttVars>>
    <3>1. ASSUME NEW text, Ask(text) PROVE UNCHANGED <<located, weatherVars, at, mqttVars>>
      BY <3>1 DEF Ask
    <3>2. ASSUME RequestIn PROVE UNCHANGED <<located, weatherVars, at, mqttVars>>
      BY <3>2 DEF RequestIn
    <3> QED BY <1>3, <3>1, <3>2 DEF Cpu, WeatherOut, OtherOut
  <2>2. FlagType' /\ MeasuredType'
    BY <1>0, <2>1 DEF FlagType, MeasuredType, weatherVars, mqttVars
  <2> QED BY <1>0, <1>1, <1>3, <2>2, PortStep DEF TypeGroups
<1>4. CASE Start \/ Handlers \/ WorldChanges \/ ConnectionLost \/ UNCHANGED envVars
  <2>1. UNCHANGED <<weather, pollution, message, request, heard>>
    BY <1>4 DEF Start, Handlers, WorldChanges, ConnectionLost, envVars, Locate, Connect,
       UpdateEnvironment, WeatherCacheExpired, Report, weatherVars, mqttVars, portVars
  <2>2. MeasuredType' /\ PortType'
    BY <1>0, <2>1 DEF MeasuredType, PortType
  <2>3. FlagType'
    <3> USE <1>0 DEF FlagType, Places
    <3>1. CASE Locate
      BY <3>1 DEF Locate, mqttVars
    <3>2. CASE Connect
      BY <3>2 DEF Connect, OutsideType, weatherVars
    <3>3. CASE UpdateEnvironment
      BY <3>3 DEF UpdateEnvironment, weatherVars, mqttVars
    <3>4. CASE WeatherCacheExpired
      BY <3>4 DEF WeatherCacheExpired, mqttVars
    <3>5. CASE Report
      BY <3>5 DEF Report, OutsideType, weatherVars
    <3>6. CASE WorldChanges
      BY <3>6 DEF WorldChanges, weatherVars, mqttVars
    <3>7. CASE ConnectionLost
      BY <3>7 DEF ConnectionLost, weatherVars
    <3>8. CASE UNCHANGED envVars
      BY <3>8 DEF envVars, weatherVars, mqttVars
    <3> QED BY <1>4, <3>1, <3>2, <3>3, <3>4, <3>5, <3>6, <3>7, <3>8 DEF Start, Handlers
  <2> QED BY <1>1, <2>2, <2>3 DEF TypeGroups
<1> QED BY <1>2, <1>3, <1>4 DEF EnvNext

(* Every variable keeps its type: in particular the request unit never     *)
(* counts past its text, and a measurement is of this world or made up.    *)
THEOREM EnvTypeCorrect == EnvSpec => []EnvTypeOK
<1>1. EnvInit => TypeGroups
  BY InitType
<1>2. TypeGroups /\ [EnvNext]_envVars => TypeGroups'
  BY StepType
<1> QED BY <1>1, <1>2, TypeParts, PTL DEF EnvSpec

-----------------------------------------------------------------------------
(* What the flags say                                                      *)

(* Weather that is flagged, or about to be, is not blank, unless the       *)
(* service has answered without measurements, and only such weather was    *)
(* ever written; pollution is never made up. Without the service's set-up  *)
(* there is only made-up weather, and nothing at all before the start.     *)
Flagged(m, place) == m.updated \/ at = place

Vouched ==
  /\ Flagged(weather, "mark") => emptied \/ weather.data # Blank
  /\ weather.data # Blank => Flagged(weather, "mark")
  /\ Flagged(pollution, "markPollution") => initialized /\ (emptied \/ pollution.data # Blank)
  /\ ~initialized => weather.data <= Fake
  /\ initialized => located /\ at # "locate"
  /\ at = "locate" => message = Silence

(* No measurement is newer than the world. *)
NotNewer == weather.data <= world /\ pollution.data <= world

EnvironmentInv == TypeGroups /\ Vouched /\ NotNewer /\ PublishedComplete /\ ShownIsKnown

LEMMA InvInit == ASSUME EnvInit PROVE EnvironmentInv
<1>1. TypeGroups
  BY InitType
<1>2. Vouched
  BY DEF EnvInit, Vouched, Flagged, Blank, Fake
<1>3. NotNewer
  BY DEF EnvInit, NotNewer, Blank
<1>4. PublishedComplete /\ ShownIsKnown
  BY DEF EnvInit, PublishedComplete, ShownIsKnown, Blank, Silence
<1> QED BY <1>1, <1>2, <1>3, <1>4 DEF EnvironmentInv

(* The steps of a fetch. *)
LEMMA FetchWeatherInv ==
  ASSUME EnvironmentInv, FetchWeather
  PROVE  /\ Vouched' /\ NotNewer'
         /\ weather'.data >= weather.data /\ pollution' = pollution
<1>1. /\ weather \in Measured /\ world \in 0..MaxWorld /\ at = "fetch"
      /\ UNCHANGED <<located, initialized, pollution, message, world>>
  BY DEF EnvironmentInv, TypeGroups, OutsideType, MeasuredType, FetchWeather, outside, mqttVars
<1>2. weather.data \in Int /\ Blank <= weather.data
  BY <1>1, EnvironmentAssumption DEF Measured, Data, Blank
<1>3. CASE MakeUp
  <2>1. weather' = [weather EXCEPT !.data = Fake] /\ at' = "mark" /\ emptied' = emptied
    BY <1>3 DEF MakeUp
  <2>2. weather'.data = Fake
    BY <1>1, <2>1 DEF Measured
  <2>3. weather.data <= Fake
    <3>1. CASE ~initialized \/ ~weather.updated
      BY <1>1, <3>1 DEF EnvironmentInv, Vouched, Flagged, Fake, Blank
    <3>2. CASE initialized /\ weather.updated
      <4>1. weather' = weather \/ weather' = [weather EXCEPT !.data = world]
        BY <3>2 DEF FetchWeather
      <4>2. weather'.data \in {weather.data, world}
        BY <1>1, <4>1 DEF Measured
      <4> QED BY <1>1, <1>2, <2>2, <4>2, EnvironmentAssumption DEF Fake
    <3> QED BY <3>1, <3>2
  <2> QED BY <1>1, <1>2, <2>1, <2>2, <2>3, EnvironmentAssumption
          DEF EnvironmentInv, Vouched, NotNewer, Flagged, Fake, Blank
<1>4. CASE weather' = weather /\ at' = "pollution" /\ emptied' = emptied
  BY <1>1, <1>2, <1>4 DEF EnvironmentInv, Vouched, NotNewer, Flagged
<1>5. CASE weather' = weather /\ at' = "mark" /\ emptied' = TRUE
  BY <1>1, <1>2, <1>5 DEF EnvironmentInv, Vouched, NotNewer, Flagged
<1>6. CASE initialized /\ weather' = [weather EXCEPT !.data = world] /\ at' = "mark" /\ emptied' = emptied
  <2>1. weather'.data = world
    BY <1>1, <1>6 DEF Measured
  <2> QED BY <1>1, <1>2, <1>6, <2>1, EnvironmentAssumption
          DEF EnvironmentInv, Vouched, NotNewer, Flagged, Blank
<1> QED BY <1>3, <1>4, <1>5, <1>6 DEF FetchWeather

LEMMA FetchPollutionInv ==
  ASSUME EnvironmentInv, FetchPollution
  PROVE  /\ Vouched' /\ NotNewer'
         /\ pollution'.data >= pollution.data /\ weather' = weather
<1>1. /\ pollution \in Measured /\ world \in 0..MaxWorld /\ at = "pollution"
      /\ UNCHANGED <<located, initialized, weather, message, world>>
  BY DEF EnvironmentInv, TypeGroups, OutsideType, MeasuredType, FetchPollution, outside, mqttVars
<1>2. pollution.data \in Int
  BY <1>1, EnvironmentAssumption DEF Measured, Data, Blank
<1>3. CASE pollution' = pollution /\ at' = "cache" /\ emptied' = emptied
  BY <1>1, <1>2, <1>3 DEF EnvironmentInv, Vouched, NotNewer, Flagged
<1>4. CASE initialized /\ pollution' = pollution /\ at' = "markPollution" /\ emptied' = TRUE
  BY <1>1, <1>2, <1>4 DEF EnvironmentInv, Vouched, NotNewer, Flagged
<1>5. CASE /\ initialized /\ at' = "markPollution" /\ emptied' = emptied
           /\ pollution' = [pollution EXCEPT !.data = world]
  <2>1. pollution'.data = world
    BY <1>1, <1>5 DEF Measured
  <2> QED BY <1>1, <1>2, <1>5, <2>1, EnvironmentAssumption
          DEF EnvironmentInv, Vouched, NotNewer, Flagged, Blank
<1> QED BY <1>3, <1>4, <1>5 DEF FetchPollution

LEMMA MarkInv ==
  ASSUME EnvironmentInv, MarkWeather \/ MarkPollution
  PROVE  /\ Vouched' /\ NotNewer'
         /\ weather'.data = weather.data /\ pollution'.data = pollution.data
<1>1. /\ weather \in Measured /\ pollution \in Measured
      /\ UNCHANGED <<located, initialized, message, world, emptied>>
  BY DEF EnvironmentInv, TypeGroups, MeasuredType, MarkWeather, MarkPollution, outside, mqttVars
<1>2. CASE MarkWeather
  <2>1. /\ weather'.data = weather.data /\ weather'.updated /\ pollution' = pollution
        /\ at = "mark" /\ at' = "pollution"
    BY <1>1, <1>2 DEF MarkWeather, Measured
  <2> QED BY <1>1, <2>1 DEF EnvironmentInv, Vouched, NotNewer, Flagged
<1>3. CASE MarkPollution
  <2>1. /\ pollution'.data = pollution.data /\ pollution'.updated /\ weather' = weather
        /\ at = "markPollution" /\ at' = "cache"
    BY <1>1, <1>3 DEF MarkPollution, Measured
  <2> QED BY <1>1, <2>1 DEF EnvironmentInv, Vouched, NotNewer, Flagged
<1> QED BY <1>2, <1>3

(* Every other step leaves the measurements alone, and only comes to the   *)
(* places where they are flagged from there.                               *)
LEMMA OtherInv ==
  ASSUME EnvironmentInv, [EnvNext]_envVars,
         ~FetchWeather, ~FetchPollution, ~MarkWeather, ~MarkPollution
  PROVE  Vouched' /\ NotNewer' /\ UNCHANGED <<weather, pollution>>
<1>1. UNCHANGED <<weather, pollution, emptied>>
  BY DEF EnvNext, envVars, Start, Fetch, Handlers, Cpu, Locate, Connect, Cache, Publish,
     UpdateEnvironment, WeatherCacheExpired, Report, WorldChanges, ConnectionLost,
     WeatherOut, OtherOut, Ask, RequestIn, weatherVars
<1>2. at' = at \/ (at \notin {"mark", "markPollution"} /\ at' \notin {"mark", "markPollution", "locate"})
  BY DEF EnvNext, envVars, Start, Fetch, Handlers, Cpu, Locate, Connect, Cache, Publish,
     UpdateEnvironment, WeatherCacheExpired, Report, WorldChanges, ConnectionLost,
     WeatherOut, OtherOut, Ask, RequestIn
<1>3. \/ UNCHANGED <<located, initialized>>
      \/ at = "locate" /\ at' = "connect" /\ (initialized' => located')
  BY DEF EnvNext, envVars, Start, Fetch, Handlers, Cpu, Locate, Connect, Cache, Publish,
     UpdateEnvironment, WeatherCacheExpired, Report, WorldChanges, ConnectionLost,
     WeatherOut, OtherOut, Ask, RequestIn, weatherVars
<1>4. message' = message \/ at = "publish"
  BY DEF EnvNext, envVars, Start, Fetch, Handlers, Cpu, Locate, Connect, Cache, Publish,
     UpdateEnvironment, WeatherCacheExpired, Report, WorldChanges, ConnectionLost,
     WeatherOut, OtherOut, Ask, RequestIn, mqttVars
<1>5. world' = world \/ world' = world + 1
  BY DEF EnvNext, envVars, Start, Fetch, Handlers, Cpu, Locate, Connect, Cache, Publish,
     UpdateEnvironment, WeatherCacheExpired, Report, WorldChanges, ConnectionLost,
     WeatherOut, OtherOut, Ask, RequestIn, outside
<1>6. /\ weather.data \in Int /\ pollution.data \in Int /\ world \in Int
  BY EnvironmentAssumption
     DEF EnvironmentInv, TypeGroups, OutsideType, MeasuredType, Measured, Data, Blank
<1>7. NotNewer'
  BY <1>1, <1>5, <1>6 DEF EnvironmentInv, NotNewer
<1>8. Vouched'
  BY <1>1, <1>2, <1>3, <1>4 DEF EnvironmentInv, Vouched, Flagged
<1> QED BY <1>1, <1>7, <1>8

(* The messages, and the answers of the ports. *)
LEMMA ToldInv ==
  ASSUME EnvironmentInv, [EnvNext]_envVars
  PROVE  PublishedComplete' /\ ShownIsKnown'
<1>1. located /\ initialized => located' /\ initialized'
  BY DEF EnvNext, envVars, Start, Fetch, Handlers, Cpu, Locate, Connect, Cache, Publish, FetchWeather,
     MarkWeather, FetchPollution, MarkPollution, EnvironmentInv, Vouched,
     UpdateEnvironment, WeatherCacheExpired, Report, WorldChanges, ConnectionLost,
     WeatherOut, OtherOut, Ask, RequestIn, weatherVars
<1>2. emptied => emptied'
  BY DEF EnvNext, envVars, Start, Fetch, Handlers, Cpu, Locate, Connect, Cache, Publish, FetchWeather,
     MarkWeather, FetchPollution, MarkPollution, MakeUp,
     UpdateEnvironment, WeatherCacheExpired, Report, WorldChanges, ConnectionLost,
     WeatherOut, OtherOut, Ask, RequestIn, weatherVars
<1>3. CASE Publish
  <2>1. request' = request
    BY <1>3 DEF Publish, portVars
  <2>2. CASE message' = message
    BY <1>1, <1>2, <2>1, <2>2 DEF EnvironmentInv, PublishedComplete, ShownIsKnown
  <2>3. CASE weather.updated /\ pollution.updated /\ message' \in {weather.data, pollution.data}
    <3>1. located /\ initialized
      BY <2>3 DEF EnvironmentInv, Vouched, Flagged
    <3>2. emptied \/ (weather.data # Blank /\ pollution.data # Blank)
      BY <2>3 DEF EnvironmentInv, Vouched, Flagged
    <3>3. weather.data \in Data /\ pollution.data \in Data
      BY DEF EnvironmentInv, TypeGroups, MeasuredType, Measured
    <3>4. emptied \/ message' >= Fake
      BY <2>3, <3>2, <3>3, EnvironmentAssumption DEF Data, Blank, Fake
    <3> QED BY <1>1, <1>2, <2>1, <3>1, <3>4 DEF EnvironmentInv, PublishedComplete, ShownIsKnown
  <2> QED BY <1>3, <2>2, <2>3 DEF Publish
<1>4. CASE Cpu
  <2>1. message' = message
    BY <1>4 DEF Cpu, WeatherOut, OtherOut, Ask, RequestIn, mqttVars
  <2>2. ASSUME NEW m, m \in {weather, pollution}, Ask(Known(m)) PROVE ShownIsKnown'
    <3>1. request'.text = Known(m)
      BY <2>2 DEF Ask
    <3>2. Known(m) = Blank => emptied
      BY <2>2 DEF EnvironmentInv, Vouched, Flagged, Known, Blank, Silence
    <3> QED BY <1>2, <3>1, <3>2 DEF ShownIsKnown
  <2>3. CASE OtherOut
    <3>1. request'.text = Silence
      BY <2>3 DEF OtherOut, Ask
    <3> QED BY <1>1, <1>2, <2>1, <3>1 DEF EnvironmentInv, PublishedComplete, ShownIsKnown, Blank, Silence
  <2>4. CASE RequestIn
    <3>1. request'.text = request.text
      BY <2>4 DEF RequestIn, EnvironmentInv, TypeGroups, PortType
    <3> QED BY <1>1, <1>2, <2>1, <3>1 DEF EnvironmentInv, PublishedComplete, ShownIsKnown
  <2>5. ShownIsKnown'
    BY <1>4, <2>2, <2>3, <2>4 DEF Cpu, WeatherOut
  <2> QED BY <1>1, <1>2, <2>1, <2>5 DEF EnvironmentInv, PublishedComplete
<1>5. CASE ~Publish /\ ~Cpu
  <2>1. UNCHANGED <<message, request>>
    BY <1>5 DEF EnvNext, envVars, Start, Fetch, Handlers, Locate, Connect, Cache, FetchWeather,
       MarkWeather, FetchPollution, MarkPollution, UpdateEnvironment, WeatherCacheExpired,
       Report, WorldChanges, ConnectionLost, mqttVars, portVars
  <2> QED BY <1>1, <1>2, <2>1 DEF EnvironmentInv, PublishedComplete, ShownIsKnown
<1> QED BY <1>3, <1>4, <1>5

LEMMA InvStep ==
  ASSUME EnvironmentInv, [EnvNext]_envVars
  PROVE  /\ EnvironmentInv'
         /\ weather'.data >= weather.data /\ pollution'.data >= pollution.data
<1>1. weather.data \in Int /\ pollution.data \in Int
  BY EnvironmentAssumption DEF EnvironmentInv, TypeGroups, MeasuredType, Measured, Data, Blank
<1>2. /\ Vouched' /\ NotNewer'
      /\ weather'.data >= weather.data /\ pollution'.data >= pollution.data
  BY <1>1, FetchWeatherInv, FetchPollutionInv, MarkInv, OtherInv
<1> QED BY <1>2, StepType, ToldInv DEF EnvironmentInv

(* A message is complete: nothing is published before the location, the    *)
(* weather and the pollution have all been had, in whatever order the      *)
(* services fail and answer (update_weather, publish_telemetry).           *)
THEOREM CompletePublished == EnvSpec => []PublishedComplete
<1>1. EnvInit => EnvironmentInv
  BY InvInit
<1>2. EnvironmentInv /\ [EnvNext]_envVars => EnvironmentInv'
  BY InvStep
<1>3. EnvironmentInv => PublishedComplete
  BY DEF EnvironmentInv
<1> QED BY <1>1, <1>2, <1>3, PTL DEF EnvSpec

(* The CPU's thread never reads the blank fields of the start as weather,  *)
(* although it takes no lock (weather_output).                             *)
THEOREM KnownShown == EnvSpec => []ShownIsKnown
<1>1. EnvInit => EnvironmentInv
  BY InvInit
<1>2. EnvironmentInv /\ [EnvNext]_envVars => EnvironmentInv'
  BY InvStep
<1>3. EnvironmentInv => ShownIsKnown
  BY DEF EnvironmentInv
<1> QED BY <1>1, <1>2, <1>3, PTL DEF EnvSpec

(* Made-up weather never replaces measurements, nor old ones newer.        *)
THEOREM NeverGoesBack == EnvSpec => NeverBack
<1>1. EnvInit => EnvironmentInv
  BY InvInit
<1>2. EnvironmentInv /\ [EnvNext]_envVars => EnvironmentInv'
  BY InvStep
<1>3. EnvironmentInv /\ [EnvNext]_envVars => [weather'.data >= weather.data /\ pollution'.data >= pollution.data]_envVars
  BY InvStep
<1> QED BY <1>1, <1>2, <1>3, PTL DEF EnvSpec, NeverBack

-----------------------------------------------------------------------------
(* The request unit *)

(* What the program has read is the count of bytes it read, each in its    *)
(* place, of the text of its last OUT.                                     *)
ReadInPlace == Len(heard) = request.count /\ AnswerWhole

LEMMA ReadStep == ASSUME TypeGroups, ReadInPlace, [EnvNext]_envVars PROVE ReadInPlace'
<1>1. PortType
  BY DEF TypeGroups
<1>2. ASSUME NEW text, Ask(text) PROVE ReadInPlace'
  BY <1>2 DEF Ask, ReadInPlace, AnswerWhole
<1>3. CASE RequestIn
  <2> DEFINE byte == <<request.text, request.count + 1>>
  <2>1. heard \in Seq(Data \X (1..TextLength)) /\ byte \in Data \X (1..TextLength)
    BY <1>1, <1>3, EnvironmentAssumption DEF PortType, RequestIn
  <2>2. heard' = Append(heard, byte) /\ request'.text = request.text /\ request'.count = request.count + 1
    BY <1>1, <1>3 DEF PortType, RequestIn
  <2> HIDE DEF byte
  <2>3. /\ Len(heard') = Len(heard) + 1 /\ heard'[Len(heard) + 1] = byte
        /\ \A i \in 1..Len(heard) : heard'[i] = heard[i]
        /\ DOMAIN heard' = 1..(Len(heard) + 1) /\ DOMAIN heard = 1..Len(heard)
    BY <2>1, <2>2
  <2>4. byte = <<request.text, Len(heard) + 1>>
    BY DEF byte, ReadInPlace
  <2>5. \A i \in 1..(Len(heard) + 1) : heard'[i] = <<request.text, i>>
    <3> TAKE i \in 1..(Len(heard) + 1)
    <3>1. CASE i = Len(heard) + 1
      BY <2>3, <2>4, <3>1
    <3>2. CASE i \in 1..Len(heard)
      BY <2>3, <3>2 DEF ReadInPlace, AnswerWhole
    <3>3. Len(heard) \in Nat
      BY <2>1
    <3> QED BY <3>1, <3>2, <3>3
  <2> QED BY <2>2, <2>3, <2>5 DEF ReadInPlace, AnswerWhole
<1>4. CASE ~Cpu
  <2>1. UNCHANGED <<request, heard>>
    BY <1>4 DEF EnvNext, envVars, Start, Fetch, Handlers, Locate, Connect, Cache, Publish, FetchWeather,
       MarkWeather, FetchPollution, MarkPollution, UpdateEnvironment, WeatherCacheExpired,
       Report, WorldChanges, ConnectionLost, portVars
  <2> QED BY <2>1 DEF ReadInPlace, AnswerWhole
<1> QED BY <1>2, <1>3, <1>4 DEF Cpu, WeatherOut, OtherOut

(* Port 200 brings the whole text of the last OUT from its first byte.     *)
THEOREM WholeAnswers == EnvSpec => []AnswerWhole
<1>1. EnvInit => TypeGroups /\ ReadInPlace
  <2> SUFFICES ASSUME EnvInit PROVE TypeGroups /\ ReadInPlace
    OBVIOUS
  <2>1. heard = <<>> /\ request.count = 0
    BY DEF EnvInit
  <2>2. ReadInPlace
    BY <2>1 DEF ReadInPlace, AnswerWhole
  <2> QED BY <2>2, InitType
<1>2. TypeGroups /\ ReadInPlace /\ [EnvNext]_envVars => TypeGroups' /\ ReadInPlace'
  BY StepType, ReadStep
<1>3. ReadInPlace => AnswerWhole
  BY DEF ReadInPlace
<1> QED BY <1>1, <1>2, <1>3, PTL DEF EnvSpec
=============================================================================
