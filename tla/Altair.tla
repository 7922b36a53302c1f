------------------------------- MODULE Altair -------------------------------
(***************************************************************************)
(* The processor with the timers behind its ports: what Cpu8080 leaves     *)
(* open, the byte that IN brings, is here what time_io.c answers when      *)
(* io_ports.c sends it there. The clock goes on whatever the processor     *)
(* does. The times at which a program writes to the port Mark are kept.    *)
(***************************************************************************)
EXTENDS Cpu8080, TimePorts

CONSTANT Mark  \* a port that only shows when a program gets somewhere

VARIABLES
  marks,  \* history: when the program wrote to the port Mark
  asked   \* history: what the program has told each timer, 3 for that of seconds

altairVars == <<cpuVars, timeVars, marks, asked>>

(* Whatever a program computes and whatever the ports answer, registers, cells
   and timers keep their width (the uint8_t and uint16_t of intel8080.h and
   time_io.c). *)
AltairTypeOK ==
  /\ CpuTypeOK /\ TimeTypeOK /\ marks \in Seq(Nat)
  /\ asked \in [0..3 -> [high : ByteRange, due : Nat, running : BOOLEAN]]

AltairInit == /\ CpuInit /\ TimeInit /\ marks = <<>>
              /\ asked = [t \in 0..3 |-> [high |-> 0, due |-> 0, running |-> FALSE]]

\* The high byte, until the timer has been found expired; a start, with the time at which
\* it should expire; and the answer that it has.
Told(r, port, data) ==
  CASE port = 30 -> [r EXCEPT !.due = now + Second * data, !.running = TRUE]
    [] port \in {24, 26, 28} -> [r EXCEPT !.high = data]
    [] OTHER -> [r EXCEPT !.due = now + 256 * r.high + data,
                          !.running = now + 256 * r.high + data > 0]
Found(r, answer) ==
  IF r.running /\ answer = 0 THEN [r EXCEPT !.high = 0, !.running = FALSE] ELSE r

(* io_port_out and io_port_in send the ports 24 to 30 to the timers. *)
TimerOut == /\ Op = 211 /\ Immediate \in Ports24
            /\ Out
            /\ TimeOut(Immediate, reg[A])
            /\ asked' = [asked EXCEPT ![Timer(Immediate)] = Told(@, Immediate, reg[A])]
            /\ UNCHANGED marks

TimerIn == /\ Op = 219 /\ Immediate \in Ports24
           /\ InDevice
           /\ TimeIn(Immediate, reg'[A])
           /\ asked' = [asked EXCEPT ![Timer(Immediate)] = Found(@, reg'[A])]
           /\ UNCHANGED marks

OtherCycle == /\ ~(Op \in {211, 219} /\ Immediate \in Ports24)
              /\ Cycle
              /\ marks' = IF Op = 211 /\ Immediate = Mark THEN Append(marks, now) ELSE marks
              /\ UNCHANGED <<timeVars, asked>>

AltairCycle == TimerOut \/ TimerIn \/ OtherCycle

ClockTick == Tick /\ UNCHANGED <<cpuVars, marks, asked>>

KeyStruck == /\ \E k \in Keys : Type(k)
             /\ UNCHANGED <<timeVars, marks, asked>>

AltairNext == AltairCycle \/ KeyStruck \/ ClockTick

AltairSpec == AltairInit /\ [][AltairNext]_altairVars

-----------------------------------------------------------------------------
(* Properties of every program *)

\* the carry that the handler leaves
CarryOut == IF Carry \in flags' THEN 1 ELSE 0

\* Result and carry of a handler, against the exact number.
ArithmeticRight ==
  /\ Add => reg'[A] + 256 * CarryOut = reg[A] + Operand
  /\ Adc => reg'[A] + 256 * CarryOut = reg[A] + Operand + CarryIn
  /\ Sub => reg'[A] - 256 * CarryOut = reg[A] - Operand
  /\ Sbb => reg'[A] - 256 * CarryOut = reg[A] - Operand - CarryIn
  /\ Cmp => /\ Carry \in flags' <=> reg[A] < Operand
            /\ Zero \in flags' <=> reg[A] = Operand

(* Bytes are added and subtracted as numbers of any length are, digit by digit
   with a carry or a borrow: result and carry together are the exact sum or
   difference (i8080_genadd, and i8080_gensub, which adds the complement and
   turns the carry round), also when ADC or SBB make their operand 256. A
   comparison sets carry when the accumulator is less, zero when it is equal. *)
ArithmeticExact == [][ArithmeticRight]_altairVars

\* read16 and write16 at s find two cells.
HasWord(s) == {s, s + 1} \subseteq Cells

\* What a handler leaves on the stack, against what it was given.
StackRight ==
  /\ Call /\ HasWord(sp') => Word16(memory', sp') = Word(pc + 3) /\ Word(sp' + 2) = sp
  /\ Rst /\ HasWord(sp') => Word16(memory', sp') = Word(pc + 1) /\ Word(sp' + 2) = sp
  /\ Push /\ HasWord(sp') =>
       LET found == Word16(memory', sp') IN
       /\ Word(sp' + 2) = sp
       /\ IF RP = 3 THEN found \div 256 = reg[A] /\ BitsOf[found % 256] = flags
                    ELSE found \div 256 = reg[2 * RP] /\ found % 256 = reg[2 * RP + 1]

(* The word that RET or POP would find is the one that CALL, RST or PUSH has
   put there, and the stack pointer would come back to where it was
   (i8080_call, i8080_rst, i8080_push, against i8080_ret and i8080_pop): calls
   return behind themselves, the registers and all eight bits of the flags
   survive PUSH and POP. Unless the stack is where memory has no cells. *)
StackReturns == [][StackRight]_altairVars

\* the characters that were typed and that the program has not got
Pending == (IF character = 0 THEN <<>> ELSE <<character>>) \o queue

\* An IN gets the oldest of them, or 0.
Fetches == IF Pending = <<>> THEN reg'[A] = 0 /\ Pending' = <<>>
                             ELSE reg'[A] = Head(Pending) /\ Pending' = Tail(Pending)

\* What a step does to the pending characters.
InOrder ==
  /\ InData => Fetches
  /\ InTerminal /\ character = 0 => Fetches
  /\ KeyStruck => \E k \in Keys : Pending' = Append(Pending, k)
  /\ ~(InData \/ InTerminal \/ KeyStruck) => Pending' = Pending

(* The status port takes a character from the terminal before a program has
   asked for it, and keeps it (the static variable of i8080_in). Characters
   are neither lost nor doubled nor do they change places: the data port gives
   the oldest, whether it is held or still in the queue, and nothing but a key
   that is struck and a program that reads changes what is pending. Port 1
   reads past a character that is held, and only it does. *)
CharactersInOrder == [][InOrder]_altairVars

(* What one instruction does, in every program: its result and carry, the word
   it leaves on the stack, and the characters it takes. The programs that are
   run end to end rest on it (the handlers of intel8080.c, and its ports). *)
InstructionsRight == [][ArithmeticRight /\ StackRight /\ InOrder]_altairVars

\* the bytes of two decimal digits, and their value
TwoDigits == {n \in ByteRange : n % 16 < 10 /\ n \div 16 < 10}
DecimalOf(n) == 10 * (n \div 16) + (n % 16)

\* what an addition of x, y and c has left for DAA
SumOf(x, y, c) ==
  /\ reg[A] = Byte(x + y + c)
  /\ Half \in flags <=> HalfCarry(x, y + c)
  /\ Carry \in flags <=> x + y + c > 255

\* What ADD and ADC leave of packed numbers, and what DAA makes of what such an addition left.
DecimalRight ==
  /\ Add \/ Adc =>
       \A x \in TwoDigits \cap {reg[A]}, y \in TwoDigits \cap {Operand}, c \in {CarryIn} :
         (Add => SumOf(x, y, 0)') /\ (Adc => SumOf(x, y, c)')
  /\ Daa =>
       \A x \in TwoDigits, y \in TwoDigits, c \in {0, 1} :
         SumOf(x, y, c) =>
           /\ reg'[A] \in TwoDigits
           /\ DecimalOf(reg'[A]) + 100 * CarryOut =
                DecimalOf(x) + DecimalOf(y) + c - (IF x + y + c < 250 THEN 0
                                                   ELSE IF x + y + c < 256 THEN 60 ELSE 100)

(* DAA after an addition of two packed numbers (i8080_daa): the digits and the
   carry are those of the decimal sum whenever the binary sum is less than 250.
   From there on the handler is wrong, because the first correction overflows
   the byte that the second one looks at, and because the carry of the first
   addition is not kept: binary sums of 250 to 255 come out 60 too small,
   greater ones lose their hundred, and neither error is ever another one. *)
DecimalsRight == [][DecimalRight]_altairVars

\* What an IN answers, against what the program has told the timer.
TimersRight ==
  TimerIn =>
    LET r == asked[Timer(Immediate)]  answer == reg'[A] IN
    IF Immediate < 30
    THEN answer = IF r.running /\ now < r.due THEN 1 ELSE 0
    ELSE /\ answer = 1 => r.running /\ now < r.due
         /\ answer = 0 /\ r.running => now + Second > r.due

(* A timer of milliseconds runs exactly as long as it was set for, however its
   two bytes were written, whatever the other timers do and whenever the
   program looks: with the high byte that was set last, or with none since an
   IN found it expired. The timer of seconds, whose clock has no fractions, is
   never late and less than a second early (time_output, time_input). *)
TimersExact == [][TimersRight]_altairVars
=============================================================================
