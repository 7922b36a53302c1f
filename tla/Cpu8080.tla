------------------------------ MODULE Cpu8080 ------------------------------
(***************************************************************************)
(* The processor of the Altair: i8080_cycle of intel8080.c and the         *)
(* handlers its table names, one action for each handler, or for each      *)
(* family of handlers that differ in their operand only.                   *)
(*                                                                         *)
(* Registers have the numbers of the opcodes (6 is the cell under HL);     *)
(* the byte of flags is the set of its bits. Memory is a function on the   *)
(* addresses in Cells (0 .. 65535 in the program; 65536 may be among them: *)
(* read16 and write16 at the last address touch the byte behind the        *)
(* array). A program that stays in Cells cannot tell that they are few.    *)
(* The status lamps, the buses and the counts of clock cycles are left     *)
(* out: nothing that is executed depends on them.                          *)
(***************************************************************************)
EXTENDS Integers, Sequences, FiniteSets

CONSTANTS
  Cells,       \* the addresses of memory
  Images,      \* the contents of memory that the machine may be started with
  Sense,       \* the byte on the front panel's switches
  Devices,     \* the bytes that the disk and the other ports may answer with
  Keys,        \* the characters that may be typed
  MaxTyped     \* bound: how many are

Below(n) == 0..(n - 1)
ByteRange == Below(256)
WordRange == Below(65536)

ASSUME CpuAssumption ==
  /\ Cells \subseteq Below(65537)
  /\ Images \subseteq [Cells -> ByteRange]
  /\ Sense \in ByteRange /\ Devices \subseteq ByteRange
  /\ Keys \subseteq 1..255
  /\ MaxTyped \in Nat

VARIABLES
  reg,         \* registers.b ... registers.a
  pc, sp,      \* registers.pc, registers.sp
  flags,       \* registers.flags, the set of its bits
  memory,      \* memory
  character,   \* the character that the 2SIO status port has fetched; 0: none
  queue,       \* the characters that the terminal holds for term_in
  typed,       \* every character that was typed
  sent         \* what OUT instructions sent, with its port

cpuVars == <<reg, pc, sp, flags, memory, character, queue, typed, sent>>

B == 0  C == 1  D == 2  E == 3  H == 4  L == 5  M == 6  A == 7
Registers == {B, C, D, E, H, L, A}

(* the bits of the byte of flags *)
Carry == 0  One == 1  Parity == 2  Half == 4  IF_ == 5  Zero == 6  Sign == 7
-----------------------------------------------------------------------------
(* bytes, words, bits *)

Byte(n) == n % 256
Word(n) == n % 65536

Power == <<1, 2, 4, 8, 16, 32, 64, 128>>  \* of bit i - 1

BitsOf == [v \in ByteRange |-> {i \in 0..7 : (v \div Power[i + 1]) % 2 = 1}]

Weight(S, i) == IF i \in S THEN Power[i + 1] ELSE 0

ByteOf(S) == Weight(S, 0) + Weight(S, 1) + Weight(S, 2) + Weight(S, 3)
           + Weight(S, 4) + Weight(S, 5) + Weight(S, 6) + Weight(S, 7)

(* memory.h *)
Byte8(m, a) == IF a \in Cells THEN m[a] ELSE 0
Word16(m, a) == Byte8(m, a) + 256 * Byte8(m, a + 1)

Read8(a) == Byte8(memory, a)
Read16(a) == Word16(memory, a)

Write8(a, v) == memory' = [x \in Cells |-> IF x = a THEN v ELSE memory[x]]

Write16(a, v) ==
  memory' = [x \in Cells |-> CASE x = a     -> v % 256
                               [] x = a + 1 -> v \div 256
                               [] OTHER     -> memory[x]]

(* op_codes.h *)
Op == Read8(pc)
Destination == (Op \div 8) % 8
Source == Op % 8
RP == (Op \div 16) % 4

Immediate == Read8(Word(pc + 1))
Immediate16 == Read16(Word(pc + 1))

(* the operations of a family: one for each register, pair or condition *)
Each(first, step, n) == {first + step * i : i \in 0..(n - 1)}

Instruction(ops, size) ==
  /\ Op \in ops
  /\ pc' = Word(pc + size)

Quiet == UNCHANGED <<character, queue, typed, sent>>

(* the pairs are BC, DE, HL and SP *)
PairRead(p) == IF p = 3 THEN sp ELSE 256 * reg[2 * p] + reg[2 * p + 1]
HL == PairRead(2)

PairWrite(p, v) ==
  \/ p = 3 /\ sp' = v /\ UNCHANGED reg
  \/ p # 3 /\ reg' = [reg EXCEPT ![2 * p] = v \div 256, ![2 * p + 1] = v % 256]
           /\ UNCHANGED sp

RegRead(r) == IF r = M THEN Read8(HL) ELSE reg[r]

RegWrite(r, v) ==
  \/ r = M /\ Write8(HL, v) /\ UNCHANGED reg
  \/ r # M /\ reg' = [reg EXCEPT ![r] = v] /\ UNCHANGED memory

(* flags *)
Put(f, bit, on) == IF on THEN f \cup {bit} ELSE f \ {bit}

HalfCarry(a, b) == (a % 16) + (b % 16) > 15

(* Z, S and P tell of the result *)
Result(f, v) ==
  Put(Put(Put(f, Parity, Cardinality(BitsOf[v]) % 2 = 0), Zero, v = 0), Sign, v >= 128)

CarryIn == IF Carry \in flags THEN 1 ELSE 0

Condition(c) == CASE c = 0 -> Zero \notin flags   [] c = 1 -> Zero \in flags
                  [] c = 2 -> Carry \notin flags  [] c = 3 -> Carry \in flags
                  [] c = 4 -> Parity \notin flags [] c = 5 -> Parity \in flags
                  [] c = 6 -> Sign \notin flags   [] c = 7 -> Sign \in flags

-----------------------------------------------------------------------------
(* moving data *)

Undefined == {8, 16, 24, 32, 40, 48, 56, 118, 203, 217, 221, 237, 253}

(* An operation without a handler is skipped: HLT is one of them. *)
Nop == Instruction({0} \cup Undefined, 1) /\ UNCHANGED <<reg, sp, flags, memory>>

Mov == /\ Instruction((64..127) \ {118}, 1)
       /\ RegWrite(Destination, RegRead(Source))
       /\ UNCHANGED <<sp, flags>>

Mvi == /\ Instruction(Each(6, 8, 8), 2)
       /\ RegWrite(Destination, Immediate)
       /\ UNCHANGED <<sp, flags>>

Lxi == Instruction(Each(1, 16, 4), 3) /\ PairWrite(RP, Immediate16) /\ UNCHANGED <<flags, memory>>

Lda == /\ Instruction({58}, 3)
       /\ reg' = [reg EXCEPT ![A] = Read8(Immediate16)]
       /\ UNCHANGED <<sp, flags, memory>>

Sta == Instruction({50}, 3) /\ Write8(Immediate16, reg[A]) /\ UNCHANGED <<reg, sp, flags>>

Lhld == Instruction({42}, 3) /\ PairWrite(2, Read16(Immediate16)) /\ UNCHANGED <<flags, memory>>

Shld == Instruction({34}, 3) /\ Write16(Immediate16, HL) /\ UNCHANGED <<reg, sp, flags>>

Ldax == /\ Instruction({10, 26}, 1)
        /\ reg' = [reg EXCEPT ![A] = Read8(PairRead(RP))]
        /\ UNCHANGED <<sp, flags, memory>>

Stax == Instruction({2, 18}, 1) /\ Write8(PairRead(RP), reg[A]) /\ UNCHANGED <<reg, sp, flags>>

Xchg == /\ Instruction({235}, 1)
        /\ reg' = [reg EXCEPT ![D] = reg[H], ![E] = reg[L], ![H] = reg[D], ![L] = reg[E]]
        /\ UNCHANGED <<sp, flags, memory>>

-----------------------------------------------------------------------------
(* arithmetic and logic *)

Accumulate(v, f) == reg' = [reg EXCEPT ![A] = v] /\ flags' = Result(f, v)

GenAdd(val) ==
  Accumulate(Byte(reg[A] + val),
             Put(Put(flags, Half, HalfCarry(reg[A], val)), Carry, reg[A] + val > 255))

\* Variant of Complement: it is cut to a byte.
ComplementByte(val) == (256 - val) % 256

(* A subtraction adds the complement and turns the carry round. *)
Complement(val) == 256 - val

\* Variant of SubFlags: the carry is not turned round.
SubFlagsStraight(val) ==
  Put(Put(flags, Half, HalfCarry(reg[A], Complement(val))),
      Carry, reg[A] + Complement(val) > 255)

SubFlags(val) ==
  Put(Put(flags, Half, HalfCarry(reg[A], Complement(val))),
      Carry, ~(reg[A] + Complement(val) > 255))

GenSub(val) == Accumulate(Byte(reg[A] + Complement(val)), SubFlags(val))

Logic(S, f) == Accumulate(ByteOf(S), f)

(* The eight operations of the accumulator take a register, a cell or the
   byte after the opcode. *)
WithRegister(k) == Each(128 + 8 * k, 1, 8)
WithByte(k) == 198 + 8 * k

Accumulator(k) ==
  /\ \/ Instruction(WithRegister(k), 1)
     \/ Instruction({WithByte(k)}, 2)
  /\ UNCHANGED <<sp, memory>>

Operand == IF Op < 192 THEN RegRead(Source) ELSE Immediate

Add == Accumulator(0) /\ GenAdd(Operand)
Adc == Accumulator(1) /\ GenAdd(Operand + CarryIn)
Sub == Accumulator(2) /\ GenSub(Operand)
Sbb == Accumulator(3) /\ GenSub(Operand + CarryIn)
Cmp == Accumulator(7) /\ flags' = Result(SubFlags(Operand), Byte(reg[A] + Complement(Operand)))
                      /\ UNCHANGED reg

(* ANA leaves the half carry as it is, ANI clears it. *)
Ana == /\ Accumulator(4)
       /\ Logic(BitsOf[reg[A]] \cap BitsOf[Operand],
                IF Op < 192 THEN flags \ {Carry} ELSE flags \ {Carry, Half})

Xra == /\ Accumulator(5)
       /\ Logic((BitsOf[reg[A]] \cup BitsOf[Operand]) \ (BitsOf[reg[A]] \cap BitsOf[Operand]),
                flags \ {Carry, Half})

Ora == /\ Accumulator(6)
       /\ Logic(BitsOf[reg[A]] \cup BitsOf[Operand], flags \ {Carry, Half})

Inr == LET v == RegRead(Destination) IN
       /\ Instruction(Each(4, 8, 8), 1)
       /\ RegWrite(Destination, Byte(v + 1))
       /\ flags' = Result(Put(flags, Half, HalfCarry(v, 1)), Byte(v + 1))
       /\ UNCHANGED sp

Dcr == LET v == RegRead(Destination) IN
       /\ Instruction(Each(5, 8, 8), 1)
       /\ RegWrite(Destination, Byte(v + 255))
       /\ flags' = Result(Put(flags, Half, HalfCarry(v, 255)), Byte(v + 255))
       /\ UNCHANGED sp

Inx == /\ Instruction(Each(3, 16, 4), 1)
       /\ PairWrite(RP, Word(PairRead(RP) + 1))
       /\ UNCHANGED <<flags, memory>>

Dcx == /\ Instruction(Each(11, 16, 4), 1)
       /\ PairWrite(RP, Word(PairRead(RP) + 65535))
       /\ UNCHANGED <<flags, memory>>

Dad == /\ Instruction(Each(9, 16, 4), 1)
       /\ PairWrite(2, Word(HL + PairRead(RP)))
       /\ flags' = Put(flags, Carry, HL + PairRead(RP) > 65535)
       /\ UNCHANGED memory

(* Variant of Daa: the correction of the high digit looks at the byte before
   that of the low digit. *)
DaaBefore == LET low  == IF reg[A] % 16 > 9 \/ Half \in flags THEN 6 ELSE 0
                 high == IF reg[A] \div 16 > 9 \/ Carry \in flags THEN 96 ELSE 0
             IN /\ Instruction({39}, 1)
                /\ GenAdd(low + high)
                /\ UNCHANGED <<sp, memory>>

(* The correction of the high digit looks at the byte that the correction of
   the low digit left, without its carry; the carry is that of the last
   addition alone. *)
Daa == LET low  == IF reg[A] % 16 > 9 \/ Half \in flags THEN 6 ELSE 0
           val  == Byte(reg[A] + low)
           high == IF val \div 16 > 9 \/ Carry \in flags THEN 96 ELSE 0
       IN /\ Instruction({39}, 1)
          /\ GenAdd(low + high)
          /\ UNCHANGED <<sp, memory>>

Rotate(op, v, carry) ==
  /\ Instruction({op}, 1)
  /\ reg' = [reg EXCEPT ![A] = v]
  /\ flags' = Put(flags, Carry, carry)
  /\ UNCHANGED <<sp, memory>>

Rlc == Rotate(7, Byte(2 * reg[A]) + (reg[A] \div 128), reg[A] >= 128)
Rrc == Rotate(15, (reg[A] \div 2) + 128 * (reg[A] % 2), reg[A] % 2 = 1)
Ral == Rotate(23, Byte(2 * reg[A]) + CarryIn, reg[A] >= 128)
Rar == Rotate(31, (reg[A] \div 2) + 128 * CarryIn, reg[A] % 2 = 1)

Cma == Instruction({47}, 1) /\ reg' = [reg EXCEPT ![A] = 255 - @] /\ UNCHANGED <<sp, flags, memory>>

Stc == Instruction({55}, 1) /\ flags' = flags \cup {Carry} /\ UNCHANGED <<reg, sp, memory>>
Cmc == Instruction({63}, 1) /\ flags' = Put(flags, Carry, Carry \notin flags) /\ UNCHANGED <<reg, sp, memory>>
Ei  == Instruction({251}, 1) /\ flags' = flags \cup {IF_} /\ UNCHANGED <<reg, sp, memory>>
Di  == Instruction({243}, 1) /\ flags' = flags \ {IF_} /\ UNCHANGED <<reg, sp, memory>>

-----------------------------------------------------------------------------
(* the stack, jumps and calls *)

Push == /\ Instruction(Each(197, 16, 4), 1)
        /\ sp' = Word(sp + 65534)
        /\ Write16(sp', IF RP = 3 THEN 256 * reg[A] + ByteOf(flags) ELSE PairRead(RP))
        /\ UNCHANGED <<reg, flags>>

Pop == /\ Instruction(Each(193, 16, 4), 1)
       /\ sp' = Word(sp + 2)
       /\ \/ RP = 3 /\ reg' = [reg EXCEPT ![A] = Read16(sp) \div 256]
                    /\ flags' = BitsOf[Read16(sp) % 256]
          \/ RP # 3 /\ reg' = [reg EXCEPT ![2 * RP] = Read16(sp) \div 256,
                                          ![2 * RP + 1] = Read16(sp) % 256]
                    /\ UNCHANGED flags
       /\ UNCHANGED memory

Xthl == /\ Instruction({227}, 1)
        /\ Write16(sp, HL)
        /\ PairWrite(2, Read16(sp))
        /\ UNCHANGED flags

Sphl == Instruction({249}, 1) /\ sp' = HL /\ UNCHANGED <<reg, flags, memory>>

Jmp == /\ \/ Op = 195
          \/ Op \in Each(194, 8, 8) /\ Condition(Destination)
       /\ pc' = Immediate16
       /\ UNCHANGED <<reg, sp, flags, memory>>

Ret == /\ \/ Op = 201
          \/ Op \in Each(192, 8, 8) /\ Condition(Destination)
       /\ pc' = Read16(sp)
       /\ sp' = Word(sp + 2)
       /\ UNCHANGED <<reg, flags, memory>>

(* The return address is on the stack before the target is read. *)
Call == /\ \/ Op = 205
           \/ Op \in Each(196, 8, 8) /\ Condition(Destination)
        /\ sp' = Word(sp + 65534)
        /\ Write16(sp', Word(pc + 3))
        /\ pc' = Word16(memory', Word(pc + 1))
        /\ UNCHANGED <<reg, flags>>

Rst == /\ Op \in Each(199, 8, 8)
       /\ sp' = Word(sp + 65534)
       /\ Write16(sp', Word(pc + 1))
       /\ pc' = 8 * Destination
       /\ UNCHANGED <<reg, flags>>

Pchl == Op = 233 /\ pc' = HL /\ UNCHANGED <<reg, sp, flags, memory>>

(* a conditional jump, call or return whose condition fails *)
Fall == /\ ~Condition(Destination)
        /\ \/ Instruction(Each(194, 8, 8) \cup Each(196, 8, 8), 3)
           \/ Instruction(Each(192, 8, 8), 1)
        /\ UNCHANGED <<reg, sp, flags, memory>>

-----------------------------------------------------------------------------
(* ports *)

(* term_in takes the oldest character that was typed, or gives 0. *)
TermIn == IF queue = <<>> THEN 0 ELSE Head(queue)
Taken == IF queue = <<>> THEN <<>> ELSE Tail(queue)

In(ports, v) ==
  /\ Instruction({219}, 2)
  /\ Immediate \in ports
  /\ reg' = [reg EXCEPT ![A] = v]
  /\ UNCHANGED <<sp, flags, memory, typed, sent>>

InTerminal == In({1}, TermIn) /\ queue' = Taken /\ UNCHANGED character

\* Variant of InStatus: the status port does not fetch.
InStatusOnly == In({16}, IF character = 0 THEN 2 ELSE 3) /\ UNCHANGED <<character, queue>>

(* The status port must fetch a character to know that there is one. *)
InStatus ==
  LET fetched == IF character = 0 THEN TermIn ELSE character IN
  /\ In({16}, IF fetched = 0 THEN 2 ELSE 3)
  /\ character' = fetched
  /\ queue' = IF character = 0 THEN Taken ELSE queue

InData ==
  /\ In({17}, IF character = 0 THEN TermIn ELSE character)
  /\ character' = 0
  /\ queue' = IF character = 0 THEN Taken ELSE queue

InSense ==
  \/ In({255}, Sense) /\ UNCHANGED <<character, queue>>
  \/ In({0}, 0) /\ UNCHANGED <<character, queue>>

InDevice ==
  /\ \E v \in Devices : In(ByteRange \ {0, 1, 16, 17, 255}, v)
  /\ UNCHANGED <<character, queue>>

(* Port 17 is the terminal too, and 16, the control port, is nobody's. *)
Out == /\ Instruction({211}, 2)
       /\ sent' = CASE Immediate = 16        -> sent
                    [] Immediate \in {1, 17} -> Append(sent, <<1, reg[A]>>)
                    [] OTHER                 -> Append(sent, <<Immediate, reg[A]>>)
       /\ UNCHANGED <<reg, sp, flags, memory, character, queue, typed>>

Type(k) ==
  /\ Len(typed) < MaxTyped
  /\ typed' = Append(typed, k)
  /\ queue' = Append(queue, k)
  /\ UNCHANGED <<reg, pc, sp, flags, memory, character, sent>>

-----------------------------------------------------------------------------
CpuInit == /\ reg = [r \in Registers |-> 0]
        /\ pc = 0 /\ sp = 0
        /\ flags = {One}
        /\ memory \in Images
        /\ character = 0 /\ queue = <<>> /\ typed = <<>> /\ sent = <<>>

Move == Nop \/ Mov \/ Mvi \/ Lxi \/ Lda \/ Sta \/ Lhld \/ Shld \/ Ldax \/ Stax \/ Xchg

Compute == Add \/ Adc \/ Sub \/ Sbb \/ Cmp \/ Ana \/ Xra \/ Ora \/ Inr \/ Dcr \/ Inx \/ Dcx
           \/ Dad \/ Daa \/ Rlc \/ Rrc \/ Ral \/ Rar \/ Cma \/ Stc \/ Cmc \/ Ei \/ Di

Branch == Push \/ Pop \/ Xthl \/ Sphl \/ Jmp \/ Ret \/ Call \/ Rst \/ Pchl \/ Fall

Ports == InTerminal \/ InStatus \/ InData \/ InSense \/ InDevice \/ Out

Cycle == \/ (Move \/ Compute \/ Branch) /\ Quiet
         \/ Ports

CpuNext == Cycle \/ \E k \in Keys : Type(k)

CpuSpec == CpuInit /\ [][CpuNext]_cpuVars /\ WF_cpuVars(Cycle)

(* Whatever the memory holds, and whatever the ports answer, registers and
   cells keep their width: every handler truncates what it computes. *)
CpuTypeOK ==
  /\ reg \in [Registers -> ByteRange]
  /\ pc \in WordRange /\ sp \in WordRange
  /\ flags \subseteq 0..7
  /\ memory \in [Cells -> ByteRange]
  /\ character \in Keys \cup {0}
  /\ queue \in Seq(Keys) /\ typed \in Seq(Keys)
  /\ sent \in Seq(ByteRange \X ByteRange)
=============================================================================
