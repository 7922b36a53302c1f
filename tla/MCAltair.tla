----------------------------- MODULE MCAltair -------------------------------
(***************************************************************************)
(* Programs for Altair that use every handler,  each with the operands it  *)
(* is run on and what it must compute. A program starts at address 0, has  *)
(* its operands at 128, leaves its results from 132 on, and ends in a jump *)
(* to itself; the cell 143 tells the programs apart.                       *)
(***************************************************************************)
EXTENDS Altair, FiniteSetsExt, SequencesExt

(* sums, differences and the order of words and bytes *)
Wide == <<
  42, 128, 0, 235, 42, 130, 0, 25, 34, 132, 0, 62, 0,  \* LHLD X; XCHG; LHLD Y; DAD D; SHLD R; MVI A,0
  23, 50, 134, 0, 33, 130, 0, 58, 128, 0, 134, 50, 135, 0,  \* RAL; STA R2; LXI H,Y; LDA X; ADD M; STA R3
  35, 58, 129, 0, 142, 50, 136, 0, 33, 130, 0, 58, 128, 0,  \* INX H; LDA 129; ADC M; STA R4; LXI H,Y; LDA X
  150, 50, 137, 0, 35, 58, 129, 0, 158, 50, 138, 0,  \* SUB M; STA R5; INX H; LDA 129; SBB M; STA R6
  62, 0, 206, 0, 50, 139, 0, 58, 130, 0, 47, 198, 1,  \* MVI A,0; ACI 0; STA R7; LDA Y; CMA; ADI 1
  71, 58, 128, 0, 222, 0, 128, 50, 140, 0, 58, 130, 0,  \* MOV B,A; LDA X; SBI 0; ADD B; STA R8; LDA Y
  79, 58, 128, 0, 185, 62, 0, 202, 94, 0, 60,     \* MOV C,A; LDA X; CMP C; MVI A,0; JZ DONE; INR A
  218, 94, 0, 60, 50, 141, 0, 195, 97, 0          \* JC DONE; INR A; DONE: STA R9; END: JMP END
>>

(* the sum of two numbers of four decimal digits *)
Decimal == <<
  49, 176, 0, 1, 132, 0, 17, 128, 0, 33, 130, 0, 175, 62, 2,  \* LXI SP,STACK; LXI B,R; LXI D,X; LXI H,Y; XRA A; MVI A,2
  50, 142, 0, 26, 142, 39, 2, 3,                  \* STA N; MORE: LDAX D; ADC M; DAA; STAX B; INX B
  19, 35, 229, 33, 142, 0, 53, 225,               \* INX D; INX H; PUSH H; LXI H,N; DCR M; POP H
  194, 18, 0, 62, 0, 206, 0, 2, 195, 39, 0        \* JNZ MORE; MVI A,0; ACI 0; STAX B; END: JMP END
>>

(* a product, a quotient, the number of ones and its parity *)
Product == <<
  58, 128, 0, 95, 22, 0, 33, 0, 0, 58, 130, 0, 14, 8,  \* LDA X; MOV E,A; MVI D,0; LXI H,0; LDA Y; MVI C,8
  41, 23, 210, 20, 0, 25, 13, 194, 14, 0,         \* MORE: DAD H; RAL; JNC SKIP; DAD D; SKIP: DCR C; JNZ MORE
  34, 132, 0, 58, 130, 0, 183, 202, 69, 0, 87, 58, 128, 0,  \* SHLD R; LDA Y; ORA A; JZ PARITY; MOV D,A; LDA X
  95, 14, 8, 62, 0, 71, 123, 135,                 \* MOV E,A; MVI C,8; MVI A,0; DIV: MOV B,A; MOV A,E; ADD A
  95, 120, 23, 218, 56, 0, 186, 218, 58, 0,       \* MOV E,A; MOV A,B; RAL; JC TAKE; CMP D; JC NEXT
  146, 28, 13, 194, 43, 0, 50, 134, 0, 123,       \* TAKE: SUB D; INR E; NEXT: DCR C; JNZ DIV; STA R2; MOV A,E
  50, 135, 0, 58, 128, 0, 6, 0, 14, 8, 15, 210, 81, 0,  \* STA R3; PARITY: LDA X; MVI B,0; MVI C,8; COUNT: RRC; JNC ZERO
  4, 11, 3, 13, 194, 76, 0, 7,                    \* INR B; ZERO: DCX B; INX B; DCR C; JNZ COUNT; RLC
  31, 120, 50, 136, 0, 58, 128, 0, 230, 255, 62, 0,  \* RAR; MOV A,B; STA R4; LDA X; ANI 255; MVI A,0
  234, 104, 0, 60, 50, 137, 0, 195, 107, 0        \* JPE EVEN; INR A; EVEN: STA R5; END: JMP END
>>

(* a Fibonacci number, with a restart, calls and an exchanged return address *)
Recursive == <<
  49, 176, 0, 195, 24, 0, 0, 0, 254, 2, 216,      \* LXI SP,STACK; JMP START; NOP; NOP; RST1: CPI 2; RC
  61, 245, 207, 79, 241, 197,                     \* DCR A; PUSH PSW; RST 1; MOV C,A; POP PSW; PUSH B
  61, 205, 8, 0, 193, 129, 201, 58, 128, 0,       \* DCR A; CALL RST1; POP B; ADD C; RET; START: LDA X
  205, 8, 0, 50, 132, 0, 17, 68, 0, 213, 33, 52, 0, 227,  \* CALL RST1; STA R; LXI D,END; PUSH D; LXI H,INLINE; XTHL
  235, 225, 55, 63, 212, 65, 0, 220, 8, 0,        \* XCHG; POP H; STC; CMC; CNC BACK; CC RST1
  233, 33, 0, 0, 57, 34, 133, 0, 33, 176, 0, 249,  \* PCHL; INLINE: LXI H,0; DAD SP; SHLD R1; LXI H,STACK; SPHL
  235, 233, 192, 240, 201, 195, 68, 0             \* XCHG; PCHL; BACK: RNZ; RP; RET; END: JMP END
>>

(* three bytes in order, and the exclusive or from the other operations *)
Sort == <<
  49, 176, 0, 6, 2, 33, 128, 0, 14, 2, 126, 35,   \* LXI SP,STACK; MVI B,2; PASS: LXI H,X; MVI C,2; SCAN: MOV A,M; INX H
  190, 218, 24, 0, 202, 24, 0, 86, 119, 43,       \* CMP M; JC NEXT; JZ NEXT; MOV D,M; MOV M,A; DCX H
  114, 35, 13, 194, 10, 0, 5, 194, 5, 0,          \* MOV M,D; INX H; NEXT: DCR C; JNZ SCAN; DCR B; JNZ PASS
  33, 134, 0, 54, 0, 17, 128, 0, 26, 71, 19,      \* LXI H,R2; MVI M,0; LXI D,X; LDAX D; MOV B,A; INX D
  26, 168, 79, 26, 160, 47,                       \* LDAX D; XRA B; MOV C,A; LDAX D; ANA B; CMA
  87, 58, 129, 0, 176, 162, 145, 50, 135, 0,      \* MOV D,A; LDA 129; ORA B; ANA D; SUB C; STA R3
  195, 59, 0                                      \* END: JMP END
>>

(* characters through the 2SIO ports until a carriage return *)
Echo == <<
  33, 132, 0, 219, 16, 230, 1, 202, 3, 0, 219, 17, 254, 13,  \* LXI H,R; POLL: IN 16; ANI 1; JZ POLL; IN 17; CPI 13
  202, 26, 0, 119, 35, 211, 17, 211, 16, 195, 3, 0,  \* JZ END; MOV M,A; INX H; OUT 17; OUT 16; JMP POLL
  195, 26, 0                                      \* END: JMP END
>>

(* characters through port 1, and the other ports *)
Direct == <<
  33, 132, 0, 219, 1, 246, 0, 202, 3, 0, 238, 13, 202, 24, 0,  \* LXI H,R; POLL: IN 1; ORI 0; JZ POLL; XRI 13; JZ END
  238, 13, 119, 35, 211, 1, 195, 3, 0, 219, 255,  \* XRI 13; MOV M,A; INX H; OUT 1; JMP POLL; END: IN 255
  214, 0, 211, 50, 219, 0, 219, 6, 251, 243,      \* SUI 0; OUT 50; IN 0; IN 6; EI; DI
  0, 118, 195, 38, 0                              \* NOP; HLT; LAST: JMP LAST
>>

(* two timers at once, one of them again, and the timer of seconds *)
Waiting == <<
  62, 1, 211, 50, 211, 24, 58, 128, 0, 211, 25, 58, 130, 0,  \* MVI A,1; OUT 50; OUT 24; LDA X; OUT 25; LDA Y
  211, 27, 219, 27, 183, 194, 16, 0, 211, 50, 219, 24,  \* OUT 27; EARLY: IN 27; ORA A; JNZ EARLY; OUT 50; LATE: IN 24
  183, 194, 24, 0, 211, 50, 58, 128, 0, 211, 25, 219, 25,  \* ORA A; JNZ LATE; OUT 50; LDA X; OUT 25; AGAIN: IN 25
  183, 194, 37, 0, 211, 50, 58, 142, 0, 211, 30, 219, 30,  \* ORA A; JNZ AGAIN; OUT 50; LDA N; OUT 30; SLOW: IN 30
  183, 194, 50, 0, 211, 50, 195, 58, 0            \* ORA A; JNZ SLOW; OUT 50; END: JMP END
>>

-----------------------------------------------------------------------------
Program == <<Wide, Decimal, Product, Recursive, Sort, Echo, Direct, Waiting>>

MCCells == 0..175

(* The memory in which the program n starts: its operands are x. *)
Image(n, x) ==
  [a \in MCCells |-> IF a < Len(Program[n]) THEN Program[n][a + 1]
                    ELSE IF a - 127 \in 1..Len(x) THEN x[a - 127]
                    ELSE IF a = 143 THEN n ELSE 0]

Some == {0, 1, 15, 127, 128, 255}
Packed == {0, 1, 9, 16, 66, 88, 114, 120, 130, 153}     \* two decimal digits in a byte
Tens == {0, 32, 153}

AllImages ==
  {Image(1, <<a, b, c, d>>) : a, c \in Some, b, d \in {0, 127, 255}}
  \cup {Image(2, <<a, b, c, d>>) : a, c \in Packed, b, d \in Tens}
  \cup {Image(3, <<a, 0, b>>) : a, b \in Some \cup {3, 85, 170}}
  \cup {Image(4, <<n>>) : n \in 0..6}
  \cup {Image(5, <<a, b, c>>) : a, b, c \in {0, 1, 127, 128, 255}}
  \cup {Image(6, <<>>), Image(7, <<>>)}
  \cup {[Image(8, <<a, 0, b>>) EXCEPT ![142] = s] : a \in {50, 200}, b \in {0, 200}, s \in {1, 2}}

-----------------------------------------------------------------------------
Running(n) == memory[143] = n
Halted == Op = 195 /\ Immediate16 = pc
X(i) == memory[128 + i]
R(i) == memory[132 + i]
Pair(lo, hi) == lo + 256 * hi

(* Keys are struck, and the clock moves, while one of the programs runs that
   can tell, the clock only where an instruction is about to look at it. *)
MCTick == Running(8) /\ Op \in {211, 219} /\ ClockTick
MCType == memory[143] \in {6, 7} /\ KeyStruck

MCNext == AltairCycle \/ MCType \/ MCTick
MCSpec == AltairInit /\ [][MCNext]_altairVars /\ WF_altairVars(AltairCycle) /\ SF_altairVars(MCTick)

WideResult ==
  LET x == Pair(X(0), X(1))  y == Pair(X(2), X(3)) IN
  /\ Pair(R(0), R(1)) = (x + y) % 65536
  /\ R(2) = (x + y) \div 65536
  /\ Pair(R(3), R(4)) = (x + y) % 65536
  /\ Pair(R(5), R(6)) = (x + 65536 - y) % 65536
  /\ R(7) = IF x < y THEN 1 ELSE 0
  /\ R(9) = IF X(0) = X(2) THEN 0 ELSE IF X(0) < X(2) THEN 1 ELSE 2

ProductResult ==
  /\ Pair(R(0), R(1)) = X(0) * X(2)
  /\ X(2) # 0 => R(3) = X(0) \div X(2) /\ R(2) = X(0) % X(2)
  /\ R(4) = Cardinality(BitsOf[X(0)])
  /\ R(5) = R(4) % 2

SortResult == X(0) <= X(1) /\ X(1) <= X(2) /\ R(3) = 0

Decimal2(v) == 10 * (v \div 16) + (v % 16)

(* The packed sums are right as long as the binary ones are below FA. *)
DecimalResult ==
  LET low  == Decimal2(X(0)) + Decimal2(X(2))
      high == Decimal2(X(1)) + Decimal2(X(3)) + (low \div 100)
  IN X(0) + X(2) < 250 =>
       /\ Decimal2(R(0)) = low % 100
       /\ X(1) + X(3) + (low \div 100) < 250 => /\ Decimal2(R(1)) = high % 100
                                                /\ R(2) = high \div 100

Fib[n \in Nat] == IF n < 2 THEN n ELSE Fib[n - 1] + Fib[n - 2]

RecursiveResult == R(0) = Fib[X(0)] /\ Pair(R(1), R(2)) = 176 /\ sp = 176

Sent == SelectSeq(sent, LAMBDA p : p[1] = 1)
Echoed == [i \in DOMAIN Sent |-> Sent[i][2]]

(* What was echoed is what was typed before the carriage return; the rest is left. *)
EchoResult == typed = Echoed \o <<13>> \o Pending

\* What the program of the timers has waited, from mark to mark.
WaitResult ==
  /\ marks[2] - marks[1] >= X(2)
  /\ marks[3] - marks[1] >= 256 + X(0)
  /\ marks[4] - marks[3] >= X(0)
  /\ marks[5] - marks[4] > (memory[142] - 1) * Second

(* What the programs have computed is what arithmetic says: with the two's
   complement subtraction (i8080_gensub), the carry that ADC and SBB add to
   their operand, the shifts through the carry and the conditional jumps; with
   packed decimals and their carries (i8080_daa), below a binary sum of FA,
   where the handler begins to forget carries; and with calls by RST, CALL or
   a condition, that come back to where they were made, with the registers
   that were pushed and the stack where it was (i8080_call, i8080_ret,
   i8080_push, i8080_pop, i8080_xthl). What a program echoes is what was typed
   (i8080_in, i8080_out); two timers that run at once, one started again after
   it expired, and the timer of seconds have a program wait as long as it asked
   (time_output, time_input). *)
ProgramsRight ==
  Halted => /\ Running(1) => WideResult
            /\ Running(2) => DecimalResult
            /\ Running(3) => ProductResult
            /\ Running(4) => RecursiveResult
            /\ Running(5) => SortResult
            /\ memory[143] \in {6, 7} => EchoResult
            /\ Running(8) => WaitResult

(* A program of computation ends, a program that waits for its timers ends, and so does a program that waits for
   characters once the carriage return has come. *)
Halts == (memory[143] \in (1..5) \cup {8} \/ Contains(typed, 13)) ~> Halted
=============================================================================
