----------------------------- MODULE TimePorts -----------------------------
(***************************************************************************)
(* The timers of time_io.c: three of milliseconds, started through two     *)
(* ports each, and one of seconds. A timer is a target time that the       *)
(* program's own IN compares with the clock; 0 is no timer.                *)
(***************************************************************************)
EXTENDS Integers

CONSTANTS
  Second,      \* 1000 in the program
  Steps,       \* by how many milliseconds the clock is seen to move
  MaxNow       \* bound: the clock moves on only up to here, or for a timer

ASSUME TimeAssumption ==
  /\ Second \in Nat \ {0}
  /\ Steps \subseteq Nat \ {0}
  /\ MaxNow \in Nat

VARIABLES
  now,         \* dx_getElapsedMilliseconds
  target,      \* ms_timer_targets
  delay,       \* ms_timer_delays
  seconds      \* seconds_timer_target

timeVars == <<now, target, delay, seconds>>

Timers == 0..2
Delays == {d \in Nat : d < 65536}  \* uint16_t
Ports24 == 24..30
Timer(port) == (port - 24) \div 2
Elapsed == now \div Second

TimeTypeOK ==
  /\ now \in Nat /\ seconds \in Nat
  /\ target \in [Timers -> Nat]
  /\ delay \in [Timers -> Delays]

TimeInit == /\ now = 0 /\ seconds = 0
            /\ target = [t \in Timers |-> 0]
            /\ delay = [t \in Timers |-> 0]

(* the even ports: the high byte, which starts nothing *)
SetHigh(t, data) ==
  /\ delay' = [delay EXCEPT ![t] = (@ % 256) + 256 * data]
  /\ UNCHANGED <<now, target, seconds>>

(* the odd ports: the low byte, and the timer runs *)
SetLow(t, data) ==
  LET whole == 256 * (delay[t] \div 256) + data IN
  /\ delay' = [delay EXCEPT ![t] = whole]
  /\ target' = [target EXCEPT ![t] = now + whole]
  /\ UNCHANGED <<now, seconds>>

SetSeconds(data) == seconds' = Elapsed + data /\ UNCHANGED <<now, target, delay>>

TimeOut(port, data) ==
  \/ port \in {24, 26, 28} /\ SetHigh(Timer(port), data)
  \/ port \in {25, 27, 29} /\ SetLow(Timer(port), data)
  \/ port = 30 /\ SetSeconds(data)

TimeRuns(t) == target[t] > now
TimeExpired(t) == target[t] > 0 /\ now >= target[t]

\* Variant of Forget: the delay is kept for the next start.
ForgetTarget(t) ==
  /\ target' = [target EXCEPT ![t] = IF TimeExpired(t) THEN 0 ELSE @]
  /\ UNCHANGED <<now, delay, seconds>>

(* An IN that finds its timer expired stops it, and clears both its bytes. *)
Forget(t) ==
  /\ target' = [target EXCEPT ![t] = IF TimeExpired(t) THEN 0 ELSE @]
  /\ delay' = [delay EXCEPT ![t] = IF TimeExpired(t) THEN 0 ELSE @]
  /\ UNCHANGED <<now, seconds>>

TimeIn(port, answer) ==
  \/ /\ port < 30
     /\ answer = IF TimeRuns(Timer(port)) THEN 1 ELSE 0
     /\ Forget(Timer(port))
  \/ /\ port = 30
     /\ answer = IF seconds > Elapsed THEN 1 ELSE 0
     /\ seconds' = IF seconds > Elapsed THEN seconds ELSE 0
     /\ UNCHANGED <<now, target, delay>>

Tick ==
  /\ now < MaxNow \/ seconds > Elapsed \/ \E t \in Timers : TimeRuns(t)
  /\ \E k \in Steps : now' = now + k
  /\ UNCHANGED <<target, delay, seconds>>
=============================================================================
