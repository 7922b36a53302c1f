----------------------------- MODULE WebConsole -----------------------------
(***************************************************************************)
(* The output half of the web terminal, src/web_console.c, with the CPU    *)
(* mode callbacks of src/main.c that sessions trigger.                     *)
(*                                                                         *)
(* Threads: the CPU thread (terminal output), the event-loop thread (the   *)
(* 20 ms flush timer) and one web-socket thread per client, which runs     *)
(* onopen, onmessage and onclose of that client.  They share the atomic    *)
(* current_client, the CPU mode and the mutex-protected output ring; every *)
(* load, store and critical section is a step of its own, but for ctrl-M's *)
(* change of the mode, which the code makes with a load and a store.       *)
(*                                                                         *)
(* A terminal byte is the number it got when it entered the ring, so the   *)
(* order of production is the order of the numbers.                        *)
(***************************************************************************)
EXTENDS Naturals, Sequences, FiniteSets

CONSTANTS Clients,     \* connections the server hands out, ids never reused
          MaxClients,  \* MAX_CLIENTS: connections served at the same time
          RingSize,    \* TERMINAL_OUTPUT_BUFFER_SIZE
          MaxLength,   \* longest message a web-socket thread publishes
          MaxBytes,    \* bound: no publish starts once this many bytes entered
          SlowCpu,     \* altair_config.slow_cpu_on_disconnect
          NoClient, Cpu, Timer

Threads == {Cpu, Timer} \cup Clients

ASSUME ConsoleAssumption ==
  /\ RingSize \in Nat \ {0}
  /\ MaxLength \in Nat \ {0}
  /\ MaxBytes \in Nat
  /\ MaxClients \in Nat
  /\ SlowCpu \in BOOLEAN
  /\ NoClient \notin Clients
  /\ Cpu \notin Clients /\ Timer \notin Clients /\ Cpu # Timer

VARIABLES
  current,  \* current_client
  conn,     \* the server's view of each connection
  mode,     \* atomic_cpu_operating_mode
  first,    \* print_console_banner's static flag
  ring,     \* terminal_output_buffer, oldest byte first
  stamp,    \* number of bytes that ever entered the ring
  pc,       \* where each thread is
  ret,      \* where a thread continues after publish_message or a flush
  cli,      \* the client a flush loaded
  frame,    \* temp_buffer of a flush
  rx        \* the frames each client received, with the thread that sent them

vars == <<current, conn, mode, first, ring, stamp, pc, ret, cli, frame, rx>>

Modes == {"RUNNING", "STOPPED", "LOW_POWER"}
ConnStates == {"absent", "open", "closing", "closed"}
Labels == {"idle", "burst", "accept", "store", "banner", "run", "slow", "end",
           "enqueue", "flush", "drain", "send", "error"}

Init ==
  /\ current = NoClient
  /\ conn = [c \in Clients |-> "absent"]
  /\ mode = "STOPPED"
  /\ first = TRUE
  /\ ring = <<>>
  /\ stamp = 0
  /\ pc = [t \in Threads |-> "idle"]
  /\ ret = [t \in Threads |-> IF t = Cpu THEN "burst"
                             ELSE IF t = Timer THEN "idle" ELSE "banner"]
  /\ cli = [t \in Threads |-> NoClient]
  /\ frame = [t \in Threads |-> <<>>]
  /\ rx = [c \in Clients |-> <<>>]

session == <<current, conn, mode, first>>
output == <<ring, stamp, frame, rx>>

-----------------------------------------------------------------------------
(* publish_message and the flush, run by any thread t *)

Goto(t, to) == pc' = [pc EXCEPT ![t] = to]

\* ws_close_client(c): a close frame is sent; c's own thread will run onclose.
Closing(c) == [conn EXCEPT ![c] = IF @ = "open" THEN "closing" ELSE @]

\* publish_message up to the check for a client: without one the message is gone.
Publish(t) ==
  /\ stamp < MaxBytes
  /\ Goto(t, IF current = NoClient THEN ret[t] ELSE "enqueue")
  /\ UNCHANGED <<ret, cli, output>>

Lengths(t) == IF t = Cpu THEN {1} ELSE 1..MaxLength

\* enqueue_terminal_output's critical section: what does not fit is dropped.
Enqueue(t) ==
  /\ pc[t] = "enqueue"
  /\ \E n \in Lengths(t) :
       LET room == RingSize - Len(ring)
           k == IF n <= room THEN n ELSE room
       IN /\ ring' = ring \o [i \in 1..k |-> stamp + i]
          /\ stamp' = stamp + k
          /\ Goto(t, IF Len(ring) + k >= RingSize THEN "flush" ELSE ret[t])
  /\ UNCHANGED <<session, ret, cli, frame, rx>>

\* flush_terminal_output_buffer loads the client before it takes the lock.
FlushLoad(t) ==
  /\ IF current = NoClient
     THEN Goto(t, ret[t]) /\ UNCHANGED cli
     ELSE Goto(t, "drain") /\ cli' = [cli EXCEPT ![t] = current]
  /\ UNCHANGED <<session, output, ret>>

\* Variant of TimerFlush: only a full ring is flushed.
TimerFlushWhenFull == pc[Timer] = "idle" /\ Len(ring) = RingSize /\ FlushLoad(Timer)

ProducerFlush(t) == pc[t] = "flush" /\ FlushLoad(t)
TimerFlush == pc[Timer] = "idle" /\ FlushLoad(Timer)

NothingToSend(t) ==
  /\ ring = <<>>
  /\ Goto(t, ret[t])
  /\ cli' = [cli EXCEPT ![t] = NoClient]
  /\ UNCHANGED <<frame, ring>>

\* Thread t takes the bytes of data into its temporary buffer and leaves rest.
Take(t, data, rest) ==
  /\ ring # <<>>
  /\ Goto(t, "send")
  /\ frame' = [frame EXCEPT ![t] = data]
  /\ ring' = rest
  /\ UNCHANGED cli

\* The critical section of the flush, and variants of it:
\* the copy stops one short; the newest byte goes first; it waits for data.
DrainOneShort(t) ==
  /\ pc[t] = "drain" /\ (NothingToSend(t) \/ Take(t, Tail(ring), <<>>))
  /\ UNCHANGED <<session, ret, stamp, rx>>
DrainNewest(t) ==
  /\ pc[t] = "drain"
  /\ NothingToSend(t) \/ Take(t, <<ring[Len(ring)]>>, SubSeq(ring, 1, Len(ring) - 1))
  /\ UNCHANGED <<session, ret, stamp, rx>>
DrainWaits(t) ==
  /\ pc[t] = "drain" /\ Take(t, ring, <<>>)
  /\ UNCHANGED <<session, ret, stamp, rx>>

Drain(t) ==
  /\ pc[t] = "drain" /\ (NothingToSend(t) \/ Take(t, ring, <<>>))
  /\ UNCHANGED <<session, ret, stamp, rx>>

\* ws_sendframe outside the lock.  An open connection takes the frame; on one that
\* is going away the call may still report success; it fails on a closed one.
SendOk(t) ==
  /\ pc[t] = "send"
  /\ \/ /\ conn[cli[t]] = "open"
        /\ rx' = [rx EXCEPT ![cli[t]] = Append(@, [by |-> t, data |-> frame[t]])]
     \/ conn[cli[t]] = "closing" /\ UNCHANGED rx
  /\ frame' = [frame EXCEPT ![t] = <<>>]
  /\ cli' = [cli EXCEPT ![t] = NoClient]
  /\ Goto(t, ret[t])
  /\ UNCHANGED <<session, ret, ring, stamp>>

SendFail(t) ==
  /\ pc[t] = "send"
  /\ conn[cli[t]] \in {"closing", "closed"}
  /\ frame' = [frame EXCEPT ![t] = <<>>]
  /\ Goto(t, "error")
  /\ UNCHANGED <<session, ret, cli, ring, stamp, rx>>

\* handle_websocket_error clears current_client, whoever it names by now.
HandleError(t) ==
  /\ pc[t] = "error"
  /\ conn' = Closing(cli[t])
  /\ current' = NoClient
  /\ cli' = [cli EXCEPT ![t] = NoClient]
  /\ Goto(t, ret[t])
  /\ UNCHANGED <<mode, first, output, ret>>

-----------------------------------------------------------------------------
(* The CPU thread: it reads the mode only between bursts of 1000 cycles *)

CpuReadMode ==
  /\ pc[Cpu] = "idle"
  /\ mode # "STOPPED"
  /\ Goto(Cpu, "burst")
  /\ UNCHANGED <<session, output, ret, cli>>

TerminalWrite == pc[Cpu] = "burst" /\ Publish(Cpu) /\ UNCHANGED session

CpuBurstEnds ==
  /\ pc[Cpu] = "burst"
  /\ Goto(Cpu, "idle")
  /\ UNCHANGED <<session, output, ret, cli>>

-----------------------------------------------------------------------------
(* The web-socket thread of client c *)

Served == {c \in Clients : conn[c] \in {"open", "closing"}}

Connect(c) ==
  /\ conn[c] = "absent" /\ pc[c] = "idle"
  /\ Cardinality(Served) < MaxClients
  /\ conn' = [conn EXCEPT ![c] = "open"]
  /\ Goto(c, "accept")
  /\ UNCHANGED <<current, mode, first, output, ret, cli>>

\* The browser goes away, or the network does.
PeerGone(c) ==
  /\ conn[c] = "open"
  /\ conn' = Closing(c)
  /\ UNCHANGED <<current, mode, first, output, pc, ret, cli>>

OnOpenEvict(c) ==
  /\ pc[c] = "accept"
  /\ conn' = IF current = NoClient THEN conn ELSE Closing(current)
  /\ Goto(c, "store")
  /\ UNCHANGED <<current, mode, first, output, ret, cli>>

OnOpenStore(c) ==
  /\ pc[c] = "store"
  /\ current' = c
  /\ first' = FALSE
  /\ Goto(c, IF first THEN "banner" ELSE "run")
  /\ UNCHANGED <<conn, mode, output, ret, cli>>

Banner(c) ==
  /\ pc[c] = "banner"
  /\ \/ Publish(c)
     \/ Goto(c, "run") /\ UNCHANGED <<output, ret, cli>>
  /\ UNCHANGED session

ConnectedCb(c) ==
  /\ pc[c] = "run"
  /\ mode' = "RUNNING"
  /\ Goto(c, "idle")
  /\ ret' = [ret EXCEPT ![c] = "idle"]
  /\ UNCHANGED <<current, conn, first, output, cli>>

\* onmessage: the echo of a monitor line, or ctrl-M, which answers with a prompt
\* when it stops the CPU.
OnMessage(c) ==
  /\ pc[c] = "idle"
  /\ conn[c] = "open"
  /\ \/ mode = "STOPPED" /\ Publish(c) /\ UNCHANGED mode
     \/ mode = "RUNNING" /\ mode' = "STOPPED" /\ Publish(c)
     \/ /\ mode # "RUNNING" /\ mode' = "RUNNING"
        /\ UNCHANGED <<pc, output, ret, cli>>
  /\ UNCHANGED <<current, conn, first>>

\* Variant of OnClose: the session is not cleared.
OnCloseKeeps(c) ==
  /\ pc[c] = "idle" /\ conn[c] = "closing"
  /\ Goto(c, "slow")
  /\ UNCHANGED <<session, output, ret, cli>>

\* onclose clears current_client even when it only logged that c is not current.
OnClose(c) ==
  /\ pc[c] = "idle"
  /\ conn[c] = "closing"
  /\ current' = NoClient
  /\ Goto(c, "slow")
  /\ UNCHANGED <<conn, mode, first, output, ret, cli>>

DisconnectCb(c) ==
  /\ pc[c] = "slow"
  /\ mode' = IF SlowCpu THEN "LOW_POWER" ELSE mode
  /\ conn' = [conn EXCEPT ![c] = "closed"]
  /\ Goto(c, "end")
  /\ UNCHANGED <<current, first, output, ret, cli>>

-----------------------------------------------------------------------------
PublishSteps(t) == \/ Enqueue(t) \/ ProducerFlush(t) \/ Drain(t)
                   \/ SendOk(t) \/ SendFail(t) \/ HandleError(t)

CpuThread == CpuReadMode \/ TerminalWrite \/ CpuBurstEnds \/ PublishSteps(Cpu)
TimerThread == TimerFlush \/ PublishSteps(Timer)
Handlers(c) == \/ OnOpenEvict(c) \/ OnOpenStore(c) \/ Banner(c) \/ ConnectedCb(c)
               \/ OnClose(c) \/ DisconnectCb(c) \/ PublishSteps(c)

Next == \/ CpuThread
        \/ TimerThread
        \/ \E c \in Clients : \/ Connect(c) \/ PeerGone(c) \/ OnMessage(c)
                              \/ Handlers(c)

\* The operating system schedules every thread and the timer repeats; users need
\* not connect, type or leave, and the program in the machine need not print.
Fairness == /\ WF_vars(TimerThread)
            /\ WF_vars(CpuReadMode \/ CpuBurstEnds \/ PublishSteps(Cpu))
            /\ \A c \in Clients : WF_vars(Handlers(c))

Spec == Init /\ [][Next]_vars
FairSpec == Spec /\ Fairness

-----------------------------------------------------------------------------
(* Properties *)

SessionType ==
  /\ current \in Clients \cup {NoClient}
  /\ conn \in [Clients -> ConnStates]
  /\ mode \in Modes
  /\ first \in BOOLEAN

ThreadType ==
  /\ pc \in [Threads -> Labels]
  /\ ret \in [Threads -> {"idle", "burst", "banner"}]
  /\ cli \in [Threads -> Clients \cup {NoClient}]

OutputType ==
  /\ ring \in Seq(Nat) /\ Len(ring) <= RingSize
  /\ stamp \in Nat
  /\ frame \in [Threads -> Seq(Nat)]
  /\ rx \in [Clients -> Seq([by : Threads, data : Seq(Nat)])]

TypeOK == SessionType /\ ThreadType /\ OutputType

BytesOf(s) == {s[i] : i \in DOMAIN s}

\* The bytes of the i-th frame client c received.
Got(c, i) == BytesOf(rx[c][i].data)

\* A byte is never sent twice: the ring, the temporary buffers of concurrent
\* flushes and the frames already received, of all clients together, share no byte.
\* It rests on enqueue_terminal_output and flush_terminal_output_buffer moving
\* bytes only under the mutex while the send itself runs outside.
NoByteTwice ==
  /\ \A t \in Threads : BytesOf(ring) \cap BytesOf(frame[t]) = {}
  /\ \A t, u \in Threads : t # u => BytesOf(frame[t]) \cap BytesOf(frame[u]) = {}
  /\ \A c \in Clients : \A i \in DOMAIN rx[c] :
       /\ Got(c, i) \cap BytesOf(ring) = {}
       /\ \A t \in Threads : Got(c, i) \cap BytesOf(frame[t]) = {}
       /\ \A d \in Clients : \A j \in DOMAIN rx[d] :
            <<c, i>> # <<d, j>> => Got(c, i) \cap Got(d, j) = {}

\* What enqueue_terminal_output accepted is lost only with a connection: while no
\* client has left, every byte is in the ring, in a flush or with a client.
NothingLostWhileAllStay ==
  (\A c \in Clients : conn[c] \in {"absent", "open"}) =>
    1..stamp \subseteq
      BytesOf(ring)
        \cup (UNION {BytesOf(frame[t]) : t \in Threads})
        \cup (UNION {UNION {Got(c, i) : i \in DOMAIN rx[c]} : c \in Clients})

\* Frames can overtake one another only when different threads flush: a client
\* receives the frames of each one thread in the order they were produced.
OrderPerFlusher ==
  \A c \in Clients : \A i, j \in DOMAIN rx[c] :
    i < j /\ rx[c][i].by = rx[c][j].by =>
      \A x \in Got(c, i), y \in Got(c, j) : x < y

\* A client whose onclose is done is never current again, so later output is not
\* addressed to it, however onopen and onclose of other clients interleave.
NoDeadCurrent == \A c \in Clients : conn[c] = "closed" => current # c

\* A byte waiting in the ring gets out: the ring is emptied, or there is no session.
BufferedOutputIsSent == ring # <<>> ~> (ring = <<>> \/ current = NoClient)

\* A connection that was superseded, failed or left gives its slot back (there are
\* only MaxClients of them): its thread cannot stay in onopen or in a flush.
SlotsAreFreed == \A c \in Clients : conn[c] = "closing" ~> conn[c] = "closed"

-----------------------------------------------------------------------------
(* What a comment of the code says, and the code does not do: refuted by a run *)

\* onclose, "Validate that we're closing the current client" (web_console.c:494):
\* closing one connection would leave another client's session alone.
CloseEndsOwnSession ==
  [][\A c \in Clients : OnClose(c) => current \in {c, NoClient}]_vars

=============================================================================
