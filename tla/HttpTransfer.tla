---------------------------- MODULE HttpTransfer ----------------------------
(***************************************************************************)
(* Copying a file from a web server into the machine: src/PortDrivers/     *)
(* http_io.c with its reader, dxwebcpy of AppSamples/gf/gf.c.              *)
(*                                                                         *)
(* The CPU thread runs the reader: OUT 114 starts a transfer, IN 33 polls  *)
(* the status without the mutex, IN 201 takes a byte.  The transfer thread *)
(* runs curl, whose write_data callback hands the file over through one    *)
(* chunk and waits, with a time-out, until the reader emptied it.  A new   *)
(* transfer cancels the thread of the old one asynchronously.              *)
(*                                                                         *)
(* Byte i of the file of transfer x is <<x, i>>; NUL is what IN 201        *)
(* returns when there is no data.                                          *)
(***************************************************************************)
EXTENDS Naturals, Sequences

CONSTANTS ChunkSize,    \* CHUNK_SIZE
          MaxFile,      \* bound: longest file, in bytes
          MaxBlock,     \* bound: most bytes curl passes to one callback
          MaxTransfers  \* bound: transfers started in a behaviour

ASSUME TransferAssumption ==
  /\ ChunkSize \in Nat \ {0}
  /\ MaxFile \in Nat
  /\ MaxBlock \in Nat \ {0}
  /\ MaxTransfers \in Nat

VARIABLES
  lock,      \* webget_mutex: who holds it
  chunk,     \* the bytes of chunk_buffer that were not read yet
  complete,  \* transfer_complete
  status,    \* webget.status
  active,    \* transfer_thread_active and transfer_thread # 0
  net,       \* the transfer thread: where it is and what it works on
  dying,     \* pthread_cancel was called on the transfer thread
  cpu,       \* where the CPU thread is
  xfer,      \* number of transfers started; the last one is current
  size,      \* length of the current file
  got,       \* what the reader received of it
  result,    \* what dxwebcpy reported of it
  outcome    \* history: how curl ended on the current file

vars == <<lock, chunk, complete, status, active, net, dying, cpu, xfer, size, got,
          result, outcome>>
webget == <<chunk, complete, status>>
reader == <<cpu, xfer, size, got, result>>
task == <<xfer, size, got, result, outcome>>

Statuses == {"EOF", "WAITING", "DATA_READY", "FAILED"}
Nul == <<0, 0>>
File(x, n) == [i \in 1..n |-> <<x, i>>]

\* The transfer thread: its step, the transfer it was created for, the bytes of the
\* file that earlier callbacks took, the size of this callback's block and how much
\* of it is done, and curl's result.
NoThread == [at |-> "none", x |-> 0, off |-> 0, block |-> 0, done |-> 0, ok |-> TRUE]

Init ==
  /\ lock = "free"
  /\ chunk = <<>> /\ complete = FALSE /\ status = "EOF"
  /\ active = FALSE
  /\ net = NoThread /\ dying = FALSE
  /\ cpu = "idle" /\ xfer = 0 /\ size = 0 /\ got = <<>> /\ result = "none"
  /\ outcome = "none"

-----------------------------------------------------------------------------
(* The CPU thread *)

\* The caller asks for a file: OUT 114 ends the name.  A reader may give up on the
\* file it is reading (a warm boot) and ask for another one.
Ask ==
  /\ cpu \in {"idle", "poll"}
  /\ xfer < MaxTransfers
  /\ cpu' = "lock"
  /\ UNCHANGED <<lock, webget, active, net, dying, task>>

\* start_web_transfer from its initialisation on; pthread_create may fail.
Begin ==
  /\ chunk' = <<>>
  /\ complete' = FALSE
  /\ xfer' = xfer + 1
  /\ got' = <<>>
  /\ result' = "running" /\ outcome' = "none"
  /\ size' \in 0..MaxFile
  /\ cpu' = "poll"
  /\ dying' = FALSE
  /\ \/ /\ status' = "WAITING"
        /\ active' = TRUE
        /\ net' = [NoThread EXCEPT !.at = "begin", !.x = xfer + 1]
     \/ /\ status' = "FAILED"
        /\ active' = FALSE
        /\ net' = NoThread

\* Variant of Woken: nobody is told.
WokenNot == net

\* cleanup_webget_resources: the broadcast wakes a waiting callback.
Cleanup == chunk' = <<>> /\ complete' = TRUE /\ status' = "FAILED"
Woken == IF net.at = "wait" THEN [net EXCEPT !.at = "woken"] ELSE net

StartFresh ==
  /\ cpu = "lock" /\ lock = "free" /\ ~active
  /\ Begin
  /\ UNCHANGED lock

\* The mutex is released before the old thread is cancelled.
StartOverOld ==
  /\ cpu = "lock" /\ lock = "free" /\ active
  /\ Cleanup
  /\ net' = Woken
  /\ active' = FALSE
  /\ cpu' = "cancel"
  /\ UNCHANGED <<lock, dying, task>>

Cancel ==
  /\ cpu = "cancel"
  /\ dying' = (net.at # "none")
  /\ cpu' = "join"
  /\ UNCHANGED <<lock, webget, active, net, task>>

Join ==
  /\ cpu = "join" /\ net.at = "none"
  /\ cpu' = "relock"
  /\ UNCHANGED <<lock, webget, active, net, dying, task>>

StartAfterJoin ==
  /\ cpu = "relock" /\ lock = "free"
  /\ Begin
  /\ UNCHANGED lock

\* dxwebcpy polls port 33, which reads the status without the mutex.
Poll ==
  /\ cpu = "poll"
  /\ CASE status = "EOF" -> cpu' = "idle" /\ result' = "done"
       [] status = "FAILED" -> cpu' = "idle" /\ result' = "failed"
       [] status = "DATA_READY" -> cpu' = "read" /\ UNCHANGED result
       [] status = "WAITING" -> UNCHANGED <<cpu, result>>
  /\ UNCHANGED <<lock, webget, active, net, dying, xfer, size, got, outcome>>

\* IN 201 with data: the last byte of a chunk signals the callback.
TakeByte(last) ==
  /\ chunk # <<>>
  /\ got' = Append(got, Head(chunk))
  /\ chunk' = Tail(chunk)
  /\ IF Len(chunk) = 1
     THEN status' = last /\ net' = Woken
     ELSE status' = "DATA_READY" /\ UNCHANGED net

\* IN 201 without data: the reader gets a NUL.
TakeNothing ==
  /\ chunk = <<>>
  /\ got' = Append(got, Nul)
  /\ status' = IF complete THEN "EOF" ELSE "WAITING"
  /\ UNCHANGED <<chunk, net>>

ReadFrame == /\ cpu' = "poll"
             /\ UNCHANGED <<lock, complete, active, dying, xfer, size, result, outcome>>

\* Variant of Read: the end of the file is not told.
ReadNoEnd == cpu = "read" /\ lock = "free" /\ (TakeByte("WAITING") \/ TakeNothing)
             /\ ReadFrame

Read ==
  /\ cpu = "read" /\ lock = "free"
  /\ TakeByte(IF complete THEN "EOF" ELSE "WAITING") \/ TakeNothing
  /\ ReadFrame

-----------------------------------------------------------------------------
(* The transfer thread *)

At(step) == net.at = step
To(step) == net' = [net EXCEPT !.at = step]
Ends(ok) == net' = [net EXCEPT !.at = "finish", !.ok = ok]

\* copy_web sets the status without the mutex before curl runs.
CurlStarts ==
  /\ At("begin")
  /\ status' = "WAITING"
  /\ To("curl")
  /\ UNCHANGED <<lock, chunk, complete, active, dying, reader, outcome>>

\* curl calls write_data with the next block, or is through, or fails: no network, an
\* HTTP error, its 20 second limit.
CurlBlock ==
  /\ At("curl")
  /\ \E n \in 1..MaxBlock :
       /\ net.off + n <= size
       /\ net' = [net EXCEPT !.at = "callback", !.block = n, !.done = 0]
  /\ UNCHANGED <<lock, webget, active, dying, reader, outcome>>

CurlEnds ==
  /\ At("curl")
  /\ (net.off = size /\ Ends(TRUE)) \/ Ends(FALSE)
  /\ UNCHANGED <<lock, webget, active, dying, reader, outcome>>

\* Entering a critical section: write_data, or the end of copy_web or of the thread.
Acquire ==
  /\ net.at \in {"callback", "woken", "finish", "exit"}
  /\ lock = "free"
  /\ lock' = "net"
  /\ To(CASE At("callback") -> "fill" [] At("woken") -> "resume"
          [] At("finish") -> "ending" [] At("exit") -> "leaving")
  /\ UNCHANGED <<webget, active, dying, reader, outcome>>

\* The block of this callback is copied one chunk at a time.
CopyChunk ==
  LET rest == net.block - net.done
      n == IF rest > ChunkSize THEN ChunkSize ELSE rest
      from == net.off + net.done
  IN /\ chunk' = [i \in 1..n |-> <<net.x, from + i>>]
     /\ status' = "DATA_READY"
     /\ IF n = rest
        THEN /\ lock' = "free"
             /\ net' = [net EXCEPT !.at = "return", !.done = @ + n]
        ELSE /\ UNCHANGED lock
             /\ net' = [net EXCEPT !.at = "fill", !.done = @ + n]

\* Variant of Fill: an unread chunk is overwritten.
FillOver ==
  /\ At("fill") /\ status # "FAILED"
  /\ CopyChunk
  /\ UNCHANGED <<complete, active, dying, reader, outcome>>

\* The loop of write_data, holding the mutex: a failed transfer aborts the callback,
\* an unread chunk makes it wait, an empty one is filled.
Fill ==
  /\ At("fill")
  /\ \/ status = "FAILED" /\ lock' = "free" /\ Ends(FALSE) /\ UNCHANGED <<chunk, status>>
     \/ /\ status # "FAILED" /\ chunk # <<>>
        /\ lock' = "free" /\ To("wait") /\ UNCHANGED <<chunk, status>>
     \/ status # "FAILED" /\ chunk = <<>> /\ CopyChunk
  /\ UNCHANGED <<complete, active, dying, reader, outcome>>

\* Woken with the mutex: wait again, leave the loop, or go on.
Resume ==
  /\ At("resume")
  /\ \/ status = "FAILED" /\ lock' = "free" /\ To("return")
     \/ status # "FAILED" /\ chunk # <<>> /\ lock' = "free" /\ To("wait")
     \/ status # "FAILED" /\ chunk = <<>> /\ To("fill") /\ UNCHANGED lock
  /\ UNCHANGED <<webget, active, dying, reader, outcome>>

\* pthread_cond_timedwait gives up after 5 seconds; the callback is cut short, which
\* curl takes for a write error.
WaitTimesOut ==
  /\ net.at \in {"wait", "woken"} /\ lock = "free"
  /\ status' = "FAILED"
  /\ Ends(FALSE)
  /\ UNCHANGED <<lock, chunk, complete, active, dying, reader, outcome>>

\* write_data looks at the status once more, without the mutex.
Return ==
  /\ At("return")
  /\ IF status = "FAILED"
     THEN Ends(FALSE)
     ELSE net' = [net EXCEPT !.at = "curl", !.off = @ + net.block]
  /\ UNCHANGED <<lock, webget, active, dying, reader, outcome>>

\* The end of copy_web.
Ending ==
  /\ At("ending")
  /\ IF net.ok
     THEN /\ complete' = TRUE
          /\ status' = IF chunk # <<>> THEN "DATA_READY" ELSE "EOF"
          /\ UNCHANGED chunk
     ELSE Cleanup
  /\ outcome' = IF net.ok THEN "ok" ELSE "failed"
  /\ lock' = "free"
  /\ To("exit")
  /\ UNCHANGED <<active, dying, reader>>

\* transfer_thread_func unregisters the thread, which then is gone.
Leaving ==
  /\ At("leaving")
  /\ active' = FALSE
  /\ lock' = "free"
  /\ net' = NoThread
  /\ UNCHANGED <<webget, dying, reader, outcome>>

\* Asynchronous cancellation strikes anywhere, also between lock and unlock; in the
\* condition wait the mutex is taken back first.  Nobody unlocks it afterwards.
Die ==
  /\ dying /\ ~At("none")
  /\ \/ net.at \in {"wait", "woken"} /\ lock = "free" /\ lock' = "net"
     \/ net.at \notin {"wait", "woken"} /\ UNCHANGED lock
  /\ net' = NoThread
  /\ UNCHANGED <<webget, active, dying, reader, outcome>>

-----------------------------------------------------------------------------
CpuThread == \/ StartFresh \/ StartOverOld \/ Cancel \/ Join \/ StartAfterJoin
             \/ Poll \/ Read
Curl == CurlStarts \/ CurlBlock \/ CurlEnds
TransferThread == \/ Curl \/ Acquire \/ Fill \/ Resume \/ WaitTimesOut
                  \/ Return \/ Ending \/ Leaving \/ Die

Next == Ask \/ CpuThread \/ TransferThread

\* Both threads are scheduled, curl ends after at most 20 seconds, a wait after 5.
Fairness == WF_vars(CpuThread) /\ WF_vars(TransferThread)

Spec == Init /\ [][Next]_vars
FairSpec == Spec /\ Fairness

-----------------------------------------------------------------------------
(* Properties *)

TypeOK ==
  /\ lock \in {"free", "net"}
  /\ chunk \in Seq((1..MaxTransfers) \X (1..MaxFile)) /\ Len(chunk) <= ChunkSize
  /\ complete \in BOOLEAN /\ status \in Statuses /\ active \in BOOLEAN
  /\ net.at \in {"none", "begin", "curl", "callback", "fill", "wait", "woken",
                 "resume", "return", "finish", "ending", "exit", "leaving"}
  /\ net.off + net.done <= 2 * MaxFile /\ net.done <= net.block
  /\ dying \in BOOLEAN
  /\ cpu \in {"idle", "lock", "cancel", "join", "relock", "poll", "read"}
  /\ xfer \in 0..MaxTransfers /\ size \in 0..MaxFile
  /\ result \in {"none", "running", "done", "failed"}
  /\ outcome \in {"none", "ok", "failed"}

\* Whatever the interleaving of callbacks, time-outs, cancellation and reads, the bytes the
\* reader gets are those of the file it asked for, each at its place: none is lost, doubled,
\* out of order or left over from the transfer that was cancelled.
FilePrefix ==
  \A i \in DOMAIN got : got[i] # Nul => i <= size /\ got[i] = <<xfer, i>>

\* The end of the file is told to the reader only after curl ended, and when curl ended
\* well the reader has the whole file by then: what is still in the chunk is read first.
WholeFileAtEnd ==
  result = "done" => outcome # "none" /\ (outcome = "ok" => got = File(xfer, size))

\* The NUL that IN 201 answers with when it has no data gets into a file only after curl
\* failed: port 33 promises data only when there is some, and only a failure takes it back.
NulOnlyAfterFailure == (\E i \in DOMAIN got : got[i] = Nul) => outcome = "failed"

\* Whatever the interleaving of callbacks, time-outs, cancellation and reads, the reader of a
\* file copies it byte by byte; it gets the NUL that IN 201 answers without data only
\* after curl failed, and is told the end only when it has the file, or curl failed.
Copies == INSTANCE StreamCopy WITH
  Filler <- Nul,
  transfer <- xfer,
  source <- File(xfer, size),
  closed <- CASE outcome = "none" -> "no" [] outcome = "ok" -> "well" [] outcome = "failed" -> "badly",
  copy <- got,
  report <- IF result \in {"done", "failed"} THEN result ELSE "open",
  spoiled <- FALSE
Implements == Copies!Spec

\* Neither side waits for the other in vain: the callback waits only while there is something
\* for the reader, the reader is told of it, and while the reader is told to wait the
\* transfer thread has still something to do that is not to wait.
NobodyWaitsInVain ==
  /\ At("wait") => chunk # <<>> /\ status # "FAILED"
  /\ cpu = "poll" /\ chunk # <<>> => status \in {"DATA_READY", "FAILED"}
  /\ cpu = "poll" /\ status = "WAITING" => net.at \notin {"none", "wait", "exit", "leaving"}

\* A thread that was cancelled between lock and unlock keeps the mutex for ever.
MutexLost == lock = "net" /\ At("none")

\* A reader that polls is told the end or the failure of its file in the end, however
\* curl, its callbacks and their time-outs go, and however often it gives up and asks for
\* another file: the only way to hang is a cancellation inside a critical section.
TransferEnds == result = "running" ~> result # "running" \/ MutexLost
=============================================================================
