----------------------------- MODULE PortProofs -----------------------------
(***************************************************************************)
(* Proofs about both sides of the ports. About HttpTransfer, for every     *)
(* size of the chunk, every length of the files and of curl's blocks, and  *)
(* any number of transfers: the reader gets the bytes of the file it asked *)
(* for, each at its place, is told the end when it has them all, and reads *)
(* a NUL only after a failure; so it implements StreamCopy; and neither    *)
(* side waits for the other in vain. And about Altair, for every content   *)
(* of memory and every answer of a port: widths, arithmetic, the stack,    *)
(* the order of characters, and how long a timer runs.                     *)
(***************************************************************************)
EXTENDS HttpTransfer, Altair, SequenceTheorems, TLAPS

-----------------------------------------------------------------------------
(* The web file transfer *)

NetSteps == {"none", "begin", "curl", "callback", "fill", "wait", "woken", "resume", "return",
             "finish", "ending", "exit", "leaving"}
Record == [at : NetSteps, x : Nat, off : Nat, block : Nat, done : Nat, ok : BOOLEAN]
Cell == Nat \X Nat

\* A callback is under way, and how much of the file the callbacks have taken.
Copying == net.at \in {"callback", "fill", "wait", "woken", "resume", "return"}
Copied == IF Copying THEN net.off + net.done ELSE net.off
\* The CPU thread takes the place of the old thread: nobody reads.
Stopping == cpu \in {"cancel", "join", "relock"}
Ended == net.at \in {"exit", "leaving", "none"}

Types ==
  /\ lock \in {"free", "net"} /\ complete \in BOOLEAN /\ active \in BOOLEAN
  /\ dying \in BOOLEAN /\ status \in Statuses
  /\ cpu \in {"idle", "lock", "cancel", "join", "relock", "poll", "read"}
  /\ result \in {"none", "running", "done", "failed"}
  /\ outcome \in {"none", "ok", "failed"}
  /\ xfer \in 0..MaxTransfers /\ size \in 0..MaxFile
  /\ chunk \in Seq(Cell) /\ Len(chunk) <= ChunkSize /\ got \in Seq(Cell)
  /\ net \in Record

\* The thread is that of the current transfer, and gone before the next one.
Threads ==
  /\ net.at # "none" => net.x = xfer /\ xfer >= 1
  /\ ~active /\ ~Stopping => net.at = "none"
  /\ cpu = "relock" => net.at = "none"
  /\ dying => Stopping
  /\ cpu = "lock" \/ Stopping => xfer < MaxTransfers
  /\ Copying \/ net.at = "curl" => (status = "FAILED" => cpu \in {"cancel", "join"})

Blocks ==
  /\ net.off <= size /\ net.done <= net.block /\ net.off + net.done <= 2 * size
  /\ Copying => net.block >= 1 /\ net.off + net.block <= size
  /\ net.at \in {"callback", "fill", "wait", "woken", "resume"} => net.done < net.block
  /\ net.at = "return" => net.done = net.block \/ status = "FAILED"

\* What the reader has and what is in the chunk are one beginning of the file; while the
\* file is copied, all that was copied.
Stream ==
  /\ \A i \in 1..Len(chunk) : chunk[i] = <<xfer, Len(got) + i>>
  /\ chunk # <<>> => Len(got) + Len(chunk) <= size /\ xfer >= 1
  /\ FilePrefix /\ NulOnlyAfterFailure
  /\ net.at = "begin" => got = <<>> /\ chunk = <<>> /\ net.off = 0
  /\ Copying \/ net.at = "curl" =>
       Len(got) + Len(chunk) = Copied \/ (status = "FAILED" /\ chunk = <<>>)
  /\ (net.at \in {"finish", "ending"} /\ net.ok) \/ outcome = "ok" =>
       Len(got) + Len(chunk) = size \/ Stopping

\* Data is promised when there is some, and the end when curl ended.
Promises ==
  /\ status = "DATA_READY" => chunk # <<>> \/ outcome = "failed"
  /\ cpu = "read" => chunk # <<>> \/ outcome = "failed"
  /\ status = "EOF" => chunk = <<>>
  /\ outcome # "none" => Ended
  /\ net.at \in {"exit", "leaving"} => outcome # "none"
  /\ outcome = "failed" => chunk = <<>>
  /\ cpu \in {"poll", "read"} => 
       result = "running" /\ (complete \/ status = "EOF" => outcome # "none")
  /\ WholeFileAtEnd

IInv == Types /\ Threads /\ Blocks /\ Stream /\ Promises

LEMMA NoThreadType == NoThread \in Record /\ NoThread.at = "none" /\ NoThread.off = 0
                      /\ NoThread.done = 0 /\ NoThread.block = 0
  BY DEF NoThread, Record, NetSteps

LEMMA EmptyChunk == <<>> \in Seq(Cell) /\ Len(<<>>) <= ChunkSize
  BY TransferAssumption

\* What does not depend on where the CPU thread is.
LEMMA CpuGoes ==
  ASSUME IInv, Ask \/ Cancel \/ Join
  PROVE  IInv'
<1>1. /\ UNCHANGED <<lock, webget, active, net, xfer, size, got, result, outcome>>
      /\ cpu' \in {"lock", "join", "relock"} /\ dying' \in BOOLEAN
      /\ cpu' \in {"join", "relock"} => Stopping
      /\ cpu' = "lock" => ~Stopping /\ dying' = dying /\ xfer < MaxTransfers
      /\ cpu' = "relock" => net.at = "none"
  BY DEF IInv, Types, Ask, Cancel, Join, Stopping, task
<1>2. Types'
  BY <1>1 DEF IInv, Types, webget
<1>3. Threads'
  BY <1>1 DEF IInv, Types, Threads, Stopping, Copying, webget
<1>4. Blocks'
  BY <1>1 DEF IInv, Blocks, Copying, webget
<1>5. Stream'
  BY <1>1 DEF IInv, Stream, Stopping, Copying, Copied, FilePrefix, NulOnlyAfterFailure, webget
<1>6. Promises'
  BY <1>1 DEF IInv, Promises, Ended, WholeFileAtEnd, webget
<1> QED
  BY <1>2, <1>3, <1>4, <1>5, <1>6 DEF IInv

LEMMA StartsOver ==
  ASSUME IInv, StartOverOld
  PROVE  IInv'
<1>1. /\ UNCHANGED <<lock, dying, xfer, size, got, result, outcome>>
      /\ chunk' = <<>> /\ complete' = TRUE /\ status' = "FAILED"
      /\ active' = FALSE /\ cpu' = "cancel" /\ cpu = "lock"
  BY DEF StartOverOld, Cleanup, task
<1>2. /\ net' \in Record /\ net'.x = net.x /\ net'.off = net.off /\ net'.block = net.block
      /\ net'.done = net.done /\ net'.ok = net.ok
      /\ net'.at = IF net.at = "wait" THEN "woken" ELSE net.at
  BY DEF StartOverOld, Woken, IInv, Types, Record, NetSteps
<1>3. Types'
  <2>1. chunk' \in Seq(Cell) /\ Len(chunk') <= ChunkSize
    BY <1>1, EmptyChunk
  <2>2. complete' \in BOOLEAN /\ active' \in BOOLEAN /\ status' \in Statuses
        /\ cpu' \in {"idle", "lock", "cancel", "join", "relock", "poll", "read"}
    BY <1>1 DEF Statuses
  <2> QED
    BY <1>1, <1>2, <2>1, <2>2 DEF IInv, Types
<1>4. Threads'
  BY <1>1, <1>2 DEF IInv, Threads, Stopping, Copying
<1>5. Blocks'
  BY <1>1, <1>2 DEF IInv, Blocks, Copying
<1>6. Stream'
  BY <1>1, <1>2 DEF IInv, Stream, Stopping, Copying, FilePrefix, NulOnlyAfterFailure
<1>7. Promises'
  BY <1>1, <1>2 DEF IInv, Promises, Ended, WholeFileAtEnd, File
<1> QED
  BY <1>3, <1>4, <1>5, <1>6, <1>7 DEF IInv

LEMMA Begins ==
  ASSUME IInv, StartFresh \/ StartAfterJoin
  PROVE  IInv'
<1>1. Begin /\ lock' = lock /\ net.at = "none" /\ xfer < MaxTransfers
  BY DEF StartFresh, StartAfterJoin, IInv, Threads, Stopping
<1>2. /\ chunk' = <<>> /\ complete' = FALSE /\ xfer' = xfer + 1 /\ got' = <<>>
      /\ result' = "running" /\ outcome' = "none" /\ size' \in 0..MaxFile /\ cpu' = "poll"
      /\ dying' = FALSE /\ active' \in BOOLEAN
      /\ \/ status' = "WAITING" /\ active' = TRUE
         \/ status' = "FAILED" /\ active' = FALSE
  BY <1>1 DEF Begin
<1>3. xfer \in Nat /\ xfer + 1 \in 1..MaxTransfers /\ size' \in Nat
  BY <1>1, <1>2, TransferAssumption DEF IInv, Types
<1>4. /\ net' \in Record /\ net'.off = 0 /\ net'.done = 0 /\ net'.block = 0
      /\ \/ net'.at = "begin" /\ net'.x = xfer' /\ status' = "WAITING" /\ active' = TRUE
         \/ net'.at = "none" /\ status' = "FAILED" /\ active' = FALSE
  <2>1. CASE net' = [NoThread EXCEPT !.at = "begin", !.x = xfer + 1]
    <3>1. net' = [at |-> "begin", x |-> xfer + 1, off |-> 0, block |-> 0, done |-> 0, ok |-> TRUE]
      BY <2>1 DEF NoThread
    <3>2. net' \in Record
      BY <1>3, <3>1 DEF Record, NetSteps
    <3>3. status' = "WAITING" /\ active' = TRUE
      BY <1>1, <2>1, NoThreadType, <3>1 DEF Begin
    <3> QED
      BY <1>2, <3>1, <3>2, <3>3
  <2>2. CASE net' = NoThread /\ status' = "FAILED" /\ active' = FALSE
    BY <2>2, NoThreadType
  <2> QED
    BY <1>1, <2>1, <2>2 DEF Begin
<1>5. Types'
  <2>1. chunk' \in Seq(Cell) /\ Len(chunk') <= ChunkSize /\ got' \in Seq(Cell)
    BY <1>2, EmptyChunk
  <2>3. complete' \in BOOLEAN /\ dying' \in BOOLEAN
    BY <1>2
  <2>4. /\ cpu' \in {"idle", "lock", "cancel", "join", "relock", "poll", "read"}
        /\ result' \in {"none", "running", "done", "failed"}
        /\ outcome' \in {"none", "ok", "failed"}
    BY <1>2
  <2>5. active' \in BOOLEAN /\ size' \in 0..MaxFile /\ net' \in Record
    BY <1>2, <1>4
  <2>2. lock' \in {"free", "net"} /\ status' \in Statuses /\ xfer' \in 0..MaxTransfers
    BY <1>1, <1>2, <1>3 DEF IInv, Types, Statuses
  <2> QED
    BY <2>1, <2>2, <2>3, <2>4, <2>5 DEF Types
<1>6. Threads'
  BY <1>2, <1>3, <1>4 DEF Threads, Stopping, Copying
<1>7. Blocks'
  <2>1. net'.at \in {"begin", "none"} /\ net'.off = 0 /\ net'.done = 0 /\ net'.block = 0
    BY <1>4
  <2>2. size' >= 0 /\ 2 * size' >= 0
    <3>1. \A n \in Nat : n >= 0 /\ 2 * n >= 0
      OBVIOUS
    <3> QED
      BY <1>3, <3>1
  <2> QED
    BY <2>1, <2>2 DEF Blocks, Copying
<1>8. Stream'
  BY <1>2, <1>4 DEF Stream, Copying, FilePrefix, NulOnlyAfterFailure
<1>9. Promises'
  BY <1>2, <1>4 DEF Promises, WholeFileAtEnd
<1> QED
  BY <1>5, <1>6, <1>7, <1>8, <1>9 DEF IInv

\* A reader that has as many bytes as the file is long has the file.
LEMMA HasAll ==
  ASSUME IInv, outcome = "ok", Len(got) = size
  PROVE  got = File(xfer, size)
<1>1. got \in Seq(Cell) /\ size \in Nat
  BY TransferAssumption DEF IInv, Types
<1>2. \A i \in 1..size : got[i] = <<xfer, i>>
  BY <1>1, SMTT(30) DEF IInv, Stream, FilePrefix, NulOnlyAfterFailure
<1>3. got = [i \in 1..size |-> got[i]]
  BY <1>1
<1> QED
  BY <1>2, <1>3 DEF File

LEMMA Polls ==
  ASSUME IInv, Poll
  PROVE  IInv'
<1>1. /\ UNCHANGED <<lock, webget, active, net, dying, xfer, size, got, outcome>>
      /\ cpu = "poll" /\ cpu' \in {"idle", "read", "poll"}
      /\ cpu' = "read" => status = "DATA_READY"
      /\ result' \in {result, "done", "failed"}
      /\ result' = "done" => status = "EOF" \/ result = "done"
      /\ cpu' # "idle" => result' = result
  BY DEF IInv, Types, Statuses, Poll
<1>2. Types'
  BY <1>1 DEF IInv, Types, webget
<1>3. Threads'
  BY <1>1 DEF IInv, Threads, Stopping, Copying, webget
<1>4. Blocks'
  BY <1>1 DEF IInv, Blocks, Copying, webget
<1>5. Stream'
  BY <1>1 DEF IInv, Stream, Stopping, Copying, Copied, FilePrefix, NulOnlyAfterFailure, webget
<1>6. WholeFileAtEnd'
  <2> SUFFICES ASSUME result' = "done"
               PROVE  outcome # "none" /\ (outcome = "ok" => got = File(xfer, size))
    BY <1>1 DEF WholeFileAtEnd, File
  <2>1. status = "EOF" /\ outcome # "none" /\ chunk = <<>>
    BY <1>1 DEF IInv, Promises
  <2>2. outcome = "ok" => Len(got) = size
    BY <1>1, <2>1 DEF IInv, Types, Stream, Stopping
  <2> QED
    BY <2>1, <2>2, HasAll
<1>7. Promises'
  BY <1>1, <1>6 DEF IInv, Promises, Ended, webget
<1> QED
  BY <1>2, <1>3, <1>4, <1>5, <1>7 DEF IInv

LEMMA Reads ==
  ASSUME IInv, Read
  PROVE  IInv'
<1>1. /\ UNCHANGED <<lock, complete, active, dying, xfer, size, result, outcome>>
      /\ cpu = "read" /\ cpu' = "poll" /\ result = "running"
      /\ got \in Seq(Cell) /\ chunk \in Seq(Cell) /\ Len(chunk) <= ChunkSize
      /\ Len(got) \in Nat /\ Len(chunk) \in Nat /\ size \in Nat /\ xfer \in Nat
  BY TransferAssumption DEF Read, ReadFrame, IInv, Types, Promises
<1>2. /\ status' \in {"EOF", "WAITING", "DATA_READY"}
      /\ status' = "EOF" => complete
  BY DEF Read, TakeByte, TakeNothing
<1>3. /\ net' \in Record /\ net'.x = net.x /\ net'.off = net.off /\ net'.block = net.block
      /\ net'.done = net.done /\ net'.ok = net.ok
      /\ net'.at = net.at \/ (net.at = "wait" /\ net'.at = "woken")
  <2>1. net' = net \/ net' = Woken
    BY DEF Read, TakeByte, TakeNothing
  <2> QED
    BY <2>1 DEF Woken, IInv, Types, Record, NetSteps
<1>4. Threads'
  BY <1>1, <1>2, <1>3 DEF IInv, Threads, Stopping, Copying
<1>5. Blocks'
  <2>1. Copying => status # "FAILED"
    BY <1>1 DEF IInv, Threads
  <2> QED
    BY <1>1, <1>2, <1>3, <2>1 DEF IInv, Blocks, Copying
<1>6. CASE chunk # <<>> /\ TakeByte(IF complete THEN "EOF" ELSE "WAITING")
  <2>1. /\ got' = Append(got, chunk[1]) /\ chunk' = Tail(chunk)
        /\ status' = "DATA_READY" => Len(chunk) # 1
        /\ status' = "EOF" => Len(chunk) = 1
    BY <1>1, <1>6 DEF TakeByte
  <2>2. /\ got' \in Seq(Cell) /\ Len(got') = Len(got) + 1
        /\ got'[Len(got) + 1] = chunk[1] /\ \A i \in 1..Len(got) : got'[i] = got[i]
        /\ chunk' \in Seq(Cell) /\ Len(chunk') = Len(chunk) - 1 /\ Len(chunk) >= 1
        /\ \A i \in 1..Len(chunk') : i + 1 \in 1..Len(chunk) /\ chunk'[i] = chunk[i + 1]
    BY <1>1, <1>6, <2>1
  <2>3. /\ chunk[1] = <<xfer, Len(got) + 1>> /\ Len(got) + 1 <= size /\ xfer >= 1
        /\ chunk[1] # Nul
    <3>1. 1 \in 1..Len(chunk)
      BY <2>2
    <3>2. chunk[1] = <<xfer, Len(got) + 1>> /\ Len(got) + Len(chunk) <= size /\ xfer >= 1
      BY <1>6, <3>1 DEF IInv, Stream
    <3> QED
      BY <1>1, <2>2, <3>2 DEF Nul
  <2>4. Types'
    <3>1. Len(chunk') <= ChunkSize /\ status' \in Statuses
      BY <1>1, <1>2, <2>2, TransferAssumption DEF Statuses
    <3> QED
      BY <1>1, <1>3, <2>2, <3>1 DEF IInv, Types
  <2>5. \A i \in 1..Len(chunk') : chunk'[i] = <<xfer', Len(got') + i>>
    <3>1. ASSUME NEW i \in 1..Len(chunk')
          PROVE  chunk'[i] = <<xfer', Len(got') + i>>
      <4>1. chunk'[i] = <<xfer, Len(got) + (i + 1)>>
        BY <2>2 DEF IInv, Stream
      <4>2. Len(got) + (i + 1) = Len(got') + i
        BY <1>1, <2>2
      <4> QED
        BY <1>1, <4>1, <4>2
    <3> QED
      BY <3>1
  <2>6. FilePrefix'
    <3>1. DOMAIN got = 1..Len(got) /\ DOMAIN got' = 1..(Len(got) + 1)
      BY <1>1, <2>2
    <3>2. ASSUME NEW i \in 1..(Len(got) + 1), got'[i] # Nul
          PROVE  i <= size /\ got'[i] = <<xfer, i>>
      <4>1. CASE i \in 1..Len(got)
        BY <2>2, <3>1, <3>2, <4>1 DEF IInv, Stream, FilePrefix
      <4>2. CASE i = Len(got) + 1
        BY <2>2, <2>3, <4>2
      <4> QED
        BY <1>1, <4>1, <4>2
    <3> QED
      BY <1>1, <3>1, <3>2 DEF FilePrefix, Nul
  <2>7. NulOnlyAfterFailure'
    <3>1. DOMAIN got = 1..Len(got) /\ DOMAIN got' = 1..(Len(got) + 1)
      BY <1>1, <2>2
    <3>2. ASSUME NEW i \in 1..(Len(got) + 1), got'[i] = Nul
          PROVE  i \in 1..Len(got) /\ got[i] = Nul
      <4>1. i # Len(got) + 1
        BY <2>2, <2>3, <3>2
      <4>2. i \in 1..Len(got)
        BY <1>1, <4>1
      <4> QED
        BY <2>2, <3>2, <4>2
    <3> QED
      BY <1>1, <3>1, <3>2 DEF IInv, Stream, NulOnlyAfterFailure, Nul
  <2>8. Len(got') + Len(chunk') = Len(got) + Len(chunk)
    BY <1>1, <2>2
  <2>9. Stream'
    <3>1. chunk' # <<>> => Len(got') + Len(chunk') <= size' /\ xfer' >= 1
      BY <1>1, <1>6, <2>3, <2>8 DEF IInv, Stream
    <3>2. net'.at # "begin"
      BY <1>3, <1>6 DEF IInv, Stream
    <3>3. Copying' \/ net'.at = "curl" => Len(got') + Len(chunk') = Copied'
      <4>1. Copying' = Copying /\ Copied' = Copied
        BY <1>3 DEF Copying, Copied
      <4>2. Copying \/ net.at = "curl" => status # "FAILED"
        BY <1>1 DEF IInv, Threads
      <4> QED
        BY <1>3, <2>8, <4>1, <4>2 DEF IInv, Stream, Copying
    <3>4. (net'.at \in {"finish", "ending"} /\ net'.ok) \/ outcome' = "ok" =>
            Len(got') + Len(chunk') = size'
      BY <1>1, <1>3, <2>8 DEF IInv, Stream, Stopping
    <3> QED
      BY <2>5, <2>6, <2>7, <3>1, <3>2, <3>3, <3>4 DEF Stream
  <2>10. Promises'
    <3>1. status' = "DATA_READY" => chunk' # <<>>
      <4>1. status' = "DATA_READY" => Len(chunk') # 0
        BY <1>1, <2>1, <2>2
      <4> QED
        BY <4>1
    <3>2. status' = "EOF" => chunk' = <<>>
      BY <1>1, <2>1, <2>2
    <3>3. outcome' # "failed"
      BY <1>1, <1>6 DEF IInv, Promises
    <3> QED
      BY <1>1, <1>2, <1>3, <3>1, <3>2, <3>3 DEF IInv, Promises, Ended, WholeFileAtEnd
  <2> QED
    BY <1>4, <1>5, <2>4, <2>9, <2>10 DEF IInv
<1>7. CASE chunk = <<>> /\ TakeNothing
  <2>1. /\ outcome = "failed" /\ net.at \in {"exit", "leaving", "none"}
        /\ got' = Append(got, Nul) /\ chunk' = <<>> /\ net' = net /\ status' # "DATA_READY"
    BY <1>1, <1>7 DEF TakeNothing, IInv, Promises, Ended
  <2>2. Nul \in Cell
    BY DEF Nul, Cell
  <2>3. /\ got' \in Seq(Cell) /\ Len(got') = Len(got) + 1
        /\ got'[Len(got) + 1] = Nul /\ \A i \in 1..Len(got) : got'[i] = got[i]
    BY <1>1, <2>1, <2>2
  <2>4. Types'
    <3>1. status' \in Statuses /\ chunk' \in Seq(Cell) /\ Len(chunk') <= ChunkSize
      BY <1>2, <2>1, EmptyChunk DEF Statuses
    <3> QED
      BY <1>1, <1>3, <2>3, <3>1 DEF IInv, Types
  <2>5. FilePrefix'
    <3>1. DOMAIN got = 1..Len(got) /\ DOMAIN got' = 1..(Len(got) + 1)
      BY <1>1, <2>3
    <3>2. ASSUME NEW i \in 1..(Len(got) + 1), got'[i] # Nul
          PROVE  i \in 1..Len(got) /\ got'[i] = got[i]
      BY <1>1, <2>3, <3>2
    <3> QED
      BY <1>1, <3>1, <3>2 DEF IInv, Stream, FilePrefix, Nul
  <2>6. Stream'
    BY <1>1, <2>1, <2>5 DEF Stream, NulOnlyAfterFailure, Copying
  <2>7. Promises'
    BY <1>1, <1>2, <2>1 DEF IInv, Promises, Ended, WholeFileAtEnd
  <2> QED
    BY <1>4, <1>5, <2>4, <2>6, <2>7 DEF IInv
<1> QED
  BY <1>6, <1>7 DEF Read, TakeByte, TakeNothing

-----------------------------------------------------------------------------
(* The transfer thread *)

\* The CPU thread's part of the state stays.
NetFrame == UNCHANGED <<active, dying, cpu, xfer, size, got, result>>

LEMMA NetFacts ==
  ASSUME IInv
  PROVE  /\ net \in Record /\ got \in Seq(Cell) /\ chunk \in Seq(Cell)
         /\ Len(got) \in Nat /\ Len(chunk) \in Nat /\ size \in Nat /\ xfer \in Nat
         /\ net.off \in Nat /\ net.done \in Nat /\ net.block \in Nat /\ net.x \in Nat
         /\ net.at # "none" => net.x = xfer /\ xfer >= 1
BY TransferAssumption DEF IInv, Types, Threads, Record

\* curl, and the steps of the thread between two places of its code that change nothing
\* but where it is, how far the callbacks are, and the mutex.
LEMMA NetMoves ==
  ASSUME IInv, NetFrame, UNCHANGED <<webget, outcome>>, lock' \in {"free", "net"},
         net' \in Record, net'.x = net.x, net.at # "none", net'.at # "begin",
         Blocks', net'.at = "none" => net.at \in {"leaving"} \/ Stopping,
         Copying' \/ net'.at = "curl" => Copying \/ net.at = "curl",
         Copying' \/ net'.at = "curl" => Copied' = Copied,
         net'.at \in {"finish", "ending"} /\ net'.ok =>
           \/ net.at = "finish" /\ net.ok
           \/ net.at = "curl" /\ net.off = size,
         net'.at \in {"exit", "leaving"} => net.at \in {"exit", "leaving"},
         net.at \in {"exit", "leaving"} => net'.at \in {"exit", "leaving"}
  PROVE  IInv'
<1>1. Types'
  BY DEF IInv, Types, NetFrame, webget
<1>2. Threads'
  BY DEF IInv, Threads, NetFrame, webget, Stopping
<1>3. Stream'
  <2>1. FilePrefix' /\ NulOnlyAfterFailure'
    BY DEF IInv, Stream, FilePrefix, NulOnlyAfterFailure, NetFrame
  <2>2. Copying' \/ net'.at = "curl" =>
          Len(got) + Len(chunk) = Copied' \/ (status = "FAILED" /\ chunk = <<>>)
    <3> SUFFICES ASSUME Copying' \/ net'.at = "curl"
                 PROVE  Len(got) + Len(chunk) = Copied' \/ (status = "FAILED" /\ chunk = <<>>)
      OBVIOUS
    <3> QED
      BY DEF IInv, Stream
  <2>3. (net'.at \in {"finish", "ending"} /\ net'.ok) \/ outcome = "ok" =>
          Len(got) + Len(chunk) = size \/ Stopping
    BY DEF IInv, Threads, Stream, Stopping, Copied, Copying
  <2> QED
    BY <2>1, <2>2, <2>3 DEF IInv, Stream, NetFrame, webget, Stopping
<1>4. Promises'
  BY DEF IInv, Promises, Ended, WholeFileAtEnd, NetFrame, webget
<1> QED
  BY <1>1, <1>2, <1>3, <1>4 DEF IInv

LEMMA CurlMoves ==
  ASSUME IInv, Curl
  PROVE  IInv'
<1>1. CASE CurlStarts
  <2>1. /\ UNCHANGED <<lock, chunk, complete, outcome>> /\ NetFrame /\ status' = "WAITING"
        /\ net.at = "begin" /\ net' = [net EXCEPT !.at = "curl"]
    BY <1>1 DEF CurlStarts, At, To, reader, NetFrame
  <2>2. /\ net' \in Record /\ net'.at = "curl" /\ net'.x = net.x /\ net'.off = net.off
        /\ net'.block = net.block /\ net'.done = net.done
    BY <2>1, NetFacts DEF Record, NetSteps
  <2>3. Types'
    BY <2>1, <2>2 DEF IInv, Types, NetFrame, Statuses
  <2>4. Threads' /\ Blocks'
    BY <2>1, <2>2 DEF IInv, Threads, Blocks, NetFrame, Copying, Stopping
  <2>5. Stream'
    BY <2>1, <2>2, NetFacts
       DEF IInv, Stream, NetFrame, Copying, Copied, FilePrefix, NulOnlyAfterFailure, Stopping
  <2>6. Promises'
    BY <2>1, <2>2 DEF IInv, Promises, NetFrame, Ended, WholeFileAtEnd
  <2> QED
    BY <2>3, <2>4, <2>5, <2>6 DEF IInv
<1>2. CASE CurlBlock
  <2>1. PICK n \in 1..MaxBlock :
          net.off + n <= size /\ net' = [net EXCEPT !.at = "callback", !.block = n, !.done = 0]
    BY <1>2 DEF CurlBlock
  <2>2. UNCHANGED <<lock, webget, outcome>> /\ NetFrame /\ net.at = "curl" /\ n \in Nat /\ n >= 1
    BY <1>2, TransferAssumption DEF CurlBlock, At, reader, NetFrame
  <2>3. /\ net' \in Record /\ net'.at = "callback" /\ net'.x = net.x /\ net'.off = net.off
        /\ net'.block = n /\ net'.done = 0
    BY <2>1, <2>2, NetFacts DEF Record, NetSteps
  <2>4. Blocks'
    BY <2>1, <2>2, <2>3, NetFacts DEF IInv, Blocks, Copying, NetFrame
  <2>5. Copying' /\ ~Copying /\ Copied' = Copied
    BY <2>2, <2>3, NetFacts DEF Copying, Copied
  <2> QED
    BY <2>2, <2>3, <2>4, <2>5, NetMoves DEF IInv, Types
<1>3. CASE CurlEnds
  <2>1. PICK ok \in BOOLEAN : net' = [net EXCEPT !.at = "finish", !.ok = ok] /\ (ok => net.off = size)
    BY <1>3 DEF CurlEnds, Ends
  <2>2. UNCHANGED <<lock, webget, outcome>> /\ NetFrame /\ net.at = "curl"
    BY <1>3 DEF CurlEnds, At, reader, NetFrame
  <2>3. /\ net' \in Record /\ net'.at = "finish" /\ net'.x = net.x /\ net'.off = net.off
        /\ net'.block = net.block /\ net'.done = net.done /\ net'.ok = ok
    BY <2>1, NetFacts DEF Record, NetSteps
  <2>4. Blocks' /\ ~Copying'
    BY <2>2, <2>3 DEF IInv, Blocks, Copying, NetFrame
  <2> QED
    BY <2>1, <2>2, <2>3, <2>4, NetMoves DEF IInv, Types
<1> QED
  BY <1>1, <1>2, <1>3 DEF Curl

\* A step from one place of a callback to the next, or of the thread's end.
LEMMA PlaceMoves ==
  ASSUME IInv, NetFrame, UNCHANGED <<webget, outcome>>, lock' \in {"free", "net"},
         NEW to \in NetSteps, To(to),
         \/ net.at = "callback" /\ to = "fill"
         \/ net.at = "woken" /\ to = "resume"
         \/ net.at = "finish" /\ to = "ending"
         \/ net.at = "exit" /\ to = "leaving"
         \/ net.at = "fill" /\ to = "wait"
         \/ net.at = "resume" /\ to \in {"wait", "fill"}
         \/ net.at = "resume" /\ to = "return" /\ status = "FAILED"
  PROVE  IInv'
<1>1. net' = [net EXCEPT !.at = to]
  BY DEF To
<1>2. /\ net' \in Record /\ net'.at = to /\ net'.x = net.x /\ net'.off = net.off
      /\ net'.block = net.block /\ net'.done = net.done /\ net'.ok = net.ok
  BY <1>1, NetFacts DEF Record
<1>3. Blocks'
  BY <1>2 DEF IInv, Blocks, Copying, NetFrame, webget
<1>4. Copying' \/ net'.at = "curl" => Copying /\ Copied' = Copied
  BY <1>2 DEF Copying, Copied
<1> QED
  BY <1>2, <1>3, <1>4, NetMoves

\* A callback that is given up: what it says is not ok.
LEMMA GivesUp ==
  ASSUME IInv, NetFrame, UNCHANGED <<chunk, complete, outcome>>, lock' \in {"free", "net"},
         status' = status \/ (status' = "FAILED" /\ net.at \in {"wait", "woken"}),
         Ends(FALSE), Copying
  PROVE  IInv'
<1>1. /\ net' \in Record /\ net'.at = "finish" /\ net'.x = net.x /\ net'.off = net.off
      /\ net'.block = net.block /\ net'.done = net.done /\ net'.ok = FALSE
  BY NetFacts DEF Ends, Record, NetSteps
<1>2. Types'
  BY <1>1 DEF IInv, Types, NetFrame, Statuses
<1>3. Threads' /\ Blocks'
  BY <1>1 DEF IInv, Threads, Blocks, NetFrame, Copying, Stopping
<1>4. Stream'
  BY <1>1 DEF IInv, Stream, NetFrame, Copying, Copied, FilePrefix, NulOnlyAfterFailure, Stopping
<1>5. Promises'
  BY <1>1 DEF IInv, Promises, NetFrame, Ended, WholeFileAtEnd, Copying
<1> QED
  BY <1>2, <1>3, <1>4, <1>5 DEF IInv

LEMMA Returns ==
  ASSUME IInv, Return
  PROVE  IInv'
<1>1. /\ NetFrame /\ UNCHANGED <<lock, webget, outcome>> /\ net.at = "return" /\ Copying
      /\ lock' \in {"free", "net"}
  BY DEF Return, At, reader, NetFrame, Copying, IInv, Types
<1>2. CASE Ends(FALSE)
  BY <1>1, <1>2, GivesUp DEF webget
<1>3. CASE status # "FAILED" /\ net' = [net EXCEPT !.at = "curl", !.off = @ + net.block]
  <2>1. /\ net' \in Record /\ net'.at = "curl" /\ net'.x = net.x
        /\ net'.off = net.off + net.block /\ net'.block = net.block /\ net'.done = net.done
    <3>1. net.off + net.block \in Nat
      BY NetFacts
    <3> QED
      BY <1>3, <3>1, NetFacts DEF Record, NetSteps
  <2>2. net.done = net.block /\ net.off + net.block <= size
    BY <1>1, <1>3 DEF IInv, Blocks
  <2>3. ~Copying' /\ Copied' = Copied
    BY <1>1, <2>1, <2>2 DEF Copying, Copied
  <2>4. Blocks'
    <3>1. \A o, b, s \in Nat : o + b <= s => b <= b /\ (o + b) + b <= 2 * s
      OBVIOUS
    <3>2. (net.off + net.block) + net.block <= 2 * size /\ net.block <= net.block
      BY <2>2, <3>1, NetFacts
    <3>3. net'.at = "curl" /\ size' = size /\ net'.done = net'.block
      BY <1>1, <2>1, <2>2 DEF NetFrame
    <3> QED
      BY <2>1, <2>2, <2>3, <3>2, <3>3 DEF Blocks
  <2> QED
    BY <1>1, <2>1, <2>3, <2>4, NetMoves
<1> QED
  BY <1>2, <1>3 DEF Return

\* The next part of a block goes into the empty chunk.
LEMMA CopiesOn ==
  ASSUME IInv, At("fill"), status # "FAILED", chunk = <<>>, CopyChunk, NetFrame,
         UNCHANGED <<complete, outcome>>
  PROVE  IInv'
<1> DEFINE rest == net.block - net.done
           n == IF rest > ChunkSize THEN ChunkSize ELSE rest
           from == net.off + net.done
<1>1. /\ net.at = "fill" /\ net.done < net.block /\ net.off + net.block <= size
      /\ net.x = xfer /\ xfer >= 1 /\ Len(got) = from
  BY NetFacts DEF At, IInv, Blocks, Stream, Copying, Copied
<1>2. /\ n \in 1..ChunkSize /\ n <= rest /\ rest \in Nat /\ from \in Nat /\ from + n <= size
      /\ net.done + n <= net.block /\ (n = rest => net.done + n = net.block)
      /\ (n # rest => net.done + n < net.block)
  BY <1>1, NetFacts, TransferAssumption, SMTT(30)
<1>3. /\ chunk' = [i \in 1..n |-> <<net.x, from + i>>] /\ status' = "DATA_READY"
      /\ lock' \in {"free", lock}
      /\ net' = [net EXCEPT !.at = IF n = rest THEN "return" ELSE "fill", !.done = net.done + n]
  BY DEF CopyChunk
<1> HIDE DEF n, rest, from
<1>4. /\ chunk' \in [1..n -> Cell] /\ n \in Nat
      /\ \A i \in 1..n : chunk'[i] = <<xfer, Len(got) + i>>
  BY <1>1, <1>2, <1>3, NetFacts, SMTT(30) DEF Cell
<1>5. chunk' \in Seq(Cell) /\ Len(chunk') = n /\ chunk' # <<>>
  <2>1. chunk' \in Seq(Cell) /\ Len(chunk') = n
    BY <1>4
  <2> QED
    BY <1>2, <2>1
<1>6. /\ net' \in Record /\ net'.x = net.x /\ net'.off = net.off /\ net'.block = net.block
      /\ net'.done = net.done + n /\ net'.ok = net.ok
      /\ net'.at = IF n = rest THEN "return" ELSE "fill"
  <2>1. net.done + n \in Nat
    BY <1>2, NetFacts
  <2> QED
    BY <1>3, <2>1, NetFacts DEF Record, NetSteps
<1>7. Types'
  <2>1. Len(chunk') <= ChunkSize
    BY <1>2, <1>5
  <2> QED
    BY <1>3, <1>5, <1>6, <2>1 DEF IInv, Types, NetFrame, Statuses
<1>8. Threads'
  <2>1. net'.at \in {"fill", "return"} /\ active' = active /\ cpu' = cpu /\ dying' = dying
        /\ xfer' = xfer
    BY <1>6 DEF NetFrame
  <2> QED
    BY <1>1, <1>3, <1>6, <2>1 DEF IInv, Threads, Stopping, Copying
<1>9. Blocks'
  <2>1. net.off + (net.done + n) <= 2 * size
    BY <1>1, <1>2, NetFacts, SMTT(30)
  <2> QED
    BY <1>1, <1>2, <1>6, <2>1, NetFacts DEF IInv, Blocks, NetFrame, Copying
<1>10. Stream'
  <2>1. Len(got) + n = net.off + (net.done + n) /\ Len(got) + n <= size
    BY <1>1, <1>2, NetFacts DEF from
  <2>2. Copied' = Len(got) + n /\ net'.at \in {"fill", "return"}
    BY <1>6, <2>1 DEF Copied, Copying
  <2>3. outcome # "ok"
    BY <1>1 DEF IInv, Promises, Ended
  <2>4. FilePrefix' /\ NulOnlyAfterFailure'
    BY DEF IInv, Stream, FilePrefix, NulOnlyAfterFailure, NetFrame
  <2> QED
    BY <1>1, <1>4, <1>5, <2>1, <2>2, <2>3, <2>4 DEF Stream, NetFrame
<1>11. Promises'
  BY <1>1, <1>3, <1>5, <1>6 DEF IInv, Promises, NetFrame, Ended, WholeFileAtEnd
<1> QED
  BY <1>7, <1>8, <1>9, <1>10, <1>11 DEF IInv

LEMMA Fills ==
  ASSUME IInv, Fill
  PROVE  IInv'
<1>1. NetFrame /\ UNCHANGED <<complete, outcome>> /\ net.at = "fill" /\ Copying
  BY DEF Fill, At, reader, NetFrame, Copying
<1>2. CASE lock' = "free" /\ Ends(FALSE) /\ UNCHANGED <<chunk, status>>
  BY <1>1, <1>2, GivesUp
<1>3. CASE lock' = "free" /\ To("wait") /\ UNCHANGED <<chunk, status>>
  BY <1>1, <1>3, PlaceMoves DEF webget, NetSteps
<1>4. CASE status # "FAILED" /\ chunk = <<>> /\ CopyChunk
  BY <1>1, <1>4, CopiesOn DEF At
<1> QED
  BY <1>2, <1>3, <1>4 DEF Fill

LEMMA EndsWell ==
  ASSUME IInv, Ending
  PROVE  IInv'
<1>1. /\ NetFrame /\ net.at = "ending" /\ lock' = "free" /\ complete' = TRUE
      /\ net' = [net EXCEPT !.at = "exit"]
      /\ \/ /\ net.ok /\ chunk' = chunk /\ outcome' = "ok"
            /\ status' = IF chunk # <<>> THEN "DATA_READY" ELSE "EOF"
         \/ chunk' = <<>> /\ status' = "FAILED" /\ outcome' = "failed"
  BY DEF Ending, At, To, Cleanup, reader, NetFrame
<1>2. /\ net' \in Record /\ net'.at = "exit" /\ net'.x = net.x /\ net'.off = net.off
      /\ net'.block = net.block /\ net'.done = net.done
  BY <1>1, NetFacts DEF Record, NetSteps
<1>3. Types'
  <2>1. chunk' \in Seq(Cell) /\ Len(chunk') <= ChunkSize
    BY <1>1, EmptyChunk DEF IInv, Types
  <2>2. status' \in Statuses /\ outcome' \in {"none", "ok", "failed"}
    BY <1>1 DEF Statuses
  <2> QED
    BY <1>1, <1>2, <2>1, <2>2 DEF IInv, Types, NetFrame
<1>4. Threads' /\ Blocks'
  BY <1>1, <1>2 DEF IInv, Threads, Blocks, NetFrame, Copying, Stopping
<1>5. outcome = "none"
  BY <1>1 DEF IInv, Types, Promises, Ended
<1>6. Stream'
  <2>1. FilePrefix'
    BY <1>1 DEF IInv, Stream, FilePrefix, NetFrame
  <2>2. NulOnlyAfterFailure'
    BY <1>1, <1>5 DEF IInv, Stream, NulOnlyAfterFailure, NetFrame
  <2>3. outcome' = "ok" => net.ok /\ chunk' = chunk
    BY <1>1
  <2>4. outcome' = "ok" => Len(got) + Len(chunk') = size \/ Stopping
    BY <1>1, <2>3 DEF IInv, Stream
  <2>5. /\ \A i \in 1..Len(chunk') : chunk'[i] = <<xfer, Len(got) + i>>
        /\ chunk' # <<>> => Len(got) + Len(chunk') <= size /\ xfer >= 1
    BY <1>1 DEF IInv, Stream
  <2> QED
    BY <1>1, <1>2, <2>1, <2>2, <2>4, <2>5 DEF Stream, NetFrame, Copying, Stopping
<1>7. Promises'
  BY <1>1, <1>2, <1>5 DEF IInv, Promises, NetFrame, Ended, WholeFileAtEnd
<1> QED
  BY <1>3, <1>4, <1>6, <1>7 DEF IInv

\* The thread is gone.
LEMMA Goes ==
  ASSUME IInv, Leaving \/ Die
  PROVE  IInv'
<1>1. /\ UNCHANGED <<webget, outcome, dying, reader>> /\ net' = NoThread
      /\ lock' \in {"free", "net"} /\ active' \in {active, FALSE}
      /\ (active' = active /\ Stopping) \/ net.at = "leaving"
  BY DEF Leaving, Die, At, IInv, Types, Threads
<1>2. Types'
  BY <1>1, NoThreadType DEF IInv, Types, webget, reader
<1>3. Threads' /\ Blocks'
  BY <1>1, NoThreadType, NetFacts DEF IInv, Threads, Blocks, Copying, Stopping, webget, reader
<1>4. Stream'
  BY <1>1, NoThreadType
     DEF IInv, Stream, Copying, FilePrefix, NulOnlyAfterFailure, Stopping, webget, reader
<1>5. Promises'
  BY <1>1, NoThreadType DEF IInv, Promises, Ended, WholeFileAtEnd, webget, reader
<1> QED
  BY <1>2, <1>3, <1>4, <1>5 DEF IInv

LEMMA TransferMoves ==
  ASSUME IInv, TransferThread
  PROVE  IInv'
<1>1. CASE Acquire
  <2>1. NetFrame /\ UNCHANGED <<webget, outcome>> /\ lock' = "net"
    BY <1>1 DEF Acquire, reader, NetFrame
  <2>2. \/ net.at = "callback" /\ To("fill")
        \/ net.at = "woken" /\ To("resume")
        \/ net.at = "finish" /\ To("ending")
        \/ net.at = "exit" /\ To("leaving")
    BY <1>1 DEF Acquire, At
  <2> QED
    BY <2>1, <2>2, PlaceMoves DEF NetSteps
<1>2. CASE Resume
  <2>1. /\ NetFrame /\ UNCHANGED <<webget, outcome>> /\ lock' \in {"free", "net"}
        /\ net.at = "resume"
    BY <1>2 DEF Resume, At, reader, NetFrame, IInv, Types
  <2>2. (status = "FAILED" /\ To("return")) \/ To("wait") \/ To("fill")
    BY <1>2 DEF Resume
  <2> QED
    BY <2>1, <2>2, PlaceMoves DEF NetSteps
<1>3. CASE WaitTimesOut
  <2>1. /\ NetFrame /\ UNCHANGED <<chunk, complete, outcome>> /\ lock' \in {"free", "net"}
        /\ net.at \in {"wait", "woken"} /\ status' = "FAILED" /\ Ends(FALSE) /\ Copying
    BY <1>3 DEF WaitTimesOut, reader, NetFrame, IInv, Types, Copying
  <2> QED
    BY <2>1, GivesUp
<1> QED
  BY <1>1, <1>2, <1>3, CurlMoves, Fills, Returns, EndsWell, Goes DEF TransferThread

-----------------------------------------------------------------------------
LEMMA InitIInv == Init => IInv
<1> SUFFICES ASSUME Init
             PROVE  IInv
  OBVIOUS
<1>1. Types
  <2>1. chunk \in Seq(Cell) /\ Len(chunk) <= ChunkSize /\ got \in Seq(Cell)
    BY EmptyChunk DEF Init
  <2>2. xfer \in 0..MaxTransfers /\ size \in 0..MaxFile
    BY TransferAssumption DEF Init
  <2> QED
    BY <2>1, <2>2, NoThreadType DEF Init, Types, Statuses
<1>2. Threads /\ Promises
  BY NoThreadType DEF Init, Threads, Promises, Copying, Stopping, WholeFileAtEnd
<1>3. Blocks /\ Stream
  BY NoThreadType DEF Init, Blocks, Stream, Copying, FilePrefix, NulOnlyAfterFailure
<1> QED
  BY <1>1, <1>2, <1>3 DEF IInv

LEMMA StepIInv == IInv /\ [Next]_vars => IInv'
<1> SUFFICES ASSUME IInv, [Next]_vars
             PROVE  IInv'
  OBVIOUS
<1>1. CASE UNCHANGED vars
  BY <1>1 DEF vars, IInv, Types, Threads, Blocks, Stream, Promises, Copying, Copied, Stopping,
              Ended, FilePrefix, NulOnlyAfterFailure, WholeFileAtEnd
<1>2. CASE Next
  BY <1>2, CpuGoes, StartsOver, Begins, Polls, Reads, TransferMoves DEF Next, CpuThread
<1> QED
  BY <1>1, <1>2

LEMMA SpecIInv == Spec => []IInv
  BY InitIInv, StepIInv, PTL DEF Spec

\* The state has its types; the chunk never has more bytes than its buffer.
THEOREM TypeCorrect == Spec => []TypeOK
<1>1. ASSUME IInv
      PROVE  TypeOK
  <2>1. chunk \in Seq((1..MaxTransfers) \X (1..MaxFile))
    <3>1. ASSUME NEW i \in 1..Len(chunk)
          PROVE  chunk[i] \in (1..MaxTransfers) \X (1..MaxFile)
      <4>1. /\ chunk[i] = <<xfer, Len(got) + i>> /\ Len(got) + Len(chunk) <= size /\ xfer >= 1
            /\ xfer <= MaxTransfers /\ size <= MaxFile /\ MaxFile \in Nat /\ MaxTransfers \in Nat
        BY <1>1, <3>1, NetFacts, TransferAssumption DEF IInv, Stream, Types
      <4>2. xfer \in 1..MaxTransfers /\ Len(got) + i \in 1..MaxFile
        BY <1>1, <3>1, <4>1, NetFacts
      <4> QED
        BY <4>1, <4>2
    <3>2. chunk \in Seq(Cell) /\ Len(chunk) \in Nat
      BY <1>1, NetFacts
    <3>3. chunk \in [1..Len(chunk) -> (1..MaxTransfers) \X (1..MaxFile)]
      BY <3>1, <3>2
    <3> QED
      BY <3>2, <3>3
  <2>2. net.off + net.done <= 2 * MaxFile
    <3>1. net.off + net.done <= 2 * size /\ size <= MaxFile /\ MaxFile \in Nat
      BY <1>1, TransferAssumption DEF IInv, Types, Blocks
    <3> QED
      BY <1>1, <3>1, NetFacts
  <2> QED
    BY <1>1, <2>1, <2>2, NetFacts DEF IInv, Types, Blocks, TypeOK, NetSteps, Record
<1> QED
  BY <1>1, SpecIInv, PTL

\* The reader gets the bytes of the file it asked for, each at its place.
THEOREM Prefix == Spec => []FilePrefix
<1>1. IInv => FilePrefix
  BY DEF IInv, Stream
<1> QED
  BY <1>1, SpecIInv, PTL

\* It is told the end after curl ended, and has the whole file when curl ended well.
THEOREM Whole == Spec => []WholeFileAtEnd
<1>1. IInv => WholeFileAtEnd
  BY DEF IInv, Promises
<1> QED
  BY <1>1, SpecIInv, PTL

\* It reads a NUL that is not in the file only after curl failed.
THEOREM NulFailure == Spec => []NulOnlyAfterFailure
<1>1. IInv => NulOnlyAfterFailure
  BY DEF IInv, Stream
<1> QED
  BY <1>1, SpecIInv, PTL

-----------------------------------------------------------------------------
(* The transfer implements StreamCopy *)

LEMMA PrefixOf ==
  ASSUME NEW s \in Seq(Cell), NEW t \in Seq(Cell),
         Len(s) <= Len(t), \A i \in 1..Len(s) : s[i] = t[i]
  PROVE  Copies!IsPrefix(s, t)
<1>1. SubSeq(s, 1, Len(s)) = s /\ SubSeq(t, 1, Len(s)) = [i \in 1..Len(s) |-> t[i]]
  OBVIOUS
<1>2. s = [i \in 1..Len(s) |-> s[i]]
  OBVIOUS
<1>3. [i \in 1..Len(s) |-> s[i]] = [i \in 1..Len(s) |-> t[i]]
  OBVIOUS
<1> QED
  BY <1>1, <1>2, <1>3 DEF Copies!IsPrefix

LEMMA FileType ==
  ASSUME NEW x \in Nat, NEW n \in Nat
  PROVE  /\ File(x, n) \in Seq(Cell) /\ Len(File(x, n)) = n
         /\ \A i \in 1..n : File(x, n)[i] = <<x, i>>
<1>1. File(x, n) \in [1..n -> Cell]
  BY DEF File, Cell
<1>2. File(x, n) \in Seq(Cell) /\ Len(File(x, n)) = n
  BY <1>1 DEF File
<1> QED
  BY <1>2 DEF File

LEMMA PrefixOfFile ==
  ASSUME NEW s \in Seq(Cell), NEW x \in Nat, NEW n \in Nat,
         Len(s) <= n, \A i \in 1..Len(s) : s[i] = <<x, i>>
  PROVE  Copies!IsPrefix(s, File(x, n))
<1> DEFINE t == File(x, n)
<1>1. t \in Seq(Cell) /\ Len(t) = n /\ \A i \in 1..n : t[i] = <<x, i>>
  BY FileType
<1> HIDE DEF t
<1>2. ASSUME NEW i \in 1..Len(s)
      PROVE  s[i] = t[i]
  <2>1. i \in 1..n
    OBVIOUS
  <2> QED
    BY <1>1, <2>1
<1>3. Len(s) <= Len(t)
  BY <1>1
<1>4. Copies!IsPrefix(s, t)
  BY <1>1, <1>2, <1>3, PrefixOf
<1> QED
  BY <1>4 DEF t

\* As long as curl did not fail, the reader has a beginning of the file.
LEMMA Beginning ==
  ASSUME IInv, outcome # "failed"
  PROVE  /\ Len(got) <= size /\ \A i \in 1..Len(got) : got[i] = <<xfer, i>>
         /\ Copies!IsPrefix(got, File(xfer, size))
<1>1. got \in Seq(Cell) /\ Len(got) \in Nat /\ size \in Nat /\ xfer \in Nat
  BY NetFacts
<1>2. \A i \in 1..Len(got) : i <= size /\ got[i] = <<xfer, i>>
  BY <1>1 DEF IInv, Stream, FilePrefix, NulOnlyAfterFailure
<1>3. Len(got) <= size
  <2>1. CASE Len(got) = 0
    BY <1>1, <2>1
  <2>2. CASE Len(got) # 0
    <3>1. Len(got) \in 1..Len(got)
      BY <1>1, <2>2
    <3> QED
      BY <1>2, <3>1
  <2> QED
    BY <2>1, <2>2
<1>4. Copies!IsPrefix(got, File(xfer, size))
  BY <1>1, <1>2, <1>3, PrefixOfFile
<1> QED
  BY <1>2, <1>3, <1>4

\* How the file of the mapping ended, and what its reader was told.
How(o) == CASE o = "none" -> "no" [] o = "ok" -> "well" [] o = "failed" -> "badly"
Says(r) == IF r \in {"done", "failed"} THEN r ELSE "open"

LEMMA HowEnds ==
  /\ How("none") = "no" /\ How("ok") = "well" /\ How("failed") = "badly"
  /\ Says("none") = "open" /\ Says("running") = "open"
  /\ Says("done") = "done" /\ Says("failed") = "failed"
  BY DEF How, Says

LEMMA CopyUnchanged == ASSUME UNCHANGED task PROVE UNCHANGED Copies!vars
  BY DEF task, Copies!vars

LEMMA CopyBegins == ASSUME Begin PROVE Copies!Begin
  BY DEF Begin, Copies!Begin

LEMMA CopyCloses ==
  ASSUME IInv, Ending
  PROVE  Copies!Close
<1>1. /\ UNCHANGED <<xfer, size, got, result>> /\ At("ending")
      /\ outcome' = IF net.ok THEN "ok" ELSE "failed"
  BY DEF Ending, reader
<1>2. outcome = "none"
  BY <1>1 DEF At, IInv, Types, Promises, Ended
<1>3. outcome' \in {"ok", "failed"}
  BY <1>1
<1> QED
  BY <1>1, <1>2, <1>3 DEF Copies!Close

LEMMA CopyReads ==
  ASSUME IInv, Read
  PROVE  Copies!Read \/ Copies!ReadBehind
<1>1. /\ UNCHANGED <<xfer, size, result, outcome>> /\ cpu = "read" /\ result = "running"
      /\ got \in Seq(Cell) /\ chunk \in Seq(Cell) /\ Len(got) \in Nat /\ Len(chunk) \in Nat
      /\ size \in Nat /\ xfer \in Nat
  BY NetFacts DEF Read, ReadFrame, IInv, Promises
<1>2. CASE chunk # <<>> /\ got' = Append(got, Head(chunk))
  <2>1. /\ outcome # "failed" /\ Len(chunk) >= 1 /\ Len(got) + Len(chunk) <= size
        /\ Head(chunk) = <<xfer, Len(got) + 1>>
    BY <1>1, <1>2 DEF IInv, Stream, Promises
  <2>2. /\ Head(chunk) \in Cell /\ got' \in Seq(Cell) /\ Len(got') = Len(got) + 1
        /\ Len(got') <= size /\ \A i \in 1..Len(got) : got'[i] = got[i]
        /\ got'[Len(got) + 1] = Head(chunk)
    <3>1. Head(chunk) \in Cell
      BY <1>1, <2>1 DEF Cell
    <3> QED
      BY <1>1, <1>2, <2>1, <3>1
  <2>3. \A i \in 1..Len(got') : got'[i] = <<xfer, i>>
    <3>1. \A i \in 1..Len(got) : got[i] = <<xfer, i>>
      BY <2>1, Beginning
    <3>2. ASSUME NEW i \in 1..Len(got')
          PROVE  i \in 1..Len(got) \/ i = Len(got) + 1
      BY <1>1, <2>2
    <3> QED
      BY <2>1, <2>2, <3>1, <3>2
  <2>4. Copies!IsPrefix(got, got')
    BY <1>1, <2>2, PrefixOf
  <2>5. Copies!IsPrefix(got', File(xfer, size))
    BY <1>1, <2>2, <2>3, PrefixOfFile
  <2> QED
    BY <1>1, <2>4, <2>5 DEF Copies!Read
<1>3. CASE chunk = <<>> /\ TakeNothing
  <2>1. outcome = "failed" /\ got' = Append(got, Nul)
    BY <1>1, <1>3 DEF TakeNothing, IInv, Promises
  <2> QED
    BY <1>1, <2>1 DEF Copies!ReadBehind
<1> QED
  BY <1>2, <1>3 DEF Read, TakeByte, TakeNothing

LEMMA CopyPolls ==
  ASSUME IInv, Poll
  PROVE  Copies!Read \/ Copies!ReadBehind \/ UNCHANGED Copies!vars
<1>1. /\ UNCHANGED <<xfer, size, got, outcome>> /\ cpu = "poll" /\ result = "running"
      /\ \/ result' = "done" /\ status = "EOF"
         \/ result' \in {"failed", result}
      /\ outcome \in {"none", "ok", "failed"} /\ got \in Seq(Cell)
  BY DEF Poll, IInv, Types, Promises, Statuses
<1>2. Copies!IsPrefix(got, got')
  BY <1>1, PrefixOf
<1>3. CASE result' = result
  BY <1>1, <1>3, CopyUnchanged DEF task
<1>4. CASE result' \in {"done", "failed"} /\ outcome = "failed"
  BY <1>1, <1>4 DEF Copies!ReadBehind
<1>5. CASE result' = "failed" /\ outcome # "failed"
  BY <1>1, <1>2, <1>5, Beginning DEF Copies!Read
<1>6. CASE result' = "done" /\ outcome # "failed"
  <2>1. status = "EOF" /\ outcome = "ok" /\ chunk = <<>>
    BY <1>1, <1>6 DEF IInv, Promises
  <2>2. got = File(xfer, size)
    <3>1. Len(got) = size
      BY <1>1, <2>1, NetFacts DEF IInv, Stream, Stopping
    <3> QED
      BY <2>1, <3>1, HasAll
  <2>3. Copies!IsPrefix(got', File(xfer, size))
    BY <1>1, <2>1, Beginning
  <2> QED
    BY <1>1, <1>2, <1>6, <2>1, <2>2, <2>3 DEF Copies!Read
<1> QED
  BY <1>1, <1>3, <1>4, <1>5, <1>6

LEMMA CopyStep == IInv /\ [Next]_vars => [Copies!Next]_(Copies!vars)
<1> SUFFICES ASSUME IInv, [Next]_vars
             PROVE  Copies!Next \/ UNCHANGED Copies!vars
  OBVIOUS
<1>1. CASE UNCHANGED vars \/ Ask \/ StartOverOld \/ Cancel \/ Join
  <2>1. UNCHANGED task
    BY <1>1 DEF vars, task, Ask, StartOverOld, Cancel, Join
  <2> QED
    BY <2>1, CopyUnchanged
<1>2. CASE StartFresh \/ StartAfterJoin
  BY <1>2, CopyBegins DEF StartFresh, StartAfterJoin, Copies!Next
<1>3. CASE Poll \/ Read
  BY <1>3, CopyPolls, CopyReads DEF Copies!Next
<1>4. CASE Ending
  BY <1>4, CopyCloses DEF Copies!Next
<1>5. CASE Curl \/ Acquire \/ Fill \/ Resume \/ WaitTimesOut \/ Return \/ Leaving \/ Die
  <2>1. UNCHANGED task
    BY <1>5 DEF Curl, CurlStarts, CurlBlock, CurlEnds, Acquire, Fill, Resume, WaitTimesOut,
                Return, Leaving, Die, reader, task
  <2> QED
    BY <2>1, CopyUnchanged
<1> QED
  BY <1>1, <1>2, <1>3, <1>4, <1>5 DEF Next, CpuThread, TransferThread

\* Over all chunks, polls, time-outs and cancellations, a transfer is a copy of its file.
THEOREM TransferImplements == Spec => Implements
<1>1. Init => Copies!Init
  BY DEF Init, Copies!Init
<1> QED
  BY <1>1, CopyStep, SpecIInv, PTL DEF Spec, Implements, Copies!Spec

-----------------------------------------------------------------------------
(* Neither side of a transfer waits in vain *)

\* A reader of a transfer that is not over has a thread that works on it, unless there was
\* none from the beginning, which the status tells.
Worked ==
  cpu \in {"poll", "read"} /\ ~complete =>
    net.at \notin {"none", "exit", "leaving"} \/ (cpu = "poll" /\ status = "FAILED")

Waiting == NobodyWaitsInVain /\ Worked

\* The steps of the CPU thread.
LEMMA CpuWaits ==
  ASSUME IInv, Waiting, Ask \/ CpuThread
  PROVE  Waiting'
<1> USE DEF Waiting, NobodyWaitsInVain, Worked, At
<1>1. CASE Ask \/ Cancel \/ Join
  BY <1>1 DEF Ask, Cancel, Join, webget
<1>2. CASE StartOverOld
  <2>1. /\ chunk' = <<>> /\ cpu' = "cancel"
        /\ net' = IF net.at = "wait" THEN [net EXCEPT !.at = "woken"] ELSE net
    BY <1>2 DEF StartOverOld, Cleanup, Woken
  <2>2. net'.at # "wait"
    BY <2>1, NetFacts DEF Record
  <2> QED
    BY <2>1, <2>2
<1>3. CASE StartFresh \/ StartAfterJoin
  <2>1. /\ chunk' = <<>> /\ cpu' = "poll"
        /\ \/ status' = "WAITING" /\ net' = [NoThread EXCEPT !.at = "begin", !.x = xfer + 1]
           \/ status' = "FAILED" /\ net' = NoThread
    BY <1>3 DEF StartFresh, StartAfterJoin, Begin
  <2>2. \/ status' = "WAITING" /\ net'.at = "begin"
        \/ status' = "FAILED" /\ net'.at = "none"
    BY <2>1, NoThreadType DEF Record
  <2> QED
    BY <2>1, <2>2
<1>4. CASE Poll
  <2>1. /\ UNCHANGED <<chunk, complete, status, net>> /\ cpu = "poll"
        /\ \/ cpu' = "idle"
           \/ status = "DATA_READY" /\ cpu' = "read"
           \/ cpu' = "poll"
    BY <1>4 DEF Poll, webget, IInv, Types, Statuses
  <2> QED
    BY <2>1
<1>5. CASE Read
  <2>1. /\ cpu = "read" /\ cpu' = "poll" /\ complete' = complete
        /\ chunk \in Seq(Cell) /\ Len(chunk) \in Nat
    BY <1>5, NetFacts DEF Read, ReadFrame
  <2>2. CASE chunk # <<>> /\ TakeByte(IF complete THEN "EOF" ELSE "WAITING") /\ Len(chunk) = 1
    <3>1. /\ chunk' = <<>> /\ status' = IF complete THEN "EOF" ELSE "WAITING"
          /\ net' = IF net.at = "wait" THEN [net EXCEPT !.at = "woken"] ELSE net
      BY <2>1, <2>2 DEF TakeByte, Woken, At
    <3>2. net'.at # "wait" /\ (net'.at = net.at \/ net'.at = "woken")
      BY <3>1, NetFacts DEF Record
    <3> QED
      BY <2>1, <3>1, <3>2
  <2>3. CASE chunk # <<>> /\ TakeByte(IF complete THEN "EOF" ELSE "WAITING") /\ Len(chunk) # 1
    <3>1. chunk' = Tail(chunk) /\ status' = "DATA_READY" /\ net' = net
      BY <2>3 DEF TakeByte
    <3>2. chunk' # <<>>
      <4>1. Len(chunk') = Len(chunk) - 1 /\ Len(chunk) # 0
        BY <2>1, <2>3, <3>1
      <4> QED
        BY <2>1, <2>3, <4>1
    <3> QED
      BY <2>1, <3>1, <3>2
  <2>4. CASE chunk = <<>> /\ TakeNothing
    <3>1. UNCHANGED <<chunk, net>> /\ status' = IF complete THEN "EOF" ELSE "WAITING"
      BY <2>4 DEF TakeNothing
    <3> QED
      BY <2>1, <2>4, <3>1
  <2> QED
    BY <1>5, <2>2, <2>3, <2>4 DEF Read, TakeByte, TakeNothing
<1> QED
  BY <1>1, <1>2, <1>3, <1>4, <1>5 DEF CpuThread

\* The steps of the transfer thread.
LEMMA NetWaits ==
  ASSUME IInv, Waiting, TransferThread
  PROVE  Waiting'
<1> USE DEF Waiting, NobodyWaitsInVain, Worked, At
<1>1. cpu' = cpu /\ net \in Record
  BY NetFacts DEF TransferThread, Curl, CurlStarts, CurlBlock, CurlEnds, Acquire, Fill, Resume,
                  WaitTimesOut, Return, Ending, Leaving, Die, reader
<1>2. CASE CurlStarts
  <2>1. chunk' = <<>> /\ net' = [net EXCEPT !.at = "curl"]
    BY <1>2 DEF CurlStarts, At, To, IInv, Stream
  <2>2. net'.at = "curl"
    BY <1>1, <2>1 DEF Record
  <2> QED
    BY <2>1, <2>2
<1>3. CASE CurlBlock \/ CurlEnds \/ Return
  <2>1. UNCHANGED webget
    BY <1>3 DEF CurlBlock, CurlEnds, Return
  <2>2. net'.at \in {"callback", "finish", "curl"}
    <3>1. \/ \E n : net' = [net EXCEPT !.at = "callback", !.block = n, !.done = 0]
          \/ \E ok : net' = [net EXCEPT !.at = "finish", !.ok = ok]
          \/ net' = [net EXCEPT !.at = "curl", !.off = @ + net.block]
      BY <1>3 DEF CurlBlock, CurlEnds, Return, Ends
    <3> QED
      BY <1>1, <3>1 DEF Record
  <2> QED
    BY <1>1, <2>1, <2>2 DEF webget
<1>4. CASE Acquire
  <2>1. /\ UNCHANGED webget
        /\ \/ net.at \in {"callback", "woken", "finish"}
           \/ net.at = "exit"
        /\ net' = [net EXCEPT !.at = CASE At("callback") -> "fill" [] At("woken") -> "resume"
                                       [] At("finish") -> "ending" [] At("exit") -> "leaving"]
    BY <1>4 DEF Acquire, To
  <2>2. net'.at \in {"fill", "resume", "ending"} \/ (net.at = "exit" /\ net'.at = "leaving")
    BY <1>1, <2>1 DEF Record
  <2> QED
    BY <1>1, <2>1, <2>2 DEF webget
<1>5. CASE Fill
  <2>1. \/ net'.at \in {"finish", "wait"} /\ UNCHANGED webget
        \/ net'.at \in {"return", "fill"} /\ status' = "DATA_READY"
    <3>1. \/ UNCHANGED webget /\ net' = [net EXCEPT !.at = "finish", !.ok = FALSE]
          \/ UNCHANGED webget /\ net' = [net EXCEPT !.at = "wait"]
          \/ /\ status' = "DATA_READY"
             /\ \E d : \/ net' = [net EXCEPT !.at = "return", !.done = d]
                      \/ net' = [net EXCEPT !.at = "fill", !.done = d]
      BY <1>5 DEF Fill, Ends, To, CopyChunk, webget
    <3> QED
      BY <1>1, <3>1 DEF Record
  <2>2. net'.at = "wait" => status # "FAILED" /\ chunk # <<>>
    BY <1>1, <1>5 DEF Fill, Ends, To, CopyChunk, Record
  <2>3. net.at = "fill"
    BY <1>5 DEF Fill
  <2> QED
    BY <1>1, <2>1, <2>2, <2>3 DEF webget
<1>6. CASE Resume
  <2>1. UNCHANGED webget /\ net.at = "resume"
    BY <1>6 DEF Resume
  <2>2. \/ net'.at \in {"return", "fill"}
        \/ net'.at = "wait" /\ status # "FAILED" /\ chunk # <<>>
    BY <1>1, <1>6 DEF Resume, To, Record
  <2> QED
    BY <1>1, <2>1, <2>2 DEF webget
<1>7. CASE WaitTimesOut
  <2>1. UNCHANGED <<chunk, complete>> /\ status' = "FAILED" /\ net'.at = "finish"
    BY <1>1, <1>7 DEF WaitTimesOut, Ends, Record
  <2> QED
    BY <1>1, <2>1
<1>8. CASE Ending
  <2>1. /\ complete' = TRUE /\ net'.at = "exit"
        /\ \/ chunk' # <<>> /\ status' = "DATA_READY"
           \/ chunk' = <<>> /\ status' \in {"EOF", "FAILED"}
    BY <1>1, <1>8 DEF Ending, Cleanup, To, Record
  <2> QED
    BY <1>1, <2>1
<1>9. CASE Leaving
  <2>1. UNCHANGED webget /\ net.at = "leaving" /\ net'.at = "none"
    BY <1>9, NoThreadType DEF Leaving
  <2> QED
    BY <1>1, <2>1 DEF webget
<1>10. CASE Die
  <2>1. UNCHANGED webget /\ net'.at = "none" /\ Stopping
    BY <1>10, NoThreadType DEF Die, IInv, Threads
  <2> QED
    BY <1>1, <2>1 DEF webget, Stopping
<1> QED
  BY <1>2, <1>3, <1>4, <1>5, <1>6, <1>7, <1>8, <1>9, <1>10 DEF TransferThread, Curl

\* The callback waits only for a reader that has something to read, and the reader only for
\* a thread that does not wait itself.
THEOREM NobodyWaits == Spec => []NobodyWaitsInVain
<1>1. Init => Waiting
  BY NoThreadType DEF Init, Waiting, NobodyWaitsInVain, Worked, At
<1>2. IInv /\ Waiting /\ [Next]_vars => Waiting'
  <2> SUFFICES ASSUME IInv, Waiting, [Next]_vars
               PROVE  Waiting'
    OBVIOUS
  <2>1. CASE UNCHANGED vars
    BY <2>1 DEF vars, Waiting, NobodyWaitsInVain, Worked, At
  <2>2. CASE Next
    BY <2>2, CpuWaits, NetWaits DEF Next
  <2> QED
    BY <2>1, <2>2
<1>3. Waiting => NobodyWaitsInVain
  BY DEF Waiting
<1> QED
  BY <1>1, <1>2, <1>3, SpecIInv, PTL DEF Spec

-----------------------------------------------------------------------------
(* Bytes and words *)

\* The ranges are written as Below(256) and Below(65536); this is what they hold.
LEMMA InBelow ==
  ASSUME NEW k \in Int
  PROVE  \A n : n \in Below(k) <=> n \in Int /\ 0 <= n /\ n < k
BY SMT DEF Below

LEMMA Bytes == \A n : n \in ByteRange <=> n \in Int /\ 0 <= n /\ n < 256
BY InBelow, SMT DEF ByteRange

LEMMA Words == \A n : n \in WordRange <=> n \in Int /\ 0 <= n /\ n < 65536
BY InBelow, SMT DEF WordRange

\* An assignment to a uint8_t or a uint16_t truncates.
LEMMA Truncated ==
  ASSUME NEW n \in Int
  PROVE  Byte(n) \in ByteRange /\ Word(n) \in WordRange
BY Bytes, Words, SMT DEF Byte, Word

\* A word is its high byte and its low one.
LEMMA WordParts ==
  ASSUME NEW n \in WordRange
  PROVE  /\ n \div 256 \in ByteRange /\ n % 256 \in ByteRange
         /\ n = 256 * (n \div 256) + (n % 256)
BY Bytes, Words, SMT

LEMMA WordOf ==
  ASSUME NEW high \in ByteRange, NEW low \in ByteRange
  PROVE  /\ 256 * high + low \in WordRange /\ low + 256 * high \in WordRange
         /\ (256 * high + low) \div 256 = high /\ (256 * high + low) % 256 = low
<1>1. 256 * high + low \in WordRange /\ low + 256 * high \in WordRange
  BY Bytes, Words, SMT
<1>2. (256 * high + low) \div 256 = high
  BY Bytes, SMT
<1>3. (256 * high + low) % 256 = low
  BY Bytes, SMT
<1> QED
  BY <1>1, <1>2, <1>3

\* The bits of a byte make a byte.
LEMMA ByteOfType == ASSUME NEW S PROVE ByteOf(S) \in ByteRange
<1>1. /\ Power[0 + 1] = 1 /\ Power[1 + 1] = 2 /\ Power[2 + 1] = 4 /\ Power[3 + 1] = 8
      /\ Power[4 + 1] = 16 /\ Power[5 + 1] = 32 /\ Power[6 + 1] = 64 /\ Power[7 + 1] = 128
  BY DEF Power
<1>2. /\ Weight(S, 0) \in {0, 1} /\ Weight(S, 1) \in {0, 2} /\ Weight(S, 2) \in {0, 4}
      /\ Weight(S, 3) \in {0, 8} /\ Weight(S, 4) \in {0, 16} /\ Weight(S, 5) \in {0, 32}
      /\ Weight(S, 6) \in {0, 64} /\ Weight(S, 7) \in {0, 128}
  BY <1>1 DEF Weight
<1> QED
  BY <1>2, Bytes, SMT DEF ByteOf

LEMMA BitsOfType == ASSUME NEW v \in ByteRange PROVE BitsOf[v] \in SUBSET (0..7)
<1>1. BitsOf[v] = {i \in 0..7 : (v \div Power[i + 1]) % 2 = 1}
  BY DEF BitsOf
<1> QED
  BY <1>1

-----------------------------------------------------------------------------
(* What an instruction reads *)

RegistersOK == reg \in [Registers -> ByteRange] /\ sp \in WordRange /\ pc \in WordRange
MemoryOK == memory \in [Cells -> ByteRange]

\* Whatever the address, a read gives a byte, read16 a word.
LEMMA MemoryReads ==
  ASSUME NEW m \in [Cells -> ByteRange]
  PROVE  \A a : Byte8(m, a) \in ByteRange /\ Word16(m, a) \in WordRange
<1>1. 0 \in ByteRange
  BY Bytes, SMT
<1>2. \A a : Byte8(m, a) \in ByteRange
  BY <1>1 DEF Byte8
<1> QED
  BY <1>2, WordOf DEF Word16

LEMMA Fetched ==
  ASSUME MemoryOK
  PROVE  /\ \A a : Read8(a) \in ByteRange /\ Read16(a) \in WordRange
         /\ Op \in ByteRange /\ Immediate \in ByteRange /\ Immediate16 \in WordRange
         /\ Source \in 0..7 /\ Destination \in 0..7 /\ RP \in 0..3
<1>1. \A a : Read8(a) \in ByteRange /\ Read16(a) \in WordRange
  BY MemoryReads DEF MemoryOK, Read8, Read16
<1>2. Op \in ByteRange /\ Immediate \in ByteRange /\ Immediate16 \in WordRange
  BY <1>1 DEF Op, Immediate, Immediate16
<1>3. Op \in Int
  BY <1>2, Bytes, SMT
<1>4. \A n \in Int : n % 8 \in 0..7 /\ n % 4 \in 0..3 /\ n \div 8 \in Int /\ n \div 16 \in Int
  OBVIOUS
<1> QED
  BY <1>1, <1>2, <1>3, <1>4 DEF Source, Destination, RP

LEMMA PairTypes ==
  ASSUME RegistersOK, NEW p \in 0..3
  PROVE  PairRead(p) \in WordRange
<1>1. CASE p = 3
  BY <1>1 DEF PairRead, RegistersOK
<1>2. CASE p # 3
  <2>1. 2 * p \in Registers /\ 2 * p + 1 \in Registers
    BY <1>2 DEF Registers, B, C, D, E, H, L, A
  <2> QED
    BY <1>2, <2>1, WordOf DEF PairRead, RegistersOK
<1> QED
  BY <1>1, <1>2

LEMMA PairWritten ==
  ASSUME RegistersOK, NEW p \in 0..3, NEW v \in WordRange, PairWrite(p, v)
  PROVE  reg' \in [Registers -> ByteRange] /\ sp' \in WordRange
BY WordParts DEF PairWrite, RegistersOK

LEMMA OperandTypes ==
  ASSUME RegistersOK, MemoryOK
  PROVE  /\ HL \in WordRange /\ reg[A] \in ByteRange
         /\ \A r \in 0..7 : RegRead(r) \in ByteRange
         /\ Operand \in ByteRange
<1>1. HL \in WordRange /\ reg[A] \in ByteRange
  BY PairTypes DEF HL, RegistersOK, Registers
<1>2. ASSUME NEW r \in 0..7 PROVE RegRead(r) \in ByteRange
  BY Fetched DEF RegRead, RegistersOK, Registers, B, C, D, E, H, L, M, A
<1> QED
  BY <1>1, <1>2, Fetched DEF Operand

-----------------------------------------------------------------------------
(* What it writes *)

LEMMA Written ==
  ASSUME MemoryOK
  PROVE  /\ \A a : \A v \in ByteRange : Write8(a, v) => MemoryOK'
         /\ \A a : \A v \in WordRange : Write16(a, v) => MemoryOK'
<1>1. ASSUME NEW a, NEW v \in ByteRange, Write8(a, v) PROVE MemoryOK'
  BY <1>1 DEF Write8, MemoryOK
<1>2. ASSUME NEW a, NEW v \in WordRange, Write16(a, v) PROVE MemoryOK'
  <2>1. v % 256 \in ByteRange /\ v \div 256 \in ByteRange
    BY WordParts
  <2> QED
    BY <1>2, <2>1 DEF Write16, MemoryOK
<1> QED
  BY <1>1, <1>2

\* Destination 6 is the cell under HL, every other number a register.
LEMMA RegWritten ==
  ASSUME RegistersOK, MemoryOK, NEW r \in 0..7, NEW v \in ByteRange, RegWrite(r, v)
  PROVE  reg' \in [Registers -> ByteRange] /\ MemoryOK'
<1>1. CASE r = M
  BY <1>1, Written DEF RegWrite, RegistersOK
<1>2. CASE r # M
  BY <1>2 DEF RegWrite, RegistersOK, MemoryOK, Registers, B, C, D, E, H, L, M, A
<1> QED
  BY <1>1, <1>2

FlagsOK == flags \subseteq 0..7

LEMMA FlagTypes ==
  ASSUME NEW f \in SUBSET (0..7), NEW bit \in 0..7, NEW on \in BOOLEAN
  PROVE  Put(f, bit, on) \in SUBSET (0..7)
BY DEF Put

\* i8080_update_flags only sets and clears bits of the byte of flags.
LEMMA ResultTypes ==
  ASSUME NEW f \in SUBSET (0..7), NEW v
  PROVE  Result(f, v) \in SUBSET (0..7)
<1> DEFINE even == Cardinality(BitsOf[v]) % 2 = 0
<1> DEFINE f1 == Put(f, Parity, even)
<1> DEFINE f2 == Put(f1, Zero, v = 0)
<1>1. f1 \in SUBSET (0..7)
  BY DEF Put, Parity
<1>2. f2 \in SUBSET (0..7)
  <2> HIDE DEF f1
  <2> QED
    BY <1>1 DEF Put, Zero
<1>3. Put(f2, Sign, v >= 128) \in SUBSET (0..7)
  <2> HIDE DEF f2
  <2> QED
    BY <1>2 DEF Put, Sign
<1> QED
  BY <1>3 DEF Result

LEMMA BitNames == {Carry, One, Parity, Half, IF_, Zero, Sign} \subseteq 0..7
BY DEF Carry, One, Parity, Half, IF_, Zero, Sign

StateOK == RegistersOK /\ FlagsOK /\ MemoryOK

LEMMA Accumulated ==
  ASSUME StateOK, NEW v \in ByteRange, NEW f \in SUBSET (0..7), Accumulate(v, f)
  PROVE  reg' \in [Registers -> ByteRange] /\ FlagsOK'
<1>1. Result(f, v) \in SUBSET (0..7)
  BY ResultTypes
<1> QED
  BY <1>1 DEF Accumulate, StateOK, RegistersOK, FlagsOK

LEMMA NextCounter ==
  ASSUME StateOK, NEW ops, NEW n \in Nat, Instruction(ops, n)
  PROVE  pc' \in WordRange
<1>1. pc + n \in Int
  BY Words, SMT DEF StateOK, RegistersOK
<1> QED
  BY <1>1, Truncated DEF Instruction

LEMMA StackTypes ==
  ASSUME StateOK
  PROVE  /\ Word(sp + 2) \in WordRange /\ Word(sp + 65534) \in WordRange
         /\ Word(pc + 1) \in WordRange /\ Word(pc + 3) \in WordRange
<1>1. sp + 2 \in Int /\ sp + 65534 \in Int /\ pc + 1 \in Int /\ pc + 3 \in Int
  BY Words, SMT DEF StateOK, RegistersOK
<1> QED
  BY <1>1, Truncated

-----------------------------------------------------------------------------
(* Each handler keeps the width of what it changes *)

LEMMA MoveTypes == ASSUME StateOK, Move PROVE StateOK'
<1> USE DEF StateOK
<1>1. CASE Nop
  BY <1>1, NextCounter DEF Nop, RegistersOK, FlagsOK, MemoryOK
<1>2. CASE Mov
  BY <1>2, NextCounter, RegWritten, OperandTypes, Fetched DEF Mov, RegistersOK, FlagsOK
<1>3. CASE Mvi
  BY <1>3, NextCounter, RegWritten, Fetched DEF Mvi, RegistersOK, FlagsOK
<1>4. CASE Lxi
  BY <1>4, NextCounter, PairWritten, Fetched DEF Lxi, RegistersOK, FlagsOK, MemoryOK
<1>5. CASE Lda
  BY <1>5, NextCounter, Fetched DEF Lda, RegistersOK, FlagsOK, MemoryOK
<1>6. CASE Sta
  BY <1>6, NextCounter, Written, OperandTypes DEF Sta, RegistersOK, FlagsOK
<1>7. CASE Lhld
  BY <1>7, NextCounter, PairWritten, Fetched DEF Lhld, RegistersOK, FlagsOK, MemoryOK
<1>8. CASE Shld
  BY <1>8, NextCounter, Written, OperandTypes DEF Shld, RegistersOK, FlagsOK
<1>9. CASE Ldax
  BY <1>9, NextCounter, Fetched DEF Ldax, RegistersOK, FlagsOK, MemoryOK
<1>10. CASE Stax
  BY <1>10, NextCounter, Written, OperandTypes DEF Stax, RegistersOK, FlagsOK
<1>11. CASE Xchg
  BY <1>11, NextCounter DEF Xchg, RegistersOK, FlagsOK, MemoryOK, Registers, B, C, D, E, H, L, A
<1> QED
  BY <1>1, <1>2, <1>3, <1>4, <1>5, <1>6, <1>7, <1>8, <1>9, <1>10, <1>11 DEF Move

LEMMA AccumulatorTypes ==
  ASSUME StateOK, NEW k \in 0..7, Accumulator(k)
  PROVE  pc' \in WordRange /\ sp' \in WordRange /\ MemoryOK'
BY NextCounter DEF Accumulator, StateOK, RegistersOK, MemoryOK

LEMMA AddTypes ==
  ASSUME StateOK, NEW val \in Nat, GenAdd(val)
  PROVE  reg' \in [Registers -> ByteRange] /\ FlagsOK'
<1>1. Byte(reg[A] + val) \in ByteRange
  <2>1. reg[A] + val \in Int
    BY OperandTypes, Bytes, SMT DEF StateOK
  <2> QED
    BY <2>1, Truncated
<1> DEFINE half == Put(flags, Half, HalfCarry(reg[A], val))
<1>2. half \in SUBSET (0..7)
  BY DEF Put, Half, StateOK, FlagsOK
<1>3. Put(half, Carry, reg[A] + val > 255) \in SUBSET (0..7)
  <2> HIDE DEF half
  <2> QED
    BY <1>2 DEF Put, Carry
<1> QED
  BY <1>1, <1>3, Accumulated DEF GenAdd

LEMMA SubFlagTypes ==
  ASSUME StateOK, NEW val
  PROVE  SubFlags(val) \in SUBSET (0..7)
<1> DEFINE half == Put(flags, Half, HalfCarry(reg[A], Complement(val)))
<1>1. half \in SUBSET (0..7)
  BY DEF Put, Half, StateOK, FlagsOK
<1>2. Put(half, Carry, ~(reg[A] + Complement(val) > 255)) \in SUBSET (0..7)
  <2> HIDE DEF half
  <2> QED
    BY <1>1 DEF Put, Carry
<1> QED
  BY <1>2 DEF SubFlags

LEMMA SubTypes ==
  ASSUME StateOK, NEW val \in Nat, GenSub(val)
  PROVE  reg' \in [Registers -> ByteRange] /\ FlagsOK'
<1>1. reg[A] + Complement(val) \in Int
  BY OperandTypes, Bytes, SMT DEF StateOK, Complement
<1>2. Byte(reg[A] + Complement(val)) \in ByteRange
  BY <1>1, Truncated
<1> QED
  BY <1>2, SubFlagTypes, Accumulated DEF GenSub

LEMMA OperandNumbers ==
  ASSUME StateOK
  PROVE  Operand \in Nat /\ Operand + CarryIn \in Nat /\ CarryIn \in {0, 1}
BY OperandTypes, Bytes, SMT DEF StateOK, CarryIn

LEMMA ArithmeticTypes ==
  ASSUME StateOK, Add \/ Adc \/ Sub \/ Sbb \/ Cmp
  PROVE  StateOK'
<1>1. CASE Add
  BY <1>1, AccumulatorTypes, AddTypes, OperandNumbers DEF Add, StateOK, RegistersOK
<1>2. CASE Adc
  BY <1>2, AccumulatorTypes, AddTypes, OperandNumbers DEF Adc, StateOK, RegistersOK
<1>3. CASE Sub
  BY <1>3, AccumulatorTypes, SubTypes, OperandNumbers DEF Sub, StateOK, RegistersOK
<1>4. CASE Sbb
  BY <1>4, AccumulatorTypes, SubTypes, OperandNumbers DEF Sbb, StateOK, RegistersOK
<1>5. CASE Cmp
  <2>1. \A v : Result(SubFlags(Operand), v) \in SUBSET (0..7)
    BY SubFlagTypes, ResultTypes
  <2> QED
    BY <1>5, <2>1, AccumulatorTypes DEF Cmp, StateOK, RegistersOK, FlagsOK
<1> QED
  BY <1>1, <1>2, <1>3, <1>4, <1>5

LEMMA LogicTypes ==
  ASSUME StateOK, Ana \/ Xra \/ Ora
  PROVE  StateOK'
<1>1. /\ flags \ {Carry} \in SUBSET (0..7) /\ flags \ {Carry, Half} \in SUBSET (0..7)
  BY DEF StateOK, FlagsOK
<1>2. ASSUME NEW S, NEW f \in SUBSET (0..7), Logic(S, f)
      PROVE  reg' \in [Registers -> ByteRange] /\ FlagsOK'
  BY <1>2, ByteOfType, Accumulated DEF Logic
<1>3. CASE Ana
  BY <1>1, <1>2, <1>3, AccumulatorTypes DEF Ana, StateOK, RegistersOK
<1>4. CASE Xra
  BY <1>1, <1>2, <1>4, AccumulatorTypes DEF Xra, StateOK, RegistersOK
<1>5. CASE Ora
  BY <1>1, <1>2, <1>5, AccumulatorTypes DEF Ora, StateOK, RegistersOK
<1> QED
  BY <1>3, <1>4, <1>5

LEMMA CountTypes ==
  ASSUME StateOK, Inr \/ Dcr \/ Inx \/ Dcx \/ Dad \/ Daa
  PROVE  StateOK'
<1>1. ASSUME NEW v \in ByteRange, NEW n \in Nat
      PROVE  /\ Byte(v + n) \in ByteRange
             /\ \A w : Result(Put(flags, Half, HalfCarry(v, n)), w) \in SUBSET (0..7)
  <2>1. Put(flags, Half, HalfCarry(v, n)) \in SUBSET (0..7)
    BY DEF Put, Half, StateOK, FlagsOK
  <2>2. v + n \in Int
    BY Bytes, SMT
  <2> QED
    BY <2>1, <2>2, ResultTypes, Truncated
<1>2. ASSUME NEW v \in WordRange, NEW n \in Nat PROVE Word(v + n) \in WordRange
  <2>1. v + n \in Int
    BY Words, SMT
  <2> QED
    BY <2>1, Truncated
<1>3. CASE Inr
  <2>1. RegRead(Destination) \in ByteRange /\ Destination \in 0..7
    BY OperandTypes, Fetched DEF StateOK
  <2> DEFINE v == RegRead(Destination)
             next == Byte(v + 1)
  <2>2. /\ RegWrite(Destination, next) /\ pc' \in WordRange /\ UNCHANGED sp
        /\ flags' = Result(Put(flags, Half, HalfCarry(v, 1)), next)
    BY <1>3, NextCounter DEF Inr
  <2>3. next \in ByteRange /\ flags' \in SUBSET (0..7)
    BY <1>1, <2>1, <2>2
  <2>4. reg' \in [Registers -> ByteRange] /\ MemoryOK'
    <3> HIDE DEF next
    <3> QED
      BY <2>1, <2>2, <2>3, RegWritten DEF StateOK
  <2> QED
    BY <2>2, <2>3, <2>4 DEF StateOK, RegistersOK, FlagsOK
<1>4. CASE Dcr
  <2>1. RegRead(Destination) \in ByteRange /\ Destination \in 0..7
    BY OperandTypes, Fetched DEF StateOK
  <2> DEFINE v == RegRead(Destination)
             next == Byte(v + 255)
  <2>2. /\ RegWrite(Destination, next) /\ pc' \in WordRange /\ UNCHANGED sp
        /\ flags' = Result(Put(flags, Half, HalfCarry(v, 255)), next)
    BY <1>4, NextCounter DEF Dcr
  <2>3. next \in ByteRange /\ flags' \in SUBSET (0..7)
    BY <1>1, <2>1, <2>2
  <2>4. reg' \in [Registers -> ByteRange] /\ MemoryOK'
    <3> HIDE DEF next
    <3> QED
      BY <2>1, <2>2, <2>3, RegWritten DEF StateOK
  <2> QED
    BY <2>2, <2>3, <2>4 DEF StateOK, RegistersOK, FlagsOK
<1>5. RP \in 0..3 /\ PairRead(RP) \in WordRange /\ HL \in WordRange
  BY PairTypes, Fetched, OperandTypes DEF StateOK
<1>6. CASE Inx
  <2> DEFINE next == Word(PairRead(RP) + 1)
  <2>1. next \in WordRange
    BY <1>2, <1>5
  <2>2. PairWrite(RP, next) /\ pc' \in WordRange /\ UNCHANGED <<flags, memory>>
    BY <1>6, NextCounter DEF Inx
  <2> HIDE DEF next
  <2> QED
    BY <1>5, <2>1, <2>2, PairWritten DEF StateOK, RegistersOK, FlagsOK, MemoryOK
<1>7. CASE Dcx
  <2> DEFINE next == Word(PairRead(RP) + 65535)
  <2>1. next \in WordRange
    BY <1>2, <1>5
  <2>2. PairWrite(RP, next) /\ pc' \in WordRange /\ UNCHANGED <<flags, memory>>
    BY <1>7, NextCounter DEF Dcx
  <2> HIDE DEF next
  <2> QED
    BY <1>5, <2>1, <2>2, PairWritten DEF StateOK, RegistersOK, FlagsOK, MemoryOK
<1>8. CASE Dad
  <2>1. Word(HL + PairRead(RP)) \in WordRange
    <3>1. HL + PairRead(RP) \in Int
      BY <1>5, Words, SMT
    <3> QED
      BY <3>1, Truncated
  <2>2. Put(flags, Carry, HL + PairRead(RP) > 65535) \in SUBSET (0..7)
    BY DEF Put, Carry, StateOK, FlagsOK
  <2> QED
    BY <1>8, <2>1, <2>2, NextCounter, PairWritten DEF Dad, StateOK, RegistersOK, FlagsOK, MemoryOK
<1>9. CASE Daa
  <2>1. PICK low \in {0, 6}, high \in {0, 96} :
          GenAdd(low + high) /\ pc' \in WordRange /\ UNCHANGED <<sp, memory>>
    BY <1>9, NextCounter DEF Daa
  <2>2. low + high \in Nat
    OBVIOUS
  <2> QED
    BY <2>1, <2>2, AddTypes DEF StateOK, RegistersOK, MemoryOK
<1> QED
  BY <1>3, <1>4, <1>6, <1>7, <1>8, <1>9

LEMMA RotateTypes ==
  ASSUME StateOK, NEW op, NEW v \in ByteRange, NEW carry \in BOOLEAN, Rotate(op, v, carry)
  PROVE  StateOK'
<1>1. Put(flags, Carry, carry) \in SUBSET (0..7)
  BY DEF Put, Carry, StateOK, FlagsOK
<1> QED
  BY <1>1, NextCounter DEF Rotate, StateOK, RegistersOK, FlagsOK, MemoryOK

\* What the four rotations put into the accumulator is a byte.
LEMMA Shifts ==
  ASSUME NEW a \in ByteRange, NEW c \in {0, 1}
  PROVE  /\ Byte(2 * a) + (a \div 128) \in ByteRange
         /\ Byte(2 * a) + c \in ByteRange
         /\ (a \div 2) + 128 * (a % 2) \in ByteRange
         /\ (a \div 2) + 128 * c \in ByteRange
<1>1. a \in Int /\ 0 <= a /\ a < 256
  BY Bytes, SMT
<1>2. PICK high \in Int : high = a \div 128 /\ 0 <= high /\ high <= 1
  BY <1>1, SMT
<1>3. PICK half \in Int : half = a \div 2 /\ 0 <= half /\ half <= 127
  BY <1>1, SMT
<1>4. PICK low \in Int : low = a % 2 /\ 0 <= low /\ low <= 1
  BY <1>1, SMT
<1>5. PICK twice \in Int : twice = (2 * a) % 256 /\ 0 <= twice /\ twice <= 254
  <2>1. (2 * a) % 256 = 2 * a \/ (2 * a) % 256 = 2 * a - 256
    BY <1>1, SMT
  <2> QED
    BY <1>1, <2>1, SMT
<1>6. Byte(2 * a) + high \in ByteRange /\ Byte(2 * a) + c \in ByteRange
  BY <1>2, <1>5, Bytes, SMT DEF Byte
<1>7. half + 128 * low \in ByteRange /\ half + 128 * c \in ByteRange
  BY <1>3, <1>4, Bytes, SMT
<1> QED
  BY <1>2, <1>3, <1>4, <1>6, <1>7

LEMMA AccumulatorShifts ==
  ASSUME StateOK, Rlc \/ Rrc \/ Ral \/ Rar \/ Cma
  PROVE  StateOK'
<1>1. reg[A] \in ByteRange
  BY OperandTypes DEF StateOK
<1>2. CarryIn \in {0, 1}
  BY DEF CarryIn
<1> DEFINE high == reg[A] >= 128
<1>3. high \in BOOLEAN
  OBVIOUS
<1>4. CASE Rlc
  <2>1. Rotate(7, Byte(2 * reg[A]) + (reg[A] \div 128), high)
    BY <1>4 DEF Rlc
  <2> HIDE DEF high
  <2> QED
    BY <1>1, <1>2, <1>3, <2>1, Shifts, RotateTypes
<1>5. CASE Rrc
  BY <1>1, <1>2, <1>5, Shifts, RotateTypes DEF Rrc
<1>6. CASE Ral
  <2>1. Rotate(23, Byte(2 * reg[A]) + CarryIn, high)
    BY <1>6 DEF Ral
  <2> HIDE DEF high
  <2> QED
    BY <1>1, <1>2, <1>3, <2>1, Shifts, RotateTypes
<1>7. CASE Rar
  BY <1>1, <1>2, <1>7, Shifts, RotateTypes DEF Rar
<1>9. CASE Cma
  <2>1. 255 - reg[A] \in ByteRange
    BY <1>1, Bytes, SMT
  <2> QED
    BY <1>9, <2>1, NextCounter DEF Cma, StateOK, RegistersOK, FlagsOK, MemoryOK
<1> QED
  BY <1>4, <1>5, <1>6, <1>7, <1>9

LEMMA ComputeTypes == ASSUME StateOK, Compute PROVE StateOK'
<1>1. CASE Stc \/ Cmc \/ Ei \/ Di
  <2>1. Put(flags, Carry, Carry \notin flags) \in SUBSET (0..7)
    BY DEF Put, Carry, StateOK, FlagsOK
  <2>2. flags \cup {Carry} \in SUBSET (0..7) /\ flags \cup {IF_} \in SUBSET (0..7)
    BY DEF Carry, IF_, StateOK, FlagsOK
  <2> QED
    BY <1>1, <2>1, <2>2, NextCounter DEF Stc, Cmc, Ei, Di, StateOK, RegistersOK, FlagsOK, MemoryOK
<1> QED
  BY <1>1, ArithmeticTypes, LogicTypes, CountTypes, AccumulatorShifts DEF Compute

LEMMA BranchTypes == ASSUME StateOK, Branch PROVE StateOK'
<1>1. /\ RP \in 0..3 /\ PairRead(RP) \in WordRange /\ HL \in WordRange /\ reg[A] \in ByteRange
      /\ \A a : Read16(a) \in WordRange
      /\ Immediate16 \in WordRange /\ Destination \in 0..7
  BY PairTypes, Fetched, OperandTypes DEF StateOK
<1>2. CASE Push
  <2>1. (IF RP = 3 THEN 256 * reg[A] + ByteOf(flags) ELSE PairRead(RP)) \in WordRange
    BY <1>1, ByteOfType, WordOf
  <2> QED
    BY <1>2, <2>1, NextCounter, StackTypes, Written DEF Push, StateOK, RegistersOK, FlagsOK
<1>3. CASE Pop
  <2>1. Read16(sp) \div 256 \in ByteRange /\ Read16(sp) % 256 \in ByteRange
    BY <1>1, WordParts
  <2>2. BitsOf[Read16(sp) % 256] \in SUBSET (0..7)
    BY <2>1, BitsOfType
  <2> DEFINE high == Read16(sp) \div 256
             low == Read16(sp) % 256
  <2>3. /\ sp' \in WordRange /\ pc' \in WordRange /\ MemoryOK'
        /\ \/ reg' = [reg EXCEPT ![A] = high] /\ flags' = BitsOf[low]
           \/ reg' = [reg EXCEPT ![2 * RP] = high, ![2 * RP + 1] = low] /\ UNCHANGED flags
    BY <1>3, StackTypes, NextCounter, SMT DEF Pop, StateOK, MemoryOK
  <2>4. high \in ByteRange /\ BitsOf[low] \in SUBSET (0..7) /\ low \in ByteRange
    BY <2>1, <2>2
  <2> HIDE DEF high, low
  <2>5. reg' \in [Registers -> ByteRange]
    BY <2>3, <2>4 DEF StateOK, RegistersOK
  <2>6. flags' \in SUBSET (0..7)
    BY <2>3, <2>4 DEF StateOK, FlagsOK
  <2> QED
    BY <2>3, <2>5, <2>6 DEF StateOK, RegistersOK, FlagsOK
<1>4. CASE Xthl
  <2>1. PairWrite(2, Read16(sp)) /\ Write16(sp, HL) /\ UNCHANGED flags /\ pc' \in WordRange
    BY <1>4, NextCounter DEF Xthl
  <2>2. reg' \in [Registers -> ByteRange] /\ sp' \in WordRange
    BY <1>1, <2>1, PairWritten DEF StateOK
  <2>3. MemoryOK'
    BY <1>1, <2>1, Written DEF StateOK
  <2> QED
    BY <2>1, <2>2, <2>3 DEF StateOK, RegistersOK, FlagsOK
<1>5. CASE Sphl
  BY <1>1, <1>5, NextCounter DEF Sphl, StateOK, RegistersOK, FlagsOK, MemoryOK
<1>11. CASE Pchl
  BY <1>1, <1>11 DEF Pchl, StateOK, RegistersOK, FlagsOK, MemoryOK
<1>6. CASE Jmp
  BY <1>1, <1>6 DEF Jmp, StateOK, RegistersOK, FlagsOK, MemoryOK
<1>10. CASE Ret
  <2>1. pc' \in WordRange /\ sp' \in WordRange /\ UNCHANGED <<reg, flags, memory>>
    BY <1>1, <1>10, StackTypes, SMT DEF Ret
  <2> QED
    BY <2>1 DEF StateOK, RegistersOK, FlagsOK, MemoryOK
<1>7. CASE Call
  <2>1. MemoryOK' /\ sp' \in WordRange
    BY <1>7, StackTypes, Written DEF Call, StateOK
  <2>2. pc' \in WordRange
    BY <1>7, <2>1, MemoryReads DEF Call, MemoryOK
  <2> QED
    BY <1>7, <2>1, <2>2 DEF Call, StateOK, RegistersOK, FlagsOK
<1>8. CASE Rst
  <2>1. 8 * Destination \in WordRange
    BY <1>1, Words, SMT
  <2> QED
    BY <1>8, <2>1, StackTypes, Written DEF Rst, StateOK, RegistersOK, FlagsOK
<1>9. CASE Fall
  BY <1>9, NextCounter DEF Fall, StateOK, RegistersOK, FlagsOK, MemoryOK
<1> QED
  BY <1>2, <1>3, <1>4, <1>5, <1>6, <1>7, <1>8, <1>9, <1>10, <1>11 DEF Branch

-----------------------------------------------------------------------------
(* The ports, and what is typed *)

TrafficOK ==
  /\ character \in Keys \cup {0}
  /\ queue \in Seq(Keys) /\ typed \in Seq(Keys)
  /\ sent \in Seq(ByteRange \X ByteRange)

\* The parts of the type invariant: what handlers change, and the traffic of the ports.
LEMMA CpuTypeParts == (CpuTypeOK <=> StateOK /\ TrafficOK) /\ (CpuTypeOK' <=> StateOK' /\ TrafficOK')
BY DEF CpuTypeOK, StateOK, RegistersOK, FlagsOK, MemoryOK, TrafficOK

LEMMA QueueTypes ==
  ASSUME TrafficOK
  PROVE  TermIn \in Keys \cup {0} /\ Taken \in Seq(Keys)
<1>1. CASE queue = <<>>
  BY <1>1 DEF TermIn, Taken
<1>2. CASE queue # <<>>
  <2>1. Head(queue) \in Keys /\ Tail(queue) \in Seq(Keys)
    BY <1>2, HeadTailProperties DEF TrafficOK
  <2> QED
    BY <1>2, <2>1 DEF TermIn, Taken
<1> QED
  BY <1>1, <1>2

\* What term_in returns, a key or 0, is a byte.
LEMMA KeysAreBytes == Keys \cup {0} \subseteq ByteRange
<1>1. Keys \subseteq 1..255
  BY CpuAssumption, SMT
<1> QED
  BY <1>1, Bytes, SMT

LEMMA InTypes ==
  ASSUME StateOK, NEW ports, NEW v \in ByteRange, In(ports, v)
  PROVE  StateOK' /\ UNCHANGED <<typed, sent>>
BY NextCounter DEF In, StateOK, RegistersOK, FlagsOK, MemoryOK

LEMMA PortTypes == ASSUME CpuTypeOK, Ports PROVE CpuTypeOK'
<1>1. StateOK /\ TrafficOK /\ TermIn \in Keys \cup {0} /\ Taken \in Seq(Keys)
  BY CpuTypeParts, QueueTypes
<1>2. /\ 0 \in ByteRange /\ 1 \in ByteRange /\ 2 \in ByteRange /\ 3 \in ByteRange
  BY Bytes, SMT
<1> /\ Sense \in ByteRange /\ \A v \in Devices : v \in ByteRange
  BY CpuAssumption, SMT
<1>3. CASE InTerminal
  BY <1>1, <1>3, KeysAreBytes, InTypes, CpuTypeParts DEF InTerminal, TrafficOK
<1>4. CASE InStatus
  <2> DEFINE fetched == IF character = 0 THEN TermIn ELSE character
             answer == IF fetched = 0 THEN 2 ELSE 3
  <2>1. fetched \in Keys \cup {0} /\ answer \in ByteRange
    BY <1>1, <1>2 DEF TrafficOK
  <2>2. In({16}, answer) /\ character' = fetched /\ queue' \in {queue, Taken}
    BY <1>4 DEF InStatus
  <2> HIDE DEF fetched, answer
  <2> QED
    BY <1>1, <2>1, <2>2, InTypes, CpuTypeParts DEF TrafficOK
<1>5. CASE InData
  <2> DEFINE answer == IF character = 0 THEN TermIn ELSE character
  <2>1. answer \in ByteRange
    BY <1>1, KeysAreBytes DEF TrafficOK
  <2>2. In({17}, answer) /\ character' = 0 /\ queue' \in {queue, Taken}
    BY <1>5 DEF InData
  <2> HIDE DEF answer
  <2> QED
    BY <1>1, <2>1, <2>2, InTypes, CpuTypeParts DEF TrafficOK
<1>6. CASE InSense
  BY <1>1, <1>2, <1>6, InTypes, CpuTypeParts DEF InSense, TrafficOK
<1>7. CASE InDevice
  BY <1>1, <1>2, <1>7, InTypes, CpuTypeParts DEF InDevice, TrafficOK
<1>8. CASE Out
  <2>1. Immediate \in ByteRange /\ reg[A] \in ByteRange
    BY <1>1, Fetched, OperandTypes DEF StateOK
  <2>2. sent' \in Seq(ByteRange \X ByteRange)
    <3>1. \A x \in ByteRange : Append(sent, <<x, reg[A]>>) \in Seq(ByteRange \X ByteRange)
      BY <1>1, <2>1, AppendProperties DEF TrafficOK
    <3> QED
      BY <1>1, <1>2, <1>8, <2>1, <3>1 DEF Out, TrafficOK
  <2>3. pc' \in WordRange
    BY <1>1, <1>8, NextCounter DEF Out
  <2> QED
    BY <1>1, <1>8, <2>2, <2>3, CpuTypeParts DEF Out, TrafficOK, StateOK, RegistersOK, FlagsOK, MemoryOK
<1> QED
  BY <1>3, <1>4, <1>5, <1>6, <1>7, <1>8 DEF Ports

LEMMA CycleTypes == ASSUME CpuTypeOK, Cycle PROVE CpuTypeOK'
<1>1. CASE (Move \/ Compute \/ Branch) /\ Quiet
  <2>1. StateOK /\ TrafficOK
    BY CpuTypeParts
  <2>2. StateOK'
    BY <1>1, <2>1, MoveTypes, ComputeTypes, BranchTypes
  <2>3. TrafficOK'
    BY <1>1, <2>1 DEF Quiet, TrafficOK
  <2> QED
    BY <2>2, <2>3, CpuTypeParts
<1> QED
  BY <1>1, PortTypes DEF Cycle

LEMMA TypedTypes == ASSUME CpuTypeOK, NEW k \in Keys, Type(k) PROVE CpuTypeOK'
<1>1. Append(typed, k) \in Seq(Keys) /\ Append(queue, k) \in Seq(Keys)
  BY AppendProperties DEF CpuTypeOK
<1> QED
  BY <1>1 DEF Type, CpuTypeOK

-----------------------------------------------------------------------------
(* The timers *)

LEMMA DelayRange == \A d : d \in Delays <=> d \in Nat /\ d < 65536
BY SMT DEF Delays

\* Either half of a delay may be replaced.
LEMMA DelayParts ==
  ASSUME NEW d \in Delays, NEW data \in ByteRange
  PROVE  (d % 256) + 256 * data \in Delays /\ 256 * (d \div 256) + data \in Delays
<1>1. d \in Int /\ 0 <= d /\ d < 65536 /\ data \in Int /\ 0 <= data /\ data < 256
  BY DelayRange, Bytes, SMT
<1>2. PICK low \in Int : low = d % 256 /\ 0 <= low /\ low < 256
  BY <1>1, SMT
<1>3. PICK high \in Int : high = d \div 256 /\ 0 <= high /\ high < 256
  BY <1>1, SMT
<1> QED
  BY <1>1, <1>2, <1>3, DelayRange, SMT

LEMMA TimerOf ==
  ASSUME NEW port \in 24..29
  PROVE  Timer(port) \in Timers
BY DEF Timer, Timers

LEMMA ElapsedType == ASSUME now \in Nat PROVE Elapsed \in Nat
BY TimeAssumption, SMT DEF Elapsed

LEMMA TimeOutTypes ==
  ASSUME TimeTypeOK, NEW port \in Ports24, NEW data \in ByteRange, TimeOut(port, data)
  PROVE  TimeTypeOK'
<1>1. data \in Nat
  BY Bytes, SMT
<1>2. CASE port = 30 /\ SetSeconds(data)
  <2>1. Elapsed + data \in Nat
    BY <1>1, ElapsedType DEF TimeTypeOK
  <2> QED
    BY <1>2, <2>1 DEF SetSeconds, TimeTypeOK
<1>3. ASSUME NEW t \in Timers, SetHigh(t, data) PROVE TimeTypeOK'
  <2>1. (delay[t] % 256) + 256 * data \in Delays
    BY DelayParts DEF TimeTypeOK
  <2> QED
    BY <1>3, <2>1 DEF SetHigh, TimeTypeOK
<1>4. ASSUME NEW t \in Timers, SetLow(t, data) PROVE TimeTypeOK'
  <2> DEFINE whole == 256 * (delay[t] \div 256) + data
  <2>1. whole \in Delays
    BY DelayParts DEF TimeTypeOK
  <2>2. now + whole \in Nat
    BY <2>1, DelayRange DEF TimeTypeOK
  <2>3. /\ delay' = [delay EXCEPT ![t] = whole]
        /\ target' = [target EXCEPT ![t] = now + whole]
        /\ UNCHANGED <<now, seconds>>
    BY <1>4 DEF SetLow
  <2> HIDE DEF whole
  <2> QED
    BY <2>1, <2>2, <2>3 DEF TimeTypeOK
<1>5. port \in {24, 26, 28} \/ port \in {25, 27, 29} => Timer(port) \in Timers
  BY TimerOf
<1> QED
  BY <1>2, <1>3, <1>4, <1>5 DEF TimeOut

LEMMA TimeInTypes ==
  ASSUME TimeTypeOK, NEW port \in Ports24, NEW answer, TimeIn(port, answer)
  PROVE  TimeTypeOK'
<1>1. 0 \in Delays
  BY DelayRange, SMT
<1>2. CASE port < 30 /\ Forget(Timer(port))
  BY <1>1, <1>2 DEF Forget, TimeTypeOK
<1>3. CASE port = 30 /\ UNCHANGED <<now, target, delay>> /\ seconds' \in {seconds, 0}
  BY <1>3 DEF TimeTypeOK
<1> QED
  BY <1>2, <1>3 DEF TimeIn

LEMMA TickTypes == ASSUME TimeTypeOK, Tick PROVE TimeTypeOK'
<1>1. PICK k \in Steps : now' = now + k
  BY DEF Tick
<1>2. k \in Nat
  BY TimeAssumption
<1> QED
  BY <1>1, <1>2 DEF Tick, TimeTypeOK

-----------------------------------------------------------------------------
(* The machine: the processor and its timers *)

Asking == [high : ByteRange, due : Nat, running : BOOLEAN]

LEMMA PortTimer == \A port \in Ports24 : Timer(port) \in 0..3
BY DEF Timer, Ports24

\* What a start does to the record of a timer.
Restart(r, due, b) == [r EXCEPT !.due = due, !.running = b]

LEMMA Restarted ==
  ASSUME NEW r \in Asking, NEW due \in Nat, NEW b \in BOOLEAN
  PROVE  /\ Restart(r, due, b) \in Asking
         /\ Restart(r, due, b).high = r.high
         /\ Restart(r, due, b).due = due
         /\ Restart(r, due, b).running = b
BY DEF Asking, Restart

\* An answer of 0 ends a run.
LEMMA Stopped ==
  ASSUME NEW r \in Asking, r.running, NEW answer, answer = 0
  PROVE  Found(r, answer).high = 0 /\ ~Found(r, answer).running
<1>1. Found(r, answer) = [r EXCEPT !.high = 0, !.running = FALSE]
  BY DEF Found
<1> QED
  BY <1>1 DEF Asking

LEMMA ToldType ==
  ASSUME now \in Nat, NEW r \in Asking, NEW port \in Ports24, NEW data \in ByteRange
  PROVE  Told(r, port, data) \in Asking
<1>1. data \in Nat /\ r.high \in Nat /\ Second \in Nat
  BY Bytes, TimeAssumption, SMT DEF Asking
<1>2. now + Second * data \in Nat /\ now + 256 * r.high + data \in Nat
  BY <1>1, SMT
<1>3. CASE port = 30
  BY <1>2, <1>3 DEF Told, Asking
<1>4. CASE port \in {24, 26, 28}
  BY <1>4 DEF Told, Asking
<1>5. CASE port # 30 /\ port \notin {24, 26, 28}
  <2>1. Told(r, port, data) = [r EXCEPT !.due = now + 256 * r.high + data,
                                        !.running = now + 256 * r.high + data > 0]
    BY <1>5 DEF Told
  <2> DEFINE due == now + 256 * r.high + data
             runs == due > 0
  <2>2. Told(r, port, data) = Restart(r, due, runs)
    BY <2>1 DEF Restart
  <2>4. runs \in BOOLEAN
    OBVIOUS
  <2>3. due \in Nat
    BY <1>2
  <2> HIDE DEF due, runs
  <2> QED
    BY <2>2, <2>3, <2>4, Restarted
<1> QED
  BY <1>3, <1>4, <1>5

LEMMA FoundType ==
  ASSUME NEW r \in Asking, NEW answer PROVE Found(r, answer) \in Asking
<1>1. 0 \in ByteRange
  BY Bytes, SMT
<1> QED
  BY <1>1 DEF Found, Asking

LEMMA AltairInitTypes == AltairInit => AltairTypeOK
<1> SUFFICES ASSUME AltairInit PROVE AltairTypeOK
  OBVIOUS
<1>1. 0 \in ByteRange /\ 0 \in WordRange /\ 0 \in Delays
  BY Bytes, Words, DelayRange, SMT
<1>2. memory \in [Cells -> ByteRange]
  BY CpuAssumption, SMT DEF AltairInit, CpuInit
<1>3. CpuTypeOK
  BY <1>1, <1>2, BitNames DEF AltairInit, CpuInit, CpuTypeOK
<1>4. asked \in [0..3 -> Asking]
  BY <1>1 DEF AltairInit, Asking
<1> QED
  BY <1>1, <1>3, <1>4 DEF AltairInit, TimeInit, AltairTypeOK, TimeTypeOK, Asking

LEMMA AltairStepTypes == AltairTypeOK /\ [AltairNext]_altairVars => AltairTypeOK'
<1> SUFFICES ASSUME AltairTypeOK, [AltairNext]_altairVars PROVE AltairTypeOK'
  OBVIOUS
<1>1. /\ CpuTypeOK /\ TimeTypeOK /\ marks \in Seq(Nat) /\ StateOK
      /\ asked \in [0..3 -> Asking]
  BY CpuTypeParts DEF AltairTypeOK, Asking
<1>2. Immediate \in ByteRange /\ reg[A] \in ByteRange
  BY <1>1, Fetched, OperandTypes DEF StateOK
<1>3. CASE TimerOut
  <2>1. CpuTypeOK'
    BY <1>1, <1>3, PortTypes DEF TimerOut, Ports
  <2>2. TimeTypeOK'
    BY <1>1, <1>2, <1>3, TimeOutTypes DEF TimerOut
  <2>3. asked' \in [0..3 -> Asking]
    <3> DEFINE t == Timer(Immediate)
    <3>1. t \in 0..3 /\ Told(asked[t], Immediate, reg[A]) \in Asking
      BY <1>1, <1>2, <1>3, PortTimer, ToldType DEF TimerOut, TimeTypeOK
    <3>2. asked' = [asked EXCEPT ![t] = Told(asked[t], Immediate, reg[A])]
      BY <1>3 DEF TimerOut
    <3> HIDE DEF t
    <3> QED
      BY <1>1, <3>1, <3>2
  <2> QED
    BY <1>1, <1>3, <2>1, <2>2, <2>3 DEF TimerOut, AltairTypeOK, Asking
<1>4. CASE TimerIn
  <2>1. CpuTypeOK'
    BY <1>1, <1>4, PortTypes DEF TimerIn, Ports
  <2>2. TimeTypeOK'
    BY <1>1, <1>4, TimeInTypes DEF TimerIn
  <2>3. asked' \in [0..3 -> Asking]
    <3> DEFINE t == Timer(Immediate)
    <3>1. t \in 0..3 /\ Found(asked[t], reg'[A]) \in Asking
      BY <1>1, <1>4, PortTimer, FoundType DEF TimerIn
    <3>2. asked' = [asked EXCEPT ![t] = Found(asked[t], reg'[A])]
      BY <1>4 DEF TimerIn
    <3> HIDE DEF t
    <3> QED
      BY <1>1, <3>1, <3>2
  <2> QED
    BY <1>1, <1>4, <2>1, <2>2, <2>3 DEF TimerIn, AltairTypeOK, Asking
<1>5. CASE OtherCycle
  <2>1. CpuTypeOK'
    BY <1>1, <1>5, CycleTypes DEF OtherCycle
  <2>2. marks' \in Seq(Nat)
    BY <1>1, <1>5, AppendProperties DEF OtherCycle, TimeTypeOK
  <2> QED
    BY <1>1, <1>5, <2>1, <2>2 DEF OtherCycle, AltairTypeOK, TimeTypeOK, timeVars
<1>6. CASE KeyStruck
  BY <1>1, <1>6, TypedTypes DEF KeyStruck, AltairTypeOK, TimeTypeOK, timeVars
<1>7. CASE ClockTick
  BY <1>1, <1>7, TickTypes DEF ClockTick, AltairTypeOK, CpuTypeOK, cpuVars
<1>8. CASE UNCHANGED altairVars
  BY <1>1, <1>8 DEF altairVars, cpuVars, timeVars, AltairTypeOK, CpuTypeOK, TimeTypeOK
<1> QED
  BY <1>3, <1>4, <1>5, <1>6, <1>7, <1>8 DEF AltairNext, AltairCycle

(* Every handler truncates what it computes: whatever program memory holds,
   and whatever the ports answer, the registers, the cells and the timers'
   delays keep the width that intel8080.h and time_io.c give them. *)
THEOREM AltairTypesKept == AltairSpec => []AltairTypeOK
BY AltairInitTypes, AltairStepTypes, PTL DEF AltairSpec

-----------------------------------------------------------------------------
(* What the arithmetic of a program rests on *)

\* Z, S and P are set apart from the carries; Z tells of the result.
LEMMA ResultKeepsCarry ==
  ASSUME NEW f, NEW v
  PROVE  /\ Carry \in Result(f, v) <=> Carry \in f
         /\ Half \in Result(f, v) <=> Half \in f
         /\ Zero \in Result(f, v) <=> v = 0
<1> DEFINE even == Cardinality(BitsOf[v]) % 2 = 0
<1> DEFINE f1 == Put(f, Parity, even)
<1>1. (Carry \in f1 <=> Carry \in f) /\ (Half \in f1 <=> Half \in f)
  <2> HIDE DEF even
  <2> QED
    BY DEF Put, Parity, Carry, Half
<1> DEFINE f2 == Put(f1, Zero, v = 0)
<1>2. (Carry \in f2 <=> Carry \in f) /\ (Half \in f2 <=> Half \in f) /\ (Zero \in f2 <=> v = 0)
  <2> HIDE DEF f1
  <2> QED
    BY <1>1 DEF Put, Zero, Carry, Half
<1> DEFINE f3 == Put(f2, Sign, v >= 128)
<1>3. (Carry \in f3 <=> Carry \in f) /\ (Half \in f3 <=> Half \in f) /\ (Zero \in f3 <=> v = 0)
  <2> HIDE DEF f2
  <2> QED
    BY <1>2 DEF Put, Zero, Carry, Half, Sign
<1> QED
  BY <1>3 DEF Result

LEMMA Added ==
  ASSUME StateOK, NEW val \in Nat, val <= 256, GenAdd(val)
  PROVE  reg'[A] + 256 * CarryOut = reg[A] + val
<1> DEFINE over == reg[A] + val > 255
           half == Put(flags, Half, HalfCarry(reg[A], val))
<1>1. reg[A] \in Int /\ 0 <= reg[A] /\ reg[A] < 256
  BY OperandTypes, Bytes, SMT DEF StateOK
<1>2. Carry \in flags' <=> over
  <2>1. flags' = Result(Put(half, Carry, over), Byte(reg[A] + val))
    BY DEF GenAdd, Accumulate
  <2>2. Carry \in Put(half, Carry, over) <=> over
    <3> HIDE DEF half, over
    <3> QED
      BY DEF Put
  <2> QED
    BY <2>1, <2>2, ResultKeepsCarry
<1>3. reg'[A] = (reg[A] + val) % 256
  BY DEF GenAdd, Accumulate, Byte, StateOK, RegistersOK, Registers
<1>4. (reg[A] + val) % 256 = reg[A] + val - (IF over THEN 256 ELSE 0)
  BY <1>1, SMT
<1> QED
  BY <1>1, <1>2, <1>3, <1>4, SMT DEF CarryOut

\* The carry that was turned round is the borrow, also when nothing is taken away.
LEMMA Borrows ==
  ASSUME StateOK, NEW val \in Nat, val <= 256
  PROVE  /\ Carry \in SubFlags(val) <=> reg[A] < val
         /\ Byte(reg[A] + Complement(val)) = reg[A] - val + (IF reg[A] < val THEN 256 ELSE 0)
<1> DEFINE over == reg[A] + Complement(val) > 255
           half == Put(flags, Half, HalfCarry(reg[A], Complement(val)))
<1>1. reg[A] \in Int /\ 0 <= reg[A] /\ reg[A] < 256
  BY OperandTypes, Bytes, SMT DEF StateOK
<1>2. ~over <=> reg[A] < val
  BY <1>1, SMT DEF Complement
<1>3. Carry \in SubFlags(val) <=> ~over
  <2>1. SubFlags(val) = Put(half, Carry, ~over)
    BY DEF SubFlags
  <2> HIDE DEF half, over
  <2> QED
    BY <2>1 DEF Put
<1>4. (reg[A] + (256 - val)) % 256 = reg[A] - val + (IF reg[A] < val THEN 256 ELSE 0)
  BY <1>1, SMT
<1> QED
  BY <1>2, <1>3, <1>4 DEF Byte, Complement

LEMMA Subtracted ==
  ASSUME StateOK, NEW val \in Nat, val <= 256, GenSub(val)
  PROVE  reg'[A] - 256 * CarryOut = reg[A] - val
<1>1. reg[A] \in Int
  BY OperandTypes, Bytes, SMT DEF StateOK
<1>2. Carry \in flags' <=> reg[A] < val
  BY Borrows, ResultKeepsCarry DEF GenSub, Accumulate
<1>3. reg'[A] = Byte(reg[A] + Complement(val))
  BY DEF GenSub, Accumulate, StateOK, RegistersOK, Registers
<1> QED
  BY <1>1, <1>2, <1>3, Borrows, SMT DEF CarryOut

LEMMA ArithmeticStep == ASSUME StateOK PROVE ArithmeticRight
<1>1. Operand \in Int /\ 0 <= Operand /\ Operand < 256 /\ CarryIn \in {0, 1}
  BY OperandNumbers, OperandTypes, Bytes, SMT DEF StateOK
<1>2. /\ Operand \in Nat /\ Operand <= 256
      /\ Operand + CarryIn \in Nat /\ Operand + CarryIn <= 256
  BY <1>1, SMT
<1>3. reg[A] \in Int
  BY OperandTypes, Bytes, SMT DEF StateOK
<1>4. ASSUME Add PROVE reg'[A] + 256 * CarryOut = reg[A] + Operand
  BY <1>2, <1>4, Added DEF Add
<1>5. ASSUME Adc PROVE reg'[A] + 256 * CarryOut = reg[A] + Operand + CarryIn
  <2>1. reg'[A] + 256 * CarryOut = reg[A] + (Operand + CarryIn)
    BY <1>2, <1>5, Added DEF Adc
  <2> QED
    BY <1>1, <1>3, <2>1, SMT
<1>6. ASSUME Sub PROVE reg'[A] - 256 * CarryOut = reg[A] - Operand
  BY <1>2, <1>6, Subtracted DEF Sub
<1>7. ASSUME Sbb PROVE reg'[A] - 256 * CarryOut = reg[A] - Operand - CarryIn
  <2>1. reg'[A] - 256 * CarryOut = reg[A] - (Operand + CarryIn)
    BY <1>2, <1>7, Subtracted DEF Sbb
  <2> QED
    BY <1>1, <1>3, <2>1, SMT
<1>8. ASSUME Cmp
      PROVE  /\ Carry \in flags' <=> reg[A] < Operand
             /\ Zero \in flags' <=> reg[A] = Operand
  <2> DEFINE left == Byte(reg[A] + Complement(Operand))
  <2>1. flags' = Result(SubFlags(Operand), left)
    BY <1>8 DEF Cmp
  <2>2. Carry \in flags' <=> reg[A] < Operand
    BY <1>2, <2>1, Borrows, ResultKeepsCarry
  <2>3. Zero \in flags' <=> left = 0
    BY <2>1, ResultKeepsCarry
  <2>4. reg[A] \in Int /\ 0 <= reg[A] /\ reg[A] < 256
    BY OperandTypes, Bytes, SMT DEF StateOK
  <2>5. left = reg[A] - Operand + (IF reg[A] < Operand THEN 256 ELSE 0)
    BY <1>2, Borrows
  <2>6. left = 0 <=> reg[A] = Operand
    <3> HIDE DEF left
    <3> QED
      BY <1>1, <2>4, <2>5, SMT
  <2> QED
    BY <2>2, <2>3, <2>6
<1> QED
  BY <1>4, <1>5, <1>6, <1>7, <1>8 DEF ArithmeticRight

(* Every step of every program computes the exact sum, difference or order. *)
THEOREM AltairArithmetic == AltairSpec => ArithmeticExact
<1>1. AltairTypeOK /\ [AltairNext]_altairVars => [ArithmeticRight]_altairVars
  BY CpuTypeParts, ArithmeticStep DEF AltairTypeOK
<1> QED
  BY <1>1, AltairTypesKept, PTL DEF AltairSpec, ArithmeticExact
-----------------------------------------------------------------------------
(* What calls rest on *)

\* What write16 writes, read16 reads, when both cells are there.
LEMMA PushedWord ==
  ASSUME MemoryOK, NEW a, NEW v \in WordRange, Write16(a, v),
         a \in Cells, a + 1 \in Cells, a \in Int
  PROVE  Word16(memory', a) = v
<1>1. a # a + 1
  BY SMT
<1>2. memory'[a] = v % 256
  BY DEF Write16
<1>3. memory'[a + 1] = v \div 256
  BY <1>1 DEF Write16
<1>4. v = 256 * (v \div 256) + (v % 256) /\ v \div 256 \in ByteRange /\ v % 256 \in ByteRange
  BY WordParts
<1>5. Word16(memory', a) = (v % 256) + 256 * (v \div 256)
  BY <1>2, <1>3 DEF Word16, Byte8
<1>6. v \div 256 \in Int /\ v % 256 \in Int
  BY <1>4, Bytes, SMT
<1> QED
  BY <1>4, <1>5, <1>6, SMT

\* The stack pointer comes back, also around the ends of memory.
LEMMA StackBack ==
  ASSUME NEW s \in WordRange
  PROVE  Word(Word(s + 65534) + 2) = s
<1>1. s \in Int /\ 0 <= s /\ s < 65536
  BY Words, SMT
<1>2. (s + 65534) % 65536 = IF s < 2 THEN s + 65534 ELSE s - 2
  BY <1>1, SMT
<1>3. CASE s < 2
  BY <1>1, <1>2, <1>3, SMT DEF Word
<1>4. CASE s >= 2
  BY <1>1, <1>2, <1>4, SMT DEF Word
<1> QED
  BY <1>1, <1>3, <1>4, SMT

(* the bits that PUSH PSW writes are the bits that POP PSW finds *)
LEMMA BitsBack == ASSUME NEW S \in SUBSET (0..7) PROVE BitsOf[ByteOf(S)] = S
<1>1. ByteOf(S) \in ByteRange /\ ByteOf(S) \in Int
  BY ByteOfType, Bytes, SMT
<1>2. BitsOf[ByteOf(S)] = {i \in 0..7 : (ByteOf(S) \div Power[i + 1]) % 2 = 1}
  BY <1>1 DEF BitsOf
<1>3. PICK n \in [0..7 -> {0, 1}] : n = [i \in 0..7 |-> IF i \in S THEN 1 ELSE 0]
  OBVIOUS
<1>4. /\ n[0] \in {0, 1} /\ n[1] \in {0, 1} /\ n[2] \in {0, 1} /\ n[3] \in {0, 1}
      /\ n[4] \in {0, 1} /\ n[5] \in {0, 1} /\ n[6] \in {0, 1} /\ n[7] \in {0, 1}
  OBVIOUS
<1>5. /\ Power[0 + 1] = 1 /\ Power[1 + 1] = 2 /\ Power[2 + 1] = 4 /\ Power[3 + 1] = 8
      /\ Power[4 + 1] = 16 /\ Power[5 + 1] = 32 /\ Power[6 + 1] = 64 /\ Power[7 + 1] = 128
  BY DEF Power
<1>6. ByteOf(S) = n[0] + 2 * n[1] + 4 * n[2] + 8 * n[3] + 16 * n[4] + 32 * n[5] + 64 * n[6] + 128 * n[7]
  BY <1>3, <1>5 DEF ByteOf, Weight
<1> DEFINE bit(i) == (ByteOf(S) \div Power[i + 1]) % 2
<1>10. bit(0) = n[0]
  BY <1>1, <1>4, <1>5, <1>6, SMT
<1>11. bit(1) = n[1]
  BY <1>1, <1>4, <1>5, <1>6, SMT
<1>12. bit(2) = n[2]
  BY <1>1, <1>4, <1>5, <1>6, SMT
<1>13. bit(3) = n[3]
  BY <1>1, <1>4, <1>5, <1>6, SMT
<1>14. bit(4) = n[4]
  BY <1>1, <1>4, <1>5, <1>6, SMT
<1>15. bit(5) = n[5]
  BY <1>1, <1>4, <1>5, <1>6, SMT
<1>16. bit(6) = n[6]
  BY <1>1, <1>4, <1>5, <1>6, SMT
<1>17. bit(7) = n[7]
  BY <1>1, <1>4, <1>5, <1>6, SMT
<1>18. \A i \in 0..7 : bit(i) = n[i]
  <2> HIDE DEF bit
  <2>1. \A i \in 0..7 : i \in {0, 1, 2, 3, 4, 5, 6, 7}
    OBVIOUS
  <2> QED
    BY <1>10, <1>11, <1>12, <1>13, <1>14, <1>15, <1>16, <1>17, <2>1, Zenon
<1>19. \A i \in 0..7 : n[i] = 1 <=> i \in S
  BY <1>3
<1> QED
  BY <1>2, <1>18, <1>19
LEMMA StackStep == ASSUME StateOK PROVE StackRight
<1>1. ASSUME NEW v \in WordRange, sp' = Word(sp + 65534), Write16(sp', v), HasWord(sp')
      PROVE  Word16(memory', sp') = v /\ Word(sp' + 2) = sp
  <2>1. sp \in WordRange /\ MemoryOK
    BY DEF StateOK, RegistersOK
  <2>2. sp' \in WordRange
    BY <1>1, StackTypes
  <2>3. sp' \in Int /\ sp' \in Cells /\ sp' + 1 \in Cells
    BY <1>1, <2>2, Words, SMT DEF HasWord
  <2>4. Word16(memory', sp') = v
    BY <1>1, <2>1, <2>3, PushedWord
  <2> QED
    BY <1>1, <2>1, <2>4, StackBack
<1>2. ASSUME Call, HasWord(sp')
      PROVE  Word16(memory', sp') = Word(pc + 3) /\ Word(sp' + 2) = sp
  BY <1>1, <1>2, StackTypes DEF Call
<1>3. ASSUME Rst, HasWord(sp')
      PROVE  Word16(memory', sp') = Word(pc + 1) /\ Word(sp' + 2) = sp
  BY <1>1, <1>3, StackTypes DEF Rst
<1> DEFINE found == Word16(memory', sp')
<1>4. ASSUME Push, HasWord(sp')
      PROVE  /\ Word(sp' + 2) = sp
             /\ IF RP = 3 THEN found \div 256 = reg[A] /\ BitsOf[found % 256] = flags
                          ELSE found \div 256 = reg[2 * RP] /\ found % 256 = reg[2 * RP + 1]
  <2> DEFINE v == IF RP = 3 THEN 256 * reg[A] + ByteOf(flags) ELSE PairRead(RP)
  <2>1. reg[A] \in ByteRange /\ ByteOf(flags) \in ByteRange /\ RP \in 0..3 /\ PairRead(RP) \in WordRange
    BY OperandTypes, ByteOfType, Fetched, PairTypes DEF StateOK
  <2>2. v \in WordRange
    BY <2>1, WordOf
  <2>3. sp' = Word(sp + 65534) /\ Write16(sp', v)
    BY <1>4 DEF Push
  <2>4. found = v /\ Word(sp' + 2) = sp
    <3> HIDE DEF v
    <3> QED
      BY <1>1, <1>4, <2>2, <2>3
  <2>5. CASE RP = 3
    <3>1. v \div 256 = reg[A] /\ v % 256 = ByteOf(flags)
      BY <2>1, <2>5, WordOf
    <3>2. BitsOf[ByteOf(flags)] = flags
      BY BitsBack DEF StateOK, FlagsOK
    <3> HIDE DEF v
    <3> QED
      BY <2>4, <2>5, <3>1, <3>2
  <2>6. CASE RP # 3
    <3>1. 2 * RP \in Registers /\ 2 * RP + 1 \in Registers
      BY <2>1, <2>6 DEF Registers, B, C, D, E, H, L, A
    <3>2. reg[2 * RP] \in ByteRange /\ reg[2 * RP + 1] \in ByteRange
      BY <3>1 DEF StateOK, RegistersOK
    <3>3. v = 256 * reg[2 * RP] + reg[2 * RP + 1]
      BY <2>6 DEF PairRead
    <3> HIDE DEF v
    <3> QED
      BY <2>4, <2>6, <3>2, <3>3, WordOf
  <2> QED
    BY <2>4, <2>5, <2>6
<1> QED
  BY <1>2, <1>3, <1>4 DEF StackRight

(* Whatever program memory holds, and wherever it puts its stack. *)
THEOREM AltairStack == AltairSpec => StackReturns
<1>1. AltairTypeOK /\ [AltairNext]_altairVars => [StackRight]_altairVars
  BY CpuTypeParts, StackStep DEF AltairTypeOK
<1> QED
  BY <1>1, AltairTypesKept, PTL DEF AltairSpec, StackReturns

-----------------------------------------------------------------------------
(* Characters *)

LEMMA KeysNotNull == 0 \notin Keys
<1>1. Keys \subseteq 1..255
  BY CpuAssumption, SMT
<1> QED
  BY <1>1

LEMMA PendingIs ==
  ASSUME TrafficOK
  PROVE  /\ Pending \in Seq(Keys)
         /\ character = 0 => Pending = queue
         /\ character # 0 => Pending # <<>> /\ Head(Pending) = character /\ Tail(Pending) = queue
<1>1. CASE character = 0
  BY <1>1 DEF Pending, TrafficOK
<1>2. CASE character # 0
  <2>1. character \in Keys /\ Pending = <<character>> \o queue
    BY <1>2 DEF Pending, TrafficOK
  <2>2. queue \in Seq(Keys)
    BY DEF TrafficOK
  <2>3. <<character>> \o queue \in Seq(Keys) /\ Len(<<character>> \o queue) = 1 + Len(queue)
    BY <2>1, <2>2
  <2>4. Head(<<character>> \o queue) = character /\ <<character>> \o queue # <<>>
    BY <2>1, <2>2, <2>3
  <2>5. Tail(<<character>> \o queue) = queue
    BY <2>1, <2>2, <2>3
  <2> QED
    BY <1>2, <2>1, <2>3, <2>4, <2>5, Zenon
<1> QED
  BY <1>1, <1>2

LEMMA TakenIs ==
  ASSUME TrafficOK
  PROVE  /\ queue = <<>> => TermIn = 0 /\ Taken = <<>>
         /\ queue # <<>> => TermIn = Head(queue) /\ TermIn # 0 /\ Taken = Tail(queue)
<1>1. queue # <<>> => Head(queue) \in Keys
  BY HeadTailProperties DEF TrafficOK
<1> QED
  BY <1>1, KeysNotNull DEF TermIn, Taken

LEMMA OrderStep == ASSUME AltairTypeOK, [AltairNext]_altairVars PROVE [InOrder]_altairVars
<1> SUFFICES ASSUME AltairNext PROVE InOrder
  OBVIOUS
<1>1. CpuTypeOK /\ CpuTypeOK' /\ TrafficOK /\ TrafficOK' /\ reg \in [Registers -> ByteRange] /\ A \in Registers
  BY AltairStepTypes, CpuTypeParts DEF AltairTypeOK, StateOK, RegistersOK, Registers
<1>2. ASSUME NEW ports, NEW v, In(ports, v) PROVE reg'[A] = v
  BY <1>1, <1>2 DEF In
<1>3. ASSUME InData PROVE Fetches
  <2>1. /\ reg'[A] = IF character = 0 THEN TermIn ELSE character
        /\ character' = 0 /\ queue' = IF character = 0 THEN Taken ELSE queue
    BY <1>2, <1>3 DEF InData
  <2>2. Pending' = queue'
    BY <1>1, <2>1, PendingIs DEF Pending, TrafficOK
  <2> QED
    BY <1>1, <2>1, <2>2, PendingIs, TakenIs DEF Fetches
<1>4. ASSUME InTerminal, character = 0 PROVE Fetches
  <2>1. reg'[A] = TermIn /\ character' = 0 /\ queue' = Taken
    BY <1>2, <1>4 DEF InTerminal
  <2>2. Pending' = queue'
    BY <1>1, <2>1 DEF Pending, TrafficOK
  <2> QED
    BY <1>1, <1>4, <2>1, <2>2, PendingIs, TakenIs DEF Fetches
<1>5. ASSUME NEW k \in Keys, Type(k) PROVE Pending' = Append(Pending, k)
  <2>1. queue' = Append(queue, k) /\ UNCHANGED character
    BY <1>5 DEF Type
  <2>2. CASE character = 0
    BY <1>1, <2>1, <2>2 DEF Pending, TrafficOK
  <2>3. CASE character # 0
    <3>1. <<character>> \o Append(queue, k) = Append(<<character>> \o queue, k)
      BY <1>1, <2>3 DEF TrafficOK
    <3> QED
      BY <2>1, <2>3, <3>1 DEF Pending
  <2> QED
    BY <2>2, <2>3
<1>6. ASSUME InStatus PROVE Pending' = Pending
  <2> DEFINE fetched == IF character = 0 THEN TermIn ELSE character
  <2>1. character' = fetched /\ queue' = IF character = 0 THEN Taken ELSE queue
    BY <1>6 DEF InStatus
  <2>2. CASE character # 0
    BY <2>1, <2>2 DEF Pending
  <2>3. CASE character = 0 /\ queue = <<>>
    BY <1>1, <2>1, <2>3, TakenIs DEF Pending
  <2>4. CASE character = 0 /\ queue # <<>>
    <3>1. character' = Head(queue) /\ character' # 0 /\ queue' = Tail(queue)
      BY <1>1, <2>1, <2>4, TakenIs
    <3>2. queue = <<Head(queue)>> \o Tail(queue)
      <4> DEFINE whole == <<Head(queue)>> \o Tail(queue)
      <4>1. queue \in Seq(Keys) /\ Head(queue) \in Keys /\ Tail(queue) \in Seq(Keys)
        BY <1>1, <2>4, HeadTailProperties DEF TrafficOK
      <4>2. Len(queue) \in Nat /\ Len(Tail(queue)) = Len(queue) - 1 /\ queue[1] = Head(queue)
        BY <2>4, <4>1
      <4>3. whole \in Seq(Keys) /\ Len(whole) = Len(queue)
        BY <4>1, <4>2
      <4>4. \A i \in 1..Len(queue) : whole[i] = queue[i]
        BY <2>4, <4>1, <4>2
      <4> HIDE DEF whole
      <4>5. whole = queue
        BY <4>1, <4>3, <4>4
      <4> QED
        BY <4>5 DEF whole
    <3>3. Pending' = <<Head(queue)>> \o Tail(queue)
      BY <3>1 DEF Pending
    <3>4. Pending = queue
      BY <1>1, <2>4, PendingIs
    <3> QED
      BY <3>2, <3>3, <3>4
  <2> QED
    BY <2>2, <2>3, <2>4
<1>7. ASSUME ~(InData \/ InTerminal \/ KeyStruck) PROVE Pending' = Pending
  <2>1. CASE UNCHANGED <<character, queue>>
    BY <2>1 DEF Pending
  <2>2. CASE InStatus
    BY <1>6, <2>2
  <2>3. InStatus \/ UNCHANGED <<character, queue>>
    <3>1. CASE Ports
      BY <1>7, <3>1 DEF Ports, InSense, InDevice, Out
    <3>2. CASE TimerOut
      BY <3>2 DEF TimerOut, Out
    <3>3. CASE TimerIn
      BY <3>3 DEF TimerIn, InDevice
    <3>4. CASE (Move \/ Compute \/ Branch) /\ Quiet
      BY <3>4 DEF Quiet
    <3>5. CASE ClockTick
      BY <3>5 DEF ClockTick, cpuVars
    <3> QED
      BY <1>7, <3>1, <3>2, <3>3, <3>4, <3>5 DEF AltairNext, AltairCycle, OtherCycle, Cycle
  <2> QED
    BY <2>1, <2>2, <2>3
<1>8. ASSUME KeyStruck PROVE \E k \in Keys : Pending' = Append(Pending, k)
  BY <1>5, <1>8 DEF KeyStruck
<1> QED
  BY <1>3, <1>4, <1>7, <1>8 DEF InOrder

(* Whatever the program does between the keys that are struck. *)
THEOREM AltairInputOrder == AltairSpec => CharactersInOrder
BY OrderStep, AltairTypesKept, PTL DEF AltairSpec, CharactersInOrder

(* The three together, of every instruction of every program. *)
THEOREM AltairInstructions == AltairSpec => InstructionsRight
BY AltairArithmetic, AltairStack, AltairInputOrder, PTL
DEF InstructionsRight, ArithmeticExact, StackReturns, CharactersInOrder
-----------------------------------------------------------------------------
(* Decimals *)

\* The addition leaves its half carry and its carry in the flags.
LEMMA SumLeft ==
  ASSUME StateOK, NEW x, NEW y \in Nat, NEW c \in {0, 1}, x = reg[A], y <= 255, GenAdd(y + c)
  PROVE  SumOf(x, y, c)'
<1> DEFINE over == reg[A] + (y + c) > 255
           high == HalfCarry(reg[A], y + c)
           half == Put(flags, Half, high)
<1>1. reg[A] \in Int
  BY OperandTypes, Bytes, SMT DEF StateOK
<1>2. flags' = Result(Put(half, Carry, over), Byte(reg[A] + (y + c)))
  BY DEF GenAdd, Accumulate
<1>3. reg'[A] = Byte(reg[A] + (y + c))
  BY DEF GenAdd, Accumulate, StateOK, RegistersOK, Registers
<1>4. (Carry \in Put(half, Carry, over) <=> over) /\ (Half \in Put(half, Carry, over) <=> high)
  <2> HIDE DEF high, over
  <2> QED
    BY DEF Put, Carry, Half
<1>5. (Carry \in flags' <=> over) /\ (Half \in flags' <=> high)
  BY <1>2, <1>4, ResultKeepsCarry
<1>6. reg[A] + (y + c) = x + y + c
  BY <1>1, SMT
<1> QED
  BY <1>3, <1>5, <1>6 DEF SumOf

\* A packed byte is its digits, and digits are a packed byte.
LEMMA Digits ==
  ASSUME NEW n \in TwoDigits
  PROVE  \E h \in 0..9, l \in 0..9 : n = 16 * h + l /\ n \div 16 = h /\ n % 16 = l
<1>1. n \in Int /\ 0 <= n /\ n < 256 /\ n % 16 < 10 /\ n \div 16 < 10
  BY Bytes, SMT DEF TwoDigits
<1>2. PICK h \in Int : h = n \div 16
  BY <1>1, SMT
<1>3. PICK l \in Int : l = n % 16
  BY <1>1, SMT
<1>4. n = 16 * h + l /\ 0 <= l /\ l <= 9 /\ 0 <= h /\ h <= 9
  BY <1>1, <1>2, <1>3, SMT
<1> QED
  BY <1>2, <1>3, <1>4

LEMMA DigitsBack ==
  ASSUME NEW h \in 0..9, NEW l \in 0..9
  PROVE  16 * h + l \in TwoDigits /\ DecimalOf(16 * h + l) = 10 * h + l
<1>1. PICK n \in Int : n = 16 * h + l
  BY SMT
<1>2. n \div 16 = h
  BY <1>1, SMT
<1>3. n % 16 = l
  <2>1. n = 16 * (n \div 16) + (n % 16)
    BY <1>1, SMT
  <2> QED
    BY <1>1, <1>2, <2>1, SMT
<1>4. n \in ByteRange
  BY <1>1, Bytes, SMT
<1> QED
  BY <1>1, <1>2, <1>3, <1>4, SMT DEF TwoDigits, DecimalOf

\* t and u are the digits of the corrected sum, t as far as 19.
LEMMA Corrected ==
  ASSUME StateOK, NEW x \in TwoDigits, NEW y \in TwoDigits, NEW c \in {0, 1}, Daa, SumOf(x, y, c)
  PROVE  /\ reg'[A] \in TwoDigits
         /\ DecimalOf(reg'[A]) + 100 * CarryOut =
              DecimalOf(x) + DecimalOf(y) + c - (IF x + y + c < 250 THEN 0
                                                 ELSE IF x + y + c < 256 THEN 60 ELSE 100)
<1>1. PICK xh \in 0..9, xl \in 0..9 : x = 16 * xh + xl /\ x \div 16 = xh /\ x % 16 = xl
  BY Digits
<1>2. PICK yh \in 0..9, yl \in 0..9 : y = 16 * yh + yl /\ y \div 16 = yh /\ y % 16 = yl
  BY Digits
<1>3. PICK a \in Int : a = reg[A] /\ 0 <= a /\ a < 256
  BY OperandTypes, Bytes, SMT DEF StateOK
<1>4. PICK s \in 0..19 : s = xl + yl + c
  BY SMT
<1>5. PICK b \in Int : b = 16 * (xh + yh) + s /\ b = x + y + c
  BY <1>1, <1>2, <1>4, SMT
<1>6. a = IF b > 255 THEN b - 256 ELSE b
  <2>1. a = b % 256
    BY <1>1, <1>2, <1>3, <1>5 DEF SumOf, Byte
  <2> QED
    BY <1>4, <1>5, <2>1, SMT
<1>7. Half \in flags <=> s > 15
  <2>1. (y + c) % 16 = yl + c
    BY <1>2, SMT
  <2> QED
    BY <1>1, <1>4, <2>1, SMT DEF SumOf, HalfCarry
<1>8. Carry \in flags <=> b > 255
  BY <1>5 DEF SumOf
<1> DEFINE low == IF a % 16 > 9 \/ Half \in flags THEN 6 ELSE 0
           val == Byte(a + low)
           high == IF val \div 16 > 9 \/ Carry \in flags THEN 96 ELSE 0
<1>9. GenAdd(low + high)
  BY <1>3 DEF Daa
<1>10. low = IF s > 9 THEN 6 ELSE 0
  <2>1. a % 16 = IF s > 15 THEN s - 16 ELSE s
    BY <1>4, <1>5, <1>6, SMT
  <2> QED
    BY <1>4, <1>7, <2>1, SMT
<1>11. PICK t \in 0..19, u \in 0..9 : b + low = 16 * t + u /\ 10 * t + u = 10 * (xh + yh) + s
  <2>1. CASE s > 9
    <3>1. xh + yh + 1 \in 0..19 /\ s - 10 \in 0..9
      BY <1>4, <2>1, SMT
    <3>2. b + low = 16 * (xh + yh + 1) + (s - 10) /\ 10 * (xh + yh + 1) + (s - 10) = 10 * (xh + yh) + s
      BY <1>4, <1>5, <1>10, <2>1, SMT
    <3> QED
      BY <3>1, <3>2
  <2>2. CASE s <= 9
    <3>1. xh + yh \in 0..19 /\ s \in 0..9
      BY <1>4, <2>2, SMT
    <3>2. b + low = 16 * (xh + yh) + s
      BY <1>4, <1>5, <1>10, <2>2, SMT
    <3> QED
      BY <3>1, <3>2
  <2> QED
    BY <1>4, <2>1, <2>2, SMT
<1>12. /\ DecimalOf(x) \in Int /\ DecimalOf(y) \in Int
       /\ DecimalOf(x) + DecimalOf(y) + c = 10 * t + u
  BY <1>1, <1>2, <1>4, <1>11, SMT DEF DecimalOf
<1>13. val \div 16 = IF t > 15 THEN t - 16 ELSE t
  <2>1. low \in 0..6
    BY <1>10
  <2> HIDE DEF low
  <2>2. (a + low) % 256 = IF t > 15 THEN 16 * t + u - 256 ELSE 16 * t + u
    BY <1>3, <1>5, <1>6, <1>11, <2>1, SMT
  <2>3. \A k \in 0..15 : (16 * k + u) \div 16 = k
    BY SMT
  <2> QED
    BY <2>2, <2>3, SMT DEF Byte
<1>14. low \in {0, 6} /\ high \in {0, 96} /\ (high = 96 <=> (t > 9 /\ t < 16) \/ b > 255)
  <2> HIDE DEF val
  <2> QED
    BY <1>8, <1>13, SMT
<1> HIDE DEF low, high, val
<1>15. reg'[A] + 256 * CarryOut = a + low + high
  <2>1. low + high \in Nat /\ low + high <= 256
    BY <1>14, SMT
  <2>2. reg'[A] + 256 * CarryOut = reg[A] + (low + high)
    BY <1>9, <2>1, Added
  <2> QED
    BY <1>3, <1>14, <2>2, SMT
<1>16. reg'[A] \in Int /\ 0 <= reg'[A] /\ reg'[A] < 256 /\ CarryOut \in {0, 1}
  <2>1. reg' \in [Registers -> ByteRange]
    BY <1>9, <1>14, AddTypes, SMT
  <2> QED
    BY <2>1, Bytes, SMT DEF CarryOut, Registers
<1>17. PICK left \in Int, out \in {0, 1} : left = reg'[A] /\ out = CarryOut
  BY <1>16
<1>18. left + 256 * out = a + low + high /\ 0 <= left /\ left < 256
  BY <1>15, <1>16, <1>17
<1> DEFINE loss == IF b < 250 THEN 0 ELSE IF b < 256 THEN 60 ELSE 100
<1>19. \E h \in 0..9 : left = 16 * h + u /\ 10 * h + u + 100 * out = 10 * t + u - loss
  <2>1. CASE t <= 9
    <3>1. b < 250 /\ a = b /\ high = 0
      BY <1>6, <1>11, <1>14, <2>1, SMT
    <3>2. left = 16 * t + u /\ out = 0
      BY <1>11, <1>14, <1>18, <2>1, <3>1, SMT
    <3> QED
      BY <2>1, <3>1, <3>2, SMT
  <2>2. CASE t > 9 /\ t < 16
    <3>1. b < 250 /\ a = b /\ high = 96
      BY <1>6, <1>10, <1>11, <1>14, <2>2, SMT
    <3>2. left = 16 * (t - 10) + u /\ out = 1
      BY <1>11, <1>14, <1>18, <2>2, <3>1, SMT
    <3>3. t - 10 \in 0..9
      BY <2>2, SMT
    <3>4. 10 * (t - 10) + u + 100 * out = 10 * t + u - loss
      BY <3>1, <3>2, SMT
    <3> QED
      BY <3>2, <3>3, <3>4
  <2>3. CASE t > 15 /\ b < 256
    <3>1. b >= 250 /\ a = b /\ high = 0
      BY <1>6, <1>11, <1>14, <2>3, SMT
    <3>2. left = 16 * (t - 16) + u /\ out = 1
      BY <1>11, <1>14, <1>18, <2>3, <3>1, SMT
    <3>3. t - 16 \in 0..9
      BY <2>3, SMT
    <3>4. 10 * (t - 16) + u + 100 * out = 10 * t + u - loss
      BY <2>3, <3>1, <3>2, SMT
    <3> QED
      BY <3>2, <3>3, <3>4
  <2>4. CASE t > 15 /\ b >= 256
    <3>1. a = b - 256 /\ high = 96
      BY <1>5, <1>6, <1>14, <2>4, SMT
    <3>2. left = 16 * (t - 10) + u /\ out = 0
      BY <1>11, <1>14, <1>18, <2>4, <3>1, SMT
    <3>3. t - 10 \in 0..9
      BY <2>4, SMT
    <3>4. 10 * (t - 10) + u + 100 * out = 10 * t + u - loss
      BY <2>4, <3>2, SMT
    <3> QED
      BY <3>2, <3>3, <3>4
  <2> QED
    BY <1>5, <2>1, <2>2, <2>3, <2>4, SMT
<1>20. PICK h \in 0..9 : left = 16 * h + u /\ 10 * h + u + 100 * out = 10 * t + u - loss
  BY <1>19
<1>21. left \in TwoDigits /\ DecimalOf(left) = 10 * h + u
  BY <1>20, DigitsBack
<1>22. DecimalOf(left) + 100 * out = DecimalOf(x) + DecimalOf(y) + c - loss
  <2>1. loss \in Int
    OBVIOUS
  <2> HIDE DEF loss
  <2> QED
    BY <1>12, <1>20, <1>21, <2>1, SMT
<1> QED
  BY <1>5, <1>17, <1>21, <1>22

LEMMA DecimalStep == ASSUME StateOK PROVE DecimalRight
<1>1. Operand \in Nat /\ Operand <= 255 /\ CarryIn \in {0, 1}
  BY OperandTypes, Bytes, SMT DEF StateOK, CarryIn
<1>2. Operand + 0 = Operand
  BY <1>1, SMT
<1>3. ASSUME NEW x, NEW y, x = reg[A], y = Operand, Add
      PROVE  SumOf(x, y, 0)'
  <2>1. y \in Nat /\ y <= 255 /\ GenAdd(y + 0)
    BY <1>1, <1>2, <1>3 DEF Add
  <2> QED
    BY <1>3, <2>1, SumLeft
<1>4. ASSUME NEW x, NEW y, NEW c \in {0, 1}, x = reg[A], y = Operand, c = CarryIn, Adc
      PROVE  SumOf(x, y, c)'
  <2>1. y \in Nat /\ y <= 255 /\ GenAdd(y + c)
    BY <1>1, <1>4 DEF Adc
  <2> QED
    BY <1>4, <2>1, SumLeft
<1> QED
  BY <1>1, <1>3, <1>4, Corrected DEF DecimalRight

(* Additions leave what DAA needs, and this is what it makes of it, in every program
   (i8080_genadd, i8080_daa). *)
THEOREM AltairDecimals == AltairSpec => DecimalsRight
<1>1. AltairTypeOK /\ [AltairNext]_altairVars => [DecimalRight]_altairVars
  BY CpuTypeParts, DecimalStep DEF AltairTypeOK
<1> QED
  BY <1>1, AltairTypesKept, PTL DEF AltairSpec, DecimalsRight

-----------------------------------------------------------------------------
(* The timers: what is kept, against what the program has told them *)

AskedRight(t) ==
  /\ asked[t].high = delay[t] \div 256
  /\ asked[t].running => target[t] = asked[t].due /\ asked[t].due > 0
  /\ ~asked[t].running => target[t] = 0

\* The clock of seconds has cut off up to a second.
AskedSeconds ==
  /\ asked[3].running => /\ Second * seconds <= asked[3].due
                         /\ asked[3].due < Second * seconds + Second
  /\ ~asked[3].running => seconds = 0

AskedOK == (\A t \in Timers : AskedRight(t)) /\ AskedSeconds

\* A whole number of seconds, and what is left.
LEMMA ElapsedIs ==
  ASSUME now \in Nat
  PROVE  Second * Elapsed <= now /\ now < Second * Elapsed + Second
BY TimeAssumption, SMT DEF Elapsed

\* Both halves of a delay, when one of them is replaced.
LEMMA HalvesKept ==
  ASSUME NEW d \in Delays, NEW data \in ByteRange
  PROVE  /\ ((d % 256) + 256 * data) \div 256 = data
         /\ (256 * (d \div 256) + data) \div 256 = d \div 256
<1>1. d \in Int /\ 0 <= d /\ d < 65536 /\ data \in Int /\ 0 <= data /\ data < 256
  BY DelayRange, Bytes, SMT
<1>2. PICK low \in Int : low = d % 256 /\ 0 <= low /\ low < 256
  BY <1>1, SMT
<1>3. PICK high \in Int : high = d \div 256 /\ 0 <= high /\ high < 256
  BY <1>1, SMT
<1> QED
  BY <1>1, <1>2, <1>3, SMT

LEMMA EvenPorts ==
  /\ \A port \in 24..29 : Timer(port) # 3
  /\ Timer(30) = 3
BY DEF Timer

\* A start of a timer of milliseconds, and its high byte.
LEMMA ToldMilliseconds ==
  ASSUME AltairTypeOK, AskedOK, NEW port \in 24..29, NEW data \in ByteRange,
         TimeOut(port, data), asked' = [asked EXCEPT ![Timer(port)] = Told(@, port, data)]
  PROVE  AskedOK'
<1> DEFINE t == Timer(port)
           r == asked[t]
<1>1. t \in Timers /\ t # 3 /\ t \in 0..3 /\ delay[t] \in Delays
  <2>1. t \in Timers
    BY TimerOf
  <2> HIDE DEF t
  <2> QED
    BY <2>1 DEF Timers, AltairTypeOK, TimeTypeOK
<1>2. /\ asked \in [0..3 -> Asking] /\ target \in [Timers -> Nat] /\ delay \in [Timers -> Delays]
      /\ now \in Nat /\ seconds \in Nat
  BY DEF AltairTypeOK, TimeTypeOK, Asking
<1>3. asked' = [asked EXCEPT ![t] = Told(r, port, data)]
  OBVIOUS
<1>4. r \in Asking /\ r.high = delay[t] \div 256 /\ AskedRight(t)
  BY <1>1, <1>2 DEF AskedOK, AskedRight
<1>5. data \in Nat /\ r.high \in Nat
  BY <1>4, Bytes, SMT DEF Asking
<1>6. UNCHANGED <<now, seconds>>
  BY DEF TimeOut, SetHigh, SetLow
<1>7. \A u \in Timers \ {t} : target'[u] = target[u] /\ delay'[u] = delay[u] /\ asked'[u] = asked[u]
  <2>1. \A u \in Timers \ {t} : asked'[u] = asked[u]
    BY <1>2, <1>3 DEF Timers
  <2>2. \A u \in Timers \ {t} : target'[u] = target[u] /\ delay'[u] = delay[u]
    BY <1>2 DEF TimeOut, SetHigh, SetLow
  <2> QED
    BY <2>1, <2>2
<1>8. asked'[3] = asked[3]
  BY <1>1, <1>2, <1>3
<1>9. asked'[t] = Told(r, port, data)
  BY <1>1, <1>2, <1>3
<1>10. AskedRight(t)'
  <2>1. CASE port \in {24, 26, 28}
    <3>1. delay'[t] = (delay[t] % 256) + 256 * data /\ target'[t] = target[t]
      BY <1>1, <1>2, <2>1 DEF TimeOut, SetHigh
    <3>2. Told(r, port, data) = [r EXCEPT !.high = data]
      BY <2>1 DEF Told
    <3>3. asked'[t].high = data /\ asked'[t].due = r.due /\ asked'[t].running = r.running
      BY <1>4, <1>9, <3>2 DEF Asking
    <3> QED
      BY <1>1, <1>4, <3>1, <3>3, HalvesKept DEF AskedRight
  <2>2. CASE port \in {25, 27, 29}
    <3> DEFINE whole == 256 * (delay[t] \div 256) + data
    <3>1. delay'[t] = whole /\ target'[t] = now + whole
      BY <1>1, <1>2, <2>2 DEF TimeOut, SetLow
    <3>2. Told(r, port, data) = [r EXCEPT !.due = now + 256 * r.high + data,
                                          !.running = now + 256 * r.high + data > 0]
      BY <2>2 DEF Told
    <3> DEFINE due == now + 256 * r.high + data
    <3>3. /\ asked'[t].high = r.high /\ asked'[t].due = due
          /\ asked'[t].running <=> due > 0
      <4>1. asked'[t] = [r EXCEPT !.due = due, !.running = due > 0]
        BY <1>9, <3>2
      <4>2. due \in Nat /\ (due > 0) \in BOOLEAN
        BY <1>2, <1>5, SMT
      <4> DEFINE runs == due > 0
      <4>3. asked'[t] = Restart(r, due, runs)
        BY <4>1 DEF Restart
      <4>4. runs \in BOOLEAN /\ (runs <=> due > 0)
        OBVIOUS
      <4> HIDE DEF due, runs
      <4> QED
        BY <1>4, <4>2, <4>3, <4>4, Restarted
    <3>4. whole \div 256 = r.high /\ now + whole = due
      <4> DEFINE high == delay[t] \div 256
      <4>1. whole = 256 * high + data /\ r.high = high /\ high \in Nat
        BY <1>4, <1>5
      <4>2. whole \div 256 = high
        BY <1>1, HalvesKept
      <4> HIDE DEF high, whole
      <4> QED
        BY <1>2, <1>5, <4>1, <4>2, SMT
    <3>5. due \in Nat
      BY <1>2, <1>5, SMT
    <3> HIDE DEF whole, due
    <3>6. ~asked'[t].running => target'[t] = 0
      BY <3>1, <3>3, <3>4, <3>5
    <3> QED
      BY <3>1, <3>3, <3>4, <3>6 DEF AskedRight
  <2> QED
    BY <2>1, <2>2
<1> HIDE DEF t, r
<1> QED
  BY <1>6, <1>7, <1>8, <1>10 DEF AskedOK, AskedRight, AskedSeconds

\* A start of the timer of seconds.
LEMMA ToldSeconds ==
  ASSUME AltairTypeOK, AskedOK, NEW data \in ByteRange,
         TimeOut(30, data), asked' = [asked EXCEPT ![3] = Told(@, 30, data)]
  PROVE  AskedOK'
<1>1. /\ asked \in [0..3 -> Asking] /\ now \in Nat /\ data \in Nat /\ Second \in Nat /\ Elapsed \in Nat
  BY Bytes, ElapsedType, TimeAssumption, SMT DEF AltairTypeOK, TimeTypeOK, Asking
<1>2. seconds' = Elapsed + data /\ UNCHANGED <<now, target, delay>>
  BY DEF TimeOut, SetSeconds
<1>3. asked'[3].running /\ asked'[3].due = now + Second * data
  BY <1>1 DEF Told, Asking
<1>4. \A t \in Timers : asked'[t] = asked[t]
  BY <1>1 DEF Timers
<1>5. Second * (Elapsed + data) = Second * Elapsed + Second * data
  BY <1>1, SMT
<1>6. Second * data \in Nat /\ Second * Elapsed \in Nat
  BY <1>1, SMT
<1>7. AskedSeconds'
  BY <1>1, <1>2, <1>3, <1>5, <1>6, ElapsedIs DEF AskedSeconds
<1> QED
  BY <1>2, <1>4, <1>7 DEF AskedOK, AskedRight

\* An answer is right, and what is left behind it.
RightAnswer(t, answer) ==
  answer = IF asked[t].running /\ now < asked[t].due THEN 1 ELSE 0

LEMMA FoundMilliseconds ==
  ASSUME AltairTypeOK, AskedOK, NEW port \in 24..29, NEW answer,
         TimeIn(port, answer), asked' = [asked EXCEPT ![Timer(port)] = Found(@, answer)]
  PROVE  AskedOK' /\ RightAnswer(Timer(port), answer)
<1> DEFINE t == Timer(port)
           r == asked[t]
<1>1. t \in Timers /\ t # 3 /\ t \in 0..3 /\ delay[t] \in Delays
  <2>1. t \in Timers
    BY TimerOf
  <2> HIDE DEF t
  <2> QED
    BY <2>1 DEF Timers, AltairTypeOK, TimeTypeOK
<1>2. /\ asked \in [0..3 -> Asking] /\ target \in [Timers -> Nat] /\ delay \in [Timers -> Delays]
      /\ now \in Nat /\ seconds \in Nat
  BY DEF AltairTypeOK, TimeTypeOK, Asking
<1>3. asked' = [asked EXCEPT ![t] = Found(r, answer)]
  OBVIOUS
<1>4. r \in Asking /\ AskedRight(t) /\ target[t] \in Nat /\ r.due \in Nat
  BY <1>1, <1>2 DEF AskedOK, Asking
<1>5. /\ answer = IF TimeRuns(t) THEN 1 ELSE 0
      /\ target' = [target EXCEPT ![t] = IF TimeExpired(t) THEN 0 ELSE @]
      /\ delay' = [delay EXCEPT ![t] = IF TimeExpired(t) THEN 0 ELSE @]
      /\ UNCHANGED <<now, seconds>>
  BY DEF TimeIn, Forget
<1>6. TimeRuns(t) <=> r.running /\ now < r.due
  BY <1>2, <1>4 DEF TimeRuns, AskedRight
<1>7. TimeExpired(t) <=> r.running /\ answer = 0
  BY <1>2, <1>4, <1>5, <1>6 DEF TimeExpired, TimeRuns, AskedRight
<1>8. AskedRight(t)'
  <2>1. asked'[t] = Found(r, answer)
    BY <1>1, <1>2, <1>3
  <2>2. CASE TimeExpired(t)
    <3>1. asked'[t].high = 0 /\ ~asked'[t].running
      BY <1>4, <1>7, <2>1, <2>2, Stopped
    <3>2. target'[t] = 0 /\ delay'[t] = 0
      BY <1>1, <1>2, <1>5, <2>2
    <3>3. 0 \div 256 = 0
      BY SMT
    <3> QED
      BY <3>1, <3>2, <3>3 DEF AskedRight
  <2>3. CASE ~TimeExpired(t)
    <3>1. asked'[t] = r
      BY <1>7, <2>1, <2>3 DEF Found
    <3>2. target'[t] = target[t] /\ delay'[t] = delay[t]
      BY <1>1, <1>2, <1>5, <2>3
    <3> QED
      BY <1>4, <3>1, <3>2 DEF AskedRight
  <2> QED
    BY <2>2, <2>3
<1>9. \A u \in Timers \ {t} : target'[u] = target[u] /\ delay'[u] = delay[u] /\ asked'[u] = asked[u]
  BY <1>2, <1>3, <1>5 DEF Timers
<1>10. asked'[3] = asked[3]
  BY <1>1, <1>2, <1>3
<1>11. RightAnswer(t, answer)
  BY <1>5, <1>6 DEF RightAnswer
<1>12. AskedOK'
  <2> HIDE DEF t, r
  <2> QED
    BY <1>5, <1>8, <1>9, <1>10 DEF AskedOK, AskedRight, AskedSeconds
<1> QED
  BY <1>11, <1>12

LEMMA FoundSeconds ==
  ASSUME AltairTypeOK, AskedOK, NEW answer,
         TimeIn(30, answer), asked' = [asked EXCEPT ![3] = Found(@, answer)]
  PROVE  /\ AskedOK'
         /\ answer = 1 => asked[3].running /\ now < asked[3].due
         /\ answer = 0 /\ asked[3].running => now + Second > asked[3].due
<1> DEFINE r == asked[3]
<1>1. /\ asked \in [0..3 -> Asking] /\ now \in Nat /\ seconds \in Nat
      /\ Second \in Nat /\ Second > 0 /\ Elapsed \in Nat
  BY ElapsedType, TimeAssumption, SMT DEF AltairTypeOK, TimeTypeOK, Asking
<1>2. r \in Asking /\ r.due \in Nat /\ asked'[3] = Found(r, answer)
  BY <1>1 DEF Asking
<1>3. /\ answer = IF seconds > Elapsed THEN 1 ELSE 0
      /\ seconds' = IF seconds > Elapsed THEN seconds ELSE 0
      /\ UNCHANGED <<now, target, delay>>
  BY DEF TimeIn
<1>4. \A t \in Timers : asked'[t] = asked[t]
  BY <1>1 DEF Timers
<1>5. /\ r.running => Second * seconds <= r.due /\ r.due < Second * seconds + Second
      /\ ~r.running => seconds = 0
  BY DEF AskedOK, AskedSeconds
<1>6. CASE seconds > Elapsed
  <2>1. r.running /\ answer = 1 /\ asked'[3] = r /\ seconds' = seconds
    BY <1>1, <1>2, <1>3, <1>5, <1>6 DEF Found
  <2>2. seconds >= Elapsed + 1
    BY <1>1, <1>6, SMT
  <2>3. Second * seconds >= Second * (Elapsed + 1) /\ Second * (Elapsed + 1) = Second * Elapsed + Second
    BY <1>1, <2>2, SMT
  <2>4. now < r.due
    <3>1. Second * seconds \in Nat /\ Second * Elapsed \in Nat
      BY <1>1, SMT
    <3> QED
      BY <1>1, <1>2, <1>5, <2>1, <2>3, <3>1, ElapsedIs
  <2>5. AskedOK'
    BY <1>3, <1>4, <2>1 DEF AskedOK, AskedRight, AskedSeconds
  <2> QED
    BY <2>1, <2>4, <2>5
<1>7. CASE seconds <= Elapsed
  <2>1. answer = 0 /\ seconds' = 0
    BY <1>1, <1>3, <1>7
  <2>2. Second * seconds <= Second * Elapsed
    BY <1>1, <1>7, SMT
  <2>3. r.running => now + Second > r.due
    <3>1. Second * seconds \in Nat /\ Second * Elapsed \in Nat
      BY <1>1, SMT
    <3> QED
      BY <1>1, <1>2, <1>5, <2>2, <3>1, ElapsedIs
  <2>4. ~asked'[3].running
    BY <1>2, <2>1, Stopped DEF Found
  <2>5. AskedOK'
    BY <1>3, <1>4, <2>1, <2>4 DEF AskedOK, AskedRight, AskedSeconds
  <2> QED
    BY <2>1, <2>3, <2>5
<1> QED
  BY <1>1, <1>6, <1>7

LEMMA InitAsked == AltairInit => AskedOK
<1> SUFFICES ASSUME AltairInit PROVE AskedOK
  OBVIOUS
<1>1. 0 \div 256 = 0
  BY SMT
<1>2. \A t \in 0..3 : asked[t].high = 0 /\ ~asked[t].running
  BY DEF AltairInit
<1>3. \A t \in Timers : target[t] = 0 /\ delay[t] = 0 /\ t \in 0..3
  BY DEF AltairInit, TimeInit, Timers
<1>4. seconds = 0
  BY DEF AltairInit, TimeInit
<1> QED
  BY <1>1, <1>2, <1>3, <1>4 DEF AskedOK, AskedRight, AskedSeconds

LEMMA AskedStep ==
  ASSUME AltairTypeOK, AskedOK, [AltairNext]_altairVars
  PROVE  AskedOK' /\ [TimersRight]_altairVars
<1>1. Immediate \in ByteRange /\ reg[A] \in ByteRange
  BY CpuTypeParts, Fetched, OperandTypes DEF AltairTypeOK, StateOK
<1>2. \A port \in Ports24 : port \in 24..29 \/ port = 30
  BY DEF Ports24
<1>3. CASE TimerOut
  <2>1. AskedOK'
    <3>1. CASE Immediate \in 24..29
      BY <1>1, <1>3, <3>1, ToldMilliseconds DEF TimerOut
    <3>2. CASE Immediate = 30
      BY <1>1, <1>3, <3>2, ToldSeconds, EvenPorts DEF TimerOut
    <3> QED
      BY <1>2, <1>3, <3>1, <3>2 DEF TimerOut
  <2>2. ~TimerIn
    BY <1>3 DEF TimerOut, TimerIn
  <2> QED
    BY <2>1, <2>2 DEF TimersRight
<1>4. CASE TimerIn
  <2>1. CASE Immediate \in 24..29
    <3>1. Immediate < 30
      BY <2>1
    <3> DEFINE t == Timer(Immediate)
    <3>2. TimeIn(Immediate, reg'[A]) /\ asked' = [asked EXCEPT ![t] = Found(@, reg'[A])]
      BY <1>4 DEF TimerIn
    <3>3. AskedOK' /\ RightAnswer(t, reg'[A])
      BY <2>1, <3>2, FoundMilliseconds
    <3> QED
      BY <3>1, <3>3 DEF TimersRight, RightAnswer
  <2>2. CASE Immediate = 30
    <3>1. TimeIn(30, reg'[A]) /\ asked' = [asked EXCEPT ![3] = Found(@, reg'[A])]
      BY <1>4, <2>2, EvenPorts DEF TimerIn
    <3>2. /\ AskedOK'
          /\ reg'[A] = 1 => asked[3].running /\ now < asked[3].due
          /\ reg'[A] = 0 /\ asked[3].running => now + Second > asked[3].due
      BY <3>1, FoundSeconds
    <3>3. ~(Immediate < 30) /\ Timer(Immediate) = 3
      BY <2>2, EvenPorts
    <3> QED
      BY <3>2, <3>3 DEF TimersRight
  <2> QED
    BY <1>2, <1>4, <2>1, <2>2 DEF TimerIn
<1>5. ASSUME UNCHANGED <<target, delay, seconds, asked>> PROVE AskedOK'
  BY <1>5 DEF AskedOK, AskedRight, AskedSeconds
<1>6. CASE ~TimerIn /\ ~TimerOut
  <2>1. UNCHANGED <<target, delay, seconds, asked>>
    BY <1>6 DEF AltairNext, AltairCycle, OtherCycle, KeyStruck, ClockTick, Tick, timeVars, altairVars
  <2> QED
    BY <1>5, <1>6, <2>1 DEF TimersRight
<1> QED
  BY <1>3, <1>4, <1>6

(* What time_io.c keeps of a timer is what the program has told it: the high
   byte, and the time at which it should expire. So every answer is right,
   whatever the program does with the timers and whenever it looks. *)
THEOREM AltairTimers == AltairSpec => TimersExact
<1>1. AltairTypeOK /\ AskedOK /\ [AltairNext]_altairVars => AskedOK' /\ [TimersRight]_altairVars
  BY AskedStep
<1> QED
  BY <1>1, AltairTypesKept, InitAsked, PTL DEF AltairSpec, TimersExact
=============================================================================
