---------------------------- MODULE FileTransfer ----------------------------
(***************************************************************************)
(* Reading a file of the file transfer server: the client behind ports 60  *)
(* and 61, src/PortDrivers/files_io.c, with RemoteFS/remote_ft_server.py.  *)
(*                                                                         *)
(* The client names the file and its offset in every request, so that a    *)
(* server may restart between two of them.  The server keeps handles of    *)
(* open files; a handle goes on showing the file it was opened on when the *)
(* file is replaced.  The client's calls of recv wait for ten seconds at   *)
(* most; after a failure it drops the connection, except for the answer to *)
(* CLOSE, which it does not miss.                                          *)
(*                                                                         *)
(* A byte on its way is <<0, b>> if it is a status or a count of value b,  *)
(* and <<v, i>> if it is byte i of version v of the file.                  *)
(***************************************************************************)
EXTENDS Naturals, Sequences, SequencesExt

CONSTANTS Names,         \* names of files
          ChunkSize,     \* FT_CHUNK_SIZE, CHUNK_SIZE: 256, the number of values of a byte
          CacheSize,     \* max_size of the FileHandleCache
          Lengths,       \* bound: lengths of files
          MaxVersion,    \* bound: times a file is replaced, plus one
          MaxTransfers,  \* bound: files the program reads
          MaxFaults      \* bound: time-outs, restarts and failed connections

ASSUME TransferAssumption ==
  /\ ChunkSize \in Nat \ {0, 1, 2}
  /\ CacheSize \in Nat \ {0}
  /\ Lengths \subseteq Nat
  /\ MaxVersion \in Nat \ {0}
  /\ {MaxTransfers, MaxFaults} \subseteq Nat

VARIABLES
  size,       \* the server's directory: length of each version of each file
  version,    \* the version that is there; 0 when the file is not there
  handles,    \* the cache: open handles, least recently used first
  requests,   \* on their way to the server
  wire,       \* bytes on their way to the client
  alive,      \* the server still serves this connection
  connected,  \* the client's flag
  filename,   \* the name the client sends
  offset,     \* file_offset
  status,     \* ft_state.status
  chunk,      \* the part of chunk_buffer that was not read yet
  cpu,        \* the call the CPU thread waits in
  reader,     \* where the program is
  got,        \* what it read of the file
  result,     \* how its transfer ended
  started, faults,  \* counters of the bounds
  late,       \* history: an answer to CLOSE was not awaited on this connection
  spoiled     \* history: the file changed, or the answers were out of step

server == <<size, version, handles>>
channel == <<requests, wire, alive>>
client == <<connected, filename, offset, status, chunk, cpu>>
program == <<reader, got, result, started>>
history == <<late, spoiled>>
vars == <<server, channel, client, program, faults, history>>

Byte == 0..(ChunkSize - 1)
RespOk == 0
RespEof == 1
RespError == ChunkSize - 1   \* 0xFF
Control(b) == <<0, b>>
Content(n, v) == [i \in 1..size[n][v] |-> <<v, i>>]

Init ==
  /\ size \in [Names -> [1..MaxVersion -> Lengths]]
  /\ version = [n \in Names |-> 1]
  /\ handles = <<>>
  /\ requests = <<>> /\ wire = <<>> /\ alive = FALSE
  /\ connected = FALSE /\ filename \in Names /\ offset = 0 /\ status = "idle"
  /\ chunk = <<>> /\ cpu = "run"
  /\ reader = "idle" /\ got = <<>> /\ result = "none"
  /\ started = 0 /\ faults = 0 /\ late = FALSE /\ spoiled = FALSE

-----------------------------------------------------------------------------
(* The server *)

\* The cache without the handle of file n; there is one at most.
Without(n) ==
  LET at == {i \in 1..Len(handles) : handles[i].name = n}
  IN  IF at = {} THEN handles ELSE RemoveAt(handles, CHOOSE i \in at : TRUE)

\* Version v of file n as the most recently used handle; the least recently used one
\* makes room for it.
With(n, v) ==
  LET rest == Without(n)
  IN Append(IF Len(rest) >= CacheSize THEN Tail(rest) ELSE rest,
            [name |-> n, version |-> v])

\* The versions a lookup may give: that of the handle, unless it is too old, or the
\* one that a new handle is opened on.
Handles(n) == {version[n]} \union {handles[i].version : i \in
                                     {j \in DOMAIN handles : handles[j].name = n}}

\* At most a chunk of the bytes s.
Cut(s) == IF Len(s) > ChunkSize THEN SubSeq(s, 1, ChunkSize) ELSE s

\* The answer to a request for the chunk at off: nothing left is an error, also in an
\* empty file; 256 bytes are counted as 0.
ChunkAnswer(n, v, off) ==
  LET rest == SubSeq(Content(n, v), off + 1, size[n][v])
      data == Cut(rest)
  IN IF rest = <<>> THEN <<Control(RespError), Control(0)>>
     ELSE <<Control(IF Len(rest) > ChunkSize THEN RespOk ELSE RespEof),
            Control(Len(data) % ChunkSize)>> \o data

\* _handle_get_chunk.  No call in it gives the event loop to another session between
\* the lookup of the handle and the read.
ServeChunk ==
  /\ requests # <<>> /\ Head(requests).cmd = "chunk"
  /\ LET n == Head(requests).name
     IN IF version[n] = 0
        THEN /\ wire' = wire \o <<Control(RespError), Control(0)>>
             /\ UNCHANGED handles
        ELSE \E v \in Handles(n) :
               /\ handles' = With(n, v)
               /\ wire' = wire \o ChunkAnswer(n, v, Head(requests).offset)
  /\ requests' = Tail(requests)
  /\ UNCHANGED <<size, version, alive, client, program, faults, history>>

\* _handle_close: the handle is closed, and nobody needed it to be open.
ServeClose ==
  /\ requests # <<>> /\ Head(requests).cmd = "close"
  /\ handles' = Without(Head(requests).name)
  /\ wire' = Append(wire, Control(RespOk))
  /\ requests' = Tail(requests)
  /\ UNCHANGED <<size, version, alive, client, program, faults, history>>

\* Another client reads a file, or closes it.
OtherClient(n) ==
  /\ \/ version[n] # 0 /\ \E v \in Handles(n) : handles' = With(n, v)
     \/ handles' = Without(n)
  /\ UNCHANGED <<size, version, channel, client, program, faults, history>>

\* Somebody puts another file of that name into the directory, or takes it away.
Replace(n) ==
  /\ version[n] \in 1..(MaxVersion - 1)
  /\ \E v \in {0, version[n] + 1} : version' = [version EXCEPT ![n] = v]
  /\ spoiled' = (spoiled \/ n = filename)
  /\ UNCHANGED <<size, handles, channel, client, program, faults, late>>

\* The server ends and starts again.  What was on its way may be lost.
Restart ==
  /\ faults < MaxFaults /\ faults' = faults + 1
  /\ handles' = <<>> /\ requests' = <<>> /\ alive' = FALSE
  /\ wire' \in {SubSeq(wire, 1, k) : k \in 0..Len(wire)}
  /\ UNCHANGED <<size, version, client, program, history>>

-----------------------------------------------------------------------------
(* The client *)

\* connect_to_server, or the connection there is.
Connected ==
  /\ connected' = TRUE
  /\ alive' = (connected => alive)
  /\ UNCHANGED faults

CannotConnect ==
  /\ ~connected
  /\ faults < MaxFaults /\ faults' = faults + 1
  /\ status' = "error"
  /\ UNCHANGED <<channel, connected>>

\* OUT 61: the 0 that ends the name starts a new file.
Name(n) ==
  /\ reader = "idle" /\ cpu = "run" /\ started < MaxTransfers
  /\ filename' = n /\ chunk' = <<>> /\ offset' = 0
  /\ \/ Connected /\ status' = "idle" /\ UNCHANGED <<requests, wire>>
     \/ CannotConnect
  /\ reader' = "ask" /\ got' = <<>> /\ result' = "none" /\ started' = started + 1
  /\ spoiled' = (late \/ Handles(n) # {version[n]})
  /\ UNCHANGED <<server, cpu, late>>

\* OUT 60, FT_CMD_REQUEST_CHUNK: not while there is data to read.
Request ==
  /\ reader = "ask" /\ cpu = "run"
  /\ reader' = "poll"
  /\ \/ CannotConnect /\ UNCHANGED <<chunk, cpu>>
     \/ /\ Connected
        /\ IF chunk # <<>> THEN UNCHANGED <<cpu, requests>>
           ELSE /\ cpu' = "chunk"
                /\ requests' = IF alive' THEN Append(requests,
                      [cmd |-> "chunk", name |-> filename, offset |-> offset]) ELSE requests
        /\ UNCHANGED <<wire, status, chunk>>
  /\ UNCHANGED <<server, filename, offset, got, result, started, history>>

\* The value of a byte that is taken for a status or a count.
Value(byte, b) == byte = Control(b) \/ byte[1] # 0

\* Variant of Received: the offset is that of the last request.
ReceivedAgain(s, c, n) ==
  /\ chunk' = <<Control(c)>> \o SubSeq(wire, 3, 2 + n)
  /\ wire' = SubSeq(wire, 3 + n, Len(wire))
  /\ status' = IF s = RespEof THEN "eof" ELSE "ready"
  /\ UNCHANGED offset

\* The rest of send_get_chunk: n bytes with count c and status s.
Received(s, c, n) ==
  /\ chunk' = <<Control(c)>> \o SubSeq(wire, 3, 2 + n)
  /\ wire' = SubSeq(wire, 3 + n, Len(wire))
  /\ offset' = offset + n
  /\ status' = IF s = RespEof THEN "eof" ELSE "ready"

Receive ==
  /\ cpu = "chunk" /\ Len(wire) >= 2
  /\ \E s \in {RespOk, RespEof}, c \in Byte :
       /\ Value(wire[1], s) /\ Value(wire[2], c)
       /\ LET n == IF c = 0 THEN ChunkSize ELSE c
          IN Len(wire) >= 2 + n /\ Received(s, c, n)
  /\ cpu' = "run"
  /\ UNCHANGED <<server, requests, alive, connected, filename, program, faults, history>>

\* Variant of Dropped: the program is not told.
DroppedQuietly ==
  /\ connected' = FALSE /\ alive' = FALSE
  /\ requests' = <<>> /\ wire' = <<>>
  /\ late' = FALSE
  /\ cpu' = "run"
  /\ UNCHANGED <<server, status, filename, offset, chunk, program, spoiled>>

\* disconnect_from_server: what is still on its way is lost with the connection.
Dropped ==
  /\ status' = "error"
  /\ connected' = FALSE /\ alive' = FALSE
  /\ requests' = <<>> /\ wire' = <<>>
  /\ late' = FALSE
  /\ cpu' = "run"
  /\ UNCHANGED <<server, filename, offset, chunk, program, spoiled>>

\* The status is an error, or none.
ReceiveError ==
  /\ cpu = "chunk" /\ wire # <<>>
  /\ \E s \in Byte \ {RespOk, RespEof} : Value(wire[1], s)
  /\ Dropped
  /\ UNCHANGED faults

\* recv fails: the connection is gone, nothing more is to come, or nothing came for ten
\* seconds.
TimesOut == IF alive /\ requests # <<>> THEN faults < MaxFaults /\ faults' = faults + 1
            ELSE UNCHANGED faults
ReceiveFails == cpu = "chunk" /\ TimesOut /\ Dropped

\* The program takes the count and the bytes it counts (IN 61), then looks at the
\* status once more (IN 60): after the last chunk it closes the file.
Take ==
  /\ reader = "poll" /\ cpu = "run" /\ chunk # <<>>
  /\ got' = got \o Tail(chunk)
  /\ chunk' = <<>>
  /\ reader' = IF status = "eof" THEN "close" ELSE "ask"
  /\ result' = IF status = "eof" THEN "done" ELSE result
  /\ UNCHANGED <<server, channel, connected, filename, offset, status, cpu, started, faults,
                 history>>

\* After an error it gives up, or asks for the same chunk again.
GiveUp ==
  /\ reader = "poll" /\ cpu = "run" /\ chunk = <<>> /\ status = "error"
  /\ reader' = "close" /\ result' = "failed"
  /\ UNCHANGED <<server, channel, client, got, started, faults, history>>

Retry ==
  /\ reader = "poll" /\ cpu = "run" /\ chunk = <<>> /\ status = "error"
  /\ faults < MaxFaults /\ faults' = faults + 1
  /\ reader' = "ask"
  /\ UNCHANGED <<server, channel, client, got, result, started, history>>

\* OUT 60, FT_CMD_CLOSE: the connection and its state stay.
Close ==
  /\ reader = "close" /\ cpu = "run"
  /\ reader' = "idle"
  /\ IF connected
     THEN /\ cpu' = "close"
          /\ requests' = IF alive THEN Append(requests,
                [cmd |-> "close", name |-> filename, offset |-> 0]) ELSE requests
          /\ UNCHANGED status
     ELSE status' = "idle" /\ UNCHANGED <<cpu, requests>>
  /\ UNCHANGED <<server, wire, alive, connected, filename, offset, chunk, got, result,
                 started, faults, history>>

\* Its answer is received, whatever it is, or not: nobody waits for it any more.
CloseAnswered ==
  /\ cpu = "close"
  /\ \/ wire # <<>> /\ wire' = Tail(wire) /\ UNCHANGED <<faults, late>>
     \/ wire = <<>> /\ TimesOut /\ late' = (late \/ alive) /\ UNCHANGED wire
  /\ status' = "idle" /\ cpu' = "run"
  /\ UNCHANGED <<server, requests, alive, connected, filename, offset, chunk, program,
                 spoiled>>

-----------------------------------------------------------------------------
Server == ServeChunk \/ ServeClose
Client == Request \/ Receive \/ ReceiveError \/ ReceiveFails \/ Take \/ GiveUp \/ Retry
            \/ Close \/ CloseAnswered

Next ==
  \/ Server \/ Client \/ Restart
  \/ \E n \in Names : Name(n) \/ OtherClient(n) \/ Replace(n)

\* Both programs are scheduled; nobody has to read, replace or restart anything.
Spec == Init /\ [][Next]_vars /\ WF_vars(Server) /\ WF_vars(Client)

-----------------------------------------------------------------------------
(* Properties *)

Data == (0..MaxVersion) \X Nat

TypeOK ==
  /\ size \in [Names -> [1..MaxVersion -> Lengths]] /\ version \in [Names -> 0..MaxVersion]
  /\ handles \in Seq([name : Names, version : 1..MaxVersion]) /\ Len(handles) <= CacheSize
  /\ requests \in Seq([cmd : {"chunk", "close"}, name : Names, offset : Nat])
  /\ wire \in Seq(Data) /\ chunk \in Seq(Data)
  /\ alive \in BOOLEAN /\ connected \in BOOLEAN /\ (alive => connected)
  /\ filename \in Names /\ offset \in Nat /\ got \in Seq(Data)
  /\ status \in {"idle", "ready", "eof", "error"}
  /\ cpu \in {"run", "chunk", "close"} /\ reader \in {"idle", "ask", "poll", "close"}
  /\ result \in {"none", "done", "failed"}

File == IF version[filename] = 0 THEN <<>> ELSE Content(filename, version[filename])

\* Over time-outs, dropped connections, restarts of the server and repeated requests the
\* program reads the file from its beginning, nothing twice and nothing left out, unless
\* the file was replaced meanwhile, a handle of its predecessor is open, or the answer to
\* an earlier CLOSE is still to come.
FilePrefix == ~spoiled => IsPrefix(got, File)

\* A transfer that ends well has read the whole file, also when its last chunk is full.
DoneIsWhole == ~spoiled /\ result = "done" => got = File

\* Over time-outs, dropped connections, restarts of the server and repeated requests the
\* program copies the file, nothing twice and nothing left out, and is told the end when it
\* has all of it, unless the file was replaced meanwhile, a handle of its predecessor is
\* open, or the answer to an earlier CLOSE is still to come.
Copies == INSTANCE StreamCopy WITH
  Filler <- Control(0),
  transfer <- started,
  source <- File,
  closed <- "well",
  copy <- got,
  report <- IF result = "none" THEN "open" ELSE result,
  spoiled <- spoiled
Implements == Copies!Spec

\* Every transfer ends, also one whose answers are out of step: each chunk moves the
\* offset, and each failure drops the connection.
TransferEnds == reader # "idle" ~> reader = "idle"

=============================================================================
