------------------------- MODULE FileTransferProofs -------------------------
(***************************************************************************)
(* Proofs about FileTransfer, for every size of the chunk and of the       *)
(* server's cache, any files and any number of transfers and faults: the   *)
(* program reads the file from its beginning, each byte at its place, and  *)
(* a transfer that ends well has read all of it; it implements StreamCopy. *)
(***************************************************************************)
EXTENDS FileTransfer, TLAPS

Version == version[filename]
Size == IF Version = 0 THEN 0 ELSE size[filename][Version]

\* An open handle of the file that is read shows the version that is there.
CacheOK ==
  ~spoiled => \A i \in 1..Len(handles) :
                handles[i].name = filename => handles[i].version = Version

\* While the CPU thread waits it is the program's turn in no other place, and what was
\* asked for was asked over this connection.
TurnsOK ==
  /\ cpu = "chunk" => reader = "poll" /\ chunk = <<>>
  /\ cpu = "close" => reader = "idle"
  /\ chunk # <<>> => reader = "poll"
  /\ requests # <<>> => alive
  /\ late /\ ~spoiled => reader = "idle"

\* The answer to a request for a chunk, or its beginning: for some length of the chunk
\* the status, the count and the bytes of the file from the offset on.
AnswerOf(len) ==
  /\ Len(wire) <= 2 + len
  /\ Len(wire) >= 1 => wire[1] \in {Control(RespOk), Control(RespEof), Control(RespError)}
  /\ Len(wire) >= 1 /\ wire[1] # Control(RespError) =>
       /\ Len(wire) >= 2 => wire[2] = Control(len % ChunkSize)
       /\ ~spoiled =>
            /\ offset + len <= Size
            /\ wire[1] = Control(RespEof) => offset + len = Size
            /\ \A i \in 3..Len(wire) : wire[i] = <<Version, offset + (i - 2)>>
Answered == \E len \in 1..ChunkSize : AnswerOf(len)

Asked == [cmd |-> "chunk", name |-> filename, offset |-> offset]

Quiet == requests = <<>> /\ wire = <<>>
Closing ==
  \/ wire = <<>> /\ requests = <<>>
  \/ wire = <<>> /\ Len(requests) = 1 /\ requests[1].cmd = "close"
  \/ requests = <<>> /\ Len(wire) = 1
Answering == (wire = <<>> /\ requests = <<Asked>>) \/ (requests = <<>> /\ Answered)

\* One request is on its way, or its answer, unless an answer to CLOSE was not awaited.
ChannelOK ==
  ~late => /\ cpu = "run" => Quiet
           /\ cpu = "close" => Closing
           /\ cpu = "chunk" => Answering

\* What was read and what is in the buffer are the beginning of the file.
StreamOK ==
  ~spoiled =>
    /\ \A i \in 1..Len(got) : got[i] = <<Version, i>>
    /\ Len(got) <= Size /\ (result = "done" => Len(got) = Size)
    /\ chunk = <<>> => offset = Len(got)
    /\ chunk # <<>> =>
         /\ offset = Len(got) + (Len(chunk) - 1) /\ offset <= Size
         /\ status = "eof" => offset = Size
         /\ \A i \in 2..Len(chunk) : chunk[i] = <<Version, Len(got) + (i - 1)>>

IInv == TypeOK /\ CacheOK /\ TurnsOK /\ ChannelOK /\ StreamOK

-----------------------------------------------------------------------------
(* Handles and answers *)

Handle == [name : Names, version : 1..MaxVersion]
Requests == [cmd : {"chunk", "close"}, name : Names, offset : Nat]

LEMMA Sizes == ChunkSize \in Nat /\ ChunkSize >= 3 /\ CacheSize \in Nat /\ CacheSize >= 1
                 /\ MaxVersion \in Nat /\ MaxVersion >= 1
  BY TransferAssumption

LEMMA ControlData == \A b \in Nat : Control(b) \in Data /\ Control(b)[1] = 0 /\ Control(b)[2] = b
  BY Sizes DEF Control, Data

LEMMA DropOne ==
  ASSUME handles \in Seq(Handle), NEW at \in 1..Len(handles)
  PROVE  LET t == RemoveAt(handles, at)
         IN  /\ t \in Seq(Handle) /\ Len(t) = Len(handles) - 1
             /\ \A i \in 1..Len(t) : \E j \in 1..Len(handles) : t[i] = handles[j]
<1> DEFINE s == handles
           a == SubSeq(s, 1, at - 1)
           b == SubSeq(s, at + 1, Len(s))
           n == Len(s)
           c == a \o b
<1>1. a \in Seq(Handle) /\ b \in Seq(Handle) /\ Len(a) = at - 1 /\ Len(b) = n - at /\ n \in Nat
  OBVIOUS
<1>2. \A i \in 1..(at - 1) : a[i] = s[i]
  OBVIOUS
<1>3. \A i \in 1..(n - at) : b[i] = s[i + at]
  OBVIOUS
<1> HIDE DEF a, b
<1> HIDE DEF n
<1>4. /\ Len(c) = n - 1 /\ c \in Seq(Handle)
      /\ \A i \in 1..(at - 1) : c[i] = a[i]
      /\ \A i \in 1..(n - at) : c[at - 1 + i] = b[i]
  <2>1. Len(c) = n - 1 /\ c \in Seq(Handle)
    BY <1>1
  <2>2. \A i \in 1..(at - 1) : c[i] = a[i]
    BY <1>1
  <2>3. \A i \in 1..(n - at) : c[at - 1 + i] = b[i]
    BY <1>1
  <2> QED
    BY <2>1, <2>2, <2>3
<1> HIDE DEF c
<1>5. c = RemoveAt(s, at)
  BY DEF RemoveAt, c, a, b, n
<1>6. ASSUME NEW i \in 1..(n - 1)
      PROVE  \E j \in 1..n : c[i] = s[j]
  <2>1. CASE i <= at - 1
    <3>1. i \in 1..(at - 1) /\ i \in 1..n
      BY <1>1, <2>1
    <3> QED
      BY <1>2, <1>4, <3>1
  <2>2. CASE i > at - 1
    <3>1. PICK k \in 1..(n - at) : i = at - 1 + k /\ k + at \in 1..n
      <4>1. i - (at - 1) \in 1..(n - at) /\ i = at - 1 + (i - (at - 1))
            /\ i - (at - 1) + at \in 1..n
        BY <1>1, <2>2
      <4> QED
        BY <4>1
    <3>2. c[i] = s[k + at]
      BY <1>3, <1>4, <3>1
    <3> QED
      BY <3>1, <3>2
  <2> QED
    BY <1>1, <2>1, <2>2
<1> QED
  BY <1>4, <1>5, <1>6 DEF n

LEMMA WithoutType ==
  ASSUME handles \in Seq(Handle), NEW n \in Names
  PROVE  /\ Without(n) \in Seq(Handle) /\ Len(Without(n)) <= Len(handles)
         /\ \A i \in 1..Len(Without(n)) : \E j \in 1..Len(handles) : Without(n)[i] = handles[j]
<1> DEFINE at == {i \in 1..Len(handles) : handles[i].name = n}
<1>1. CASE at = {}
  <2>1. Without(n) = handles
    BY <1>1 DEF Without
  <2> QED
    BY <2>1
<1>2. CASE at # {}
  <2>1. PICK k \in 1..Len(handles) : Without(n) = RemoveAt(handles, k)
    BY <1>2 DEF Without
  <2> QED
    <3> DEFINE t == RemoveAt(handles, k)
    <3>1. /\ t \in Seq(Handle) /\ Len(t) = Len(handles) - 1
          /\ \A i \in 1..Len(t) : \E j \in 1..Len(handles) : t[i] = handles[j]
      BY DropOne, Zenon
    <3> HIDE DEF t
    <3>2. /\ t \in Seq(Handle) /\ Len(t) <= Len(handles)
          /\ \A i \in 1..Len(t) : \E j \in 1..Len(handles) : t[i] = handles[j]
      BY <3>1
    <3> QED
      BY <2>1, <3>2 DEF t
<1> QED
  BY <1>1, <1>2

LEMMA WithType ==
  ASSUME handles \in Seq(Handle), Len(handles) <= CacheSize, NEW n \in Names,
         NEW v \in 1..MaxVersion
  PROVE  /\ With(n, v) \in Seq(Handle) /\ Len(With(n, v)) <= CacheSize
         /\ \A i \in 1..Len(With(n, v)) : \/ With(n, v)[i] = [name |-> n, version |-> v]
                                          \/ \E j \in 1..Len(handles) : With(n, v)[i] = handles[j]
<1> DEFINE rest == Without(n)
           e == [name |-> n, version |-> v]
<1>1. /\ rest \in Seq(Handle) /\ Len(rest) <= CacheSize
      /\ \A i \in 1..Len(rest) : \E j \in 1..Len(handles) : rest[i] = handles[j]
  BY WithoutType, Sizes
<1>2. e \in Handle
  BY DEF Handle
<1> HIDE DEF rest, e
<1>3. CASE Len(rest) >= CacheSize
  <2>1. With(n, v) = Append(Tail(rest), e)
    BY <1>3 DEF With, rest, e
  <2>2. Tail(rest) \in Seq(Handle) /\ Len(Tail(rest)) = CacheSize - 1
        /\ \A i \in 1..(CacheSize - 1) : Tail(rest)[i] = rest[i + 1]
    BY <1>1, <1>3, Sizes
  <2>3. \A i \in 1..(CacheSize - 1) : \E j \in 1..Len(handles) : Tail(rest)[i] = handles[j]
    <3> TAKE i \in 1..(CacheSize - 1)
    <3>1. i + 1 \in 1..Len(rest)
      BY <1>1, <1>3, Sizes
    <3> QED
      BY <1>1, <2>2, <3>1
  <2> DEFINE t == Tail(rest)
  <2> HIDE DEF t
  <2>4. /\ Append(t, e) \in Seq(Handle) /\ Len(Append(t, e)) = CacheSize
        /\ \A i \in 1..CacheSize : Append(t, e)[i] = IF i = CacheSize THEN e ELSE t[i]
    BY <1>2, <2>2, Sizes DEF t
  <2> QED
    BY <2>1, <2>3, <2>4, Sizes DEF t, e
<1>4. CASE ~(Len(rest) >= CacheSize)
  <2>1. With(n, v) = Append(rest, e)
    BY <1>4 DEF With, rest, e
  <2>2. /\ Append(rest, e) \in Seq(Handle) /\ Len(Append(rest, e)) = Len(rest) + 1
        /\ \A i \in 1..(Len(rest) + 1) : Append(rest, e)[i] = IF i = Len(rest) + 1 THEN e ELSE rest[i]
    BY <1>1, <1>2
  <2> QED
    BY <1>1, <1>4, <2>1, <2>2, Sizes DEF e
<1> QED
  BY <1>3, <1>4

\* a is f and d one behind the other, and f has n elements.
IsJoined(f, d, a, n) ==
  /\ a \in Seq(Data) /\ Len(a) = n + Len(d)
  /\ \A i \in 1..n : a[i] = f[i]
  /\ \A i \in 1..Len(d) : a[n + i] = d[i]

LEMMA Joined ==
  ASSUME NEW f \in Seq(Data), NEW d \in Seq(Data)
  PROVE  IsJoined(f, d, f \o d, Len(f))
<1>1. PICK a : a = f \o d
  OBVIOUS
<1>2. a \in Seq(Data) /\ Len(a) = Len(f) + Len(d)
  BY <1>1
<1>3. \A i \in 1..Len(f) : a[i] = f[i]
  BY <1>1
<1>4. \A i \in 1..Len(d) : a[Len(f) + i] = d[i]
  BY <1>1
<1>5. IsJoined(f, d, a, Len(f))
  BY <1>2, <1>3, <1>4 DEF IsJoined
<1> QED
  BY <1>1, <1>5

\* What an answer a for version v of a file of this length, from off on, consists of.
IsAnswer(a, len, length, v, off) ==
  /\ a \in Seq(Data) /\ Len(a) >= 2 /\ Len(a) <= 2 + len
  /\ a[1] \in {Control(RespOk), Control(RespEof), Control(RespError)}
  /\ a[1] # Control(RespError) =>
       /\ a[2] = Control(len % ChunkSize)
       /\ off + len <= length
       /\ a[1] = Control(RespEof) => off + len = length
       /\ \A i \in 3..Len(a) : a[i] = <<v, off + (i - 2)>>

LEMMA ErrorAnswer ==
  ASSUME NEW length, NEW v, NEW off
  PROVE  IsAnswer(<<Control(RespError), Control(0)>>, 1, length, v, off)
<1> DEFINE a == <<Control(RespError), Control(0)>>
<1>1. RespError \in Nat
  BY Sizes DEF RespError
<1>2. a \in Seq(Data) /\ Len(a) = 2 /\ a[1] = Control(RespError)
  BY <1>1, ControlData
<1> HIDE DEF a
<1>3. IsAnswer(a, 1, length, v, off)
  BY <1>2 DEF IsAnswer
<1> QED
  BY <1>3 DEF a

LEMMA AnswerLemma ==
  ASSUME size \in [Names -> [1..MaxVersion -> Lengths]],
         NEW n \in Names, NEW v \in 1..MaxVersion, NEW off \in Nat
  PROVE  \E len \in 1..ChunkSize : IsAnswer(ChunkAnswer(n, v, off), len, size[n][v], v, off)
<1> DEFINE length == size[n][v]
           content == Content(n, v)
           rest == SubSeq(content, off + 1, length)
           data == Cut(rest)
           left == length - off
<1>1. length \in Nat
  BY TransferAssumption
<1>2. /\ content \in Seq(Data) /\ Len(content) = length
      /\ \A i \in 1..length : content[i] = <<v, i>>
  <2>1. \A i \in 1..length : <<v, i>> \in Data
    BY <1>1, Sizes DEF Data
  <2> QED
    BY <1>1, <2>1 DEF Content
<1> HIDE DEF content, length
<1>3. CASE off >= length
  <2>1. rest = <<>>
    BY <1>1, <1>2, <1>3
  <2>2. ChunkAnswer(n, v, off) = <<Control(RespError), Control(0)>>
    BY <2>1 DEF ChunkAnswer, length, content
  <2>3. 1 \in 1..ChunkSize
    BY Sizes
  <2> QED
    BY <2>2, <2>3, ErrorAnswer
<1>4. CASE off < length
  <2>1. /\ rest \in Seq(Data) /\ Len(rest) = left
        /\ \A i \in 1..left : rest[i] = <<v, off + i>>
    <3>1. Len(rest) = left /\ rest \in Seq(Data)
      BY <1>1, <1>2, <1>4
    <3>2. \A i \in 1..left : rest[i] = content[off + i]
      BY <1>1, <1>2, <1>4
    <3>3. \A i \in 1..left : off + i \in 1..length
      BY <1>1, <1>4
    <3> HIDE DEF rest
    <3>4. ASSUME NEW i \in 1..left PROVE rest[i] = <<v, off + i>>
      <4>1. rest[i] = content[off + i] /\ off + i \in 1..length
        BY <3>2, <3>3
      <4> QED
        BY <1>2, <4>1
    <3> QED
      BY <3>1, <3>4
  <2>2. rest # <<>> /\ left \in Nat /\ left >= 1
    <3> HIDE DEF rest
    <3>1. left \in Nat /\ left >= 1
      BY <1>1, <1>4
    <3>2. Len(rest) = left
      BY <2>1
    <3> HIDE DEF left
    <3> QED
      BY <3>1, <3>2
  <2> HIDE DEF rest
  <2>3. PICK len \in 1..ChunkSize :
          /\ data \in Seq(Data) /\ Len(data) = len /\ len <= left
          /\ Len(rest) > ChunkSize \/ len = left
          /\ \A i \in 1..len : data[i] = <<v, off + i>>
    <3>1. CASE Len(rest) > ChunkSize
      <4>1. data = SubSeq(rest, 1, ChunkSize)
        BY <3>1 DEF Cut
      <4>2. data \in Seq(Data) /\ Len(data) = ChunkSize /\ \A i \in 1..ChunkSize : data[i] = rest[i]
        BY <2>1, <2>2, <3>1, <4>1, Sizes
      <4> QED
        BY <2>1, <2>2, <3>1, <4>2, Sizes, SMTT(30)
    <3>2. CASE ~(Len(rest) > ChunkSize)
      <4>1. data = rest
        BY <3>2 DEF Cut
      <4>2. left \in 1..ChunkSize
        BY <2>1, <2>2, <3>2, Sizes
      <4> QED
        BY <2>1, <3>2, <4>1, <4>2, SMTT(30)
    <3> QED
      BY <3>1, <3>2
  <2> HIDE DEF data
  <2>4. PICK s \in {RespOk, RespEof} :
          /\ s = RespEof => ~(Len(rest) > ChunkSize)
          /\ ChunkAnswer(n, v, off) = <<Control(s), Control(Len(data) % ChunkSize)>> \o data
    <3> DEFINE tail == Control(Len(data) % ChunkSize)
               s == IF Len(rest) > ChunkSize THEN RespOk ELSE RespEof
    <3>1. ChunkAnswer(n, v, off) = <<Control(s), tail>> \o data
      BY <2>2, Zenon DEF ChunkAnswer, rest, data, length, content
    <3> HIDE DEF tail, data
    <3>2. s \in {RespOk, RespEof} /\ (s = RespEof => ~(Len(rest) > ChunkSize))
      BY DEF RespOk, RespEof
    <3> HIDE DEF s
    <3>3. \E t \in {RespOk, RespEof} : /\ t = RespEof => ~(Len(rest) > ChunkSize)
                                      /\ ChunkAnswer(n, v, off) = <<Control(t), tail>> \o data
      BY <3>1, <3>2
    <3> QED
      BY <3>3 DEF tail
  <2> DEFINE c == Len(data) % ChunkSize
             front == <<Control(s), Control(c)>>
             a == front \o data
  <2>5. c \in Nat
    BY <2>3, Sizes
  <2> HIDE DEF c
  <2>6. front \in Seq(Data) /\ Len(front) = 2 /\ front[1] = Control(s) /\ front[2] = Control(c)
    BY <2>4, <2>5, ControlData DEF RespOk, RespEof
  <2> HIDE DEF front
  <2>7. /\ a \in Seq(Data) /\ Len(a) = 2 + len
        /\ a[1] = front[1] /\ a[2] = front[2]
        /\ \A i \in 1..len : a[2 + i] = data[i]
    <3>1. IsJoined(front, data, a, 2)
      BY <2>3, <2>6, Joined, Zenon
    <3> HIDE DEF a
    <3> QED
      BY <2>3, <3>1 DEF IsJoined
  <2>8. a[1] = Control(s) /\ a[2] = Control(c)
    BY <2>6, <2>7
  <2>9. \A i \in 1..len : a[2 + i] = data[i]
    BY <2>7
  <2> HIDE DEF a
  <2>10. \A i \in 3..(2 + len) : a[i] = <<v, off + (i - 2)>>
    <3> TAKE i \in 3..(2 + len)
    <3>1. PICK k \in 1..len : i = 2 + k /\ i - 2 = k
      <4>1. i - 2 \in 1..len /\ i = 2 + (i - 2)
        OBVIOUS
      <4> QED
        BY <4>1
    <3> QED
      BY <2>3, <2>9, <3>1
  <2>11. c = len % ChunkSize
    BY <2>3 DEF c
  <2>12. off + len <= length
    BY <1>1, <2>2, <2>3
  <2>13. a[1] = Control(RespEof) => off + len = length
    <3>1. ASSUME a[1] = Control(RespEof) PROVE s = RespEof
      <4>1. s \in Nat /\ RespEof \in Nat
        BY <2>4 DEF RespOk, RespEof
      <4>2. Control(s)[2] = s /\ Control(RespEof)[2] = RespEof
        BY <4>1, ControlData
      <4> QED
        BY <2>8, <3>1, <4>2
    <3> QED
      BY <1>1, <2>2, <2>3, <2>4, <3>1
  <2>14. IsAnswer(a, len, length, v, off)
    BY <2>4, <2>7, <2>8, <2>10, <2>11, <2>12, <2>13 DEF IsAnswer
  <2> QED
    BY <2>4, <2>14 DEF a, front, c, length
<1> QED
  BY <1>1, <1>3, <1>4

-----------------------------------------------------------------------------
(* The beginning *)

LEMMA InitIInv == Init => IInv
<1> SUFFICES ASSUME Init PROVE IInv
  OBVIOUS
<1>1. TypeOK
  <2>1. version \in [Names -> 0..MaxVersion] /\ size \in [Names -> [1..MaxVersion -> Lengths]]
    BY Sizes DEF Init
  <2>2. \A S : handles \in Seq(S) /\ requests \in Seq(S) /\ wire \in Seq(S) /\ chunk \in Seq(S)
               /\ got \in Seq(S)
    BY DEF Init
  <2>3. Len(handles) <= CacheSize
    BY Sizes DEF Init
  <2>4. /\ alive = FALSE /\ connected = FALSE /\ filename \in Names /\ offset = 0
        /\ status = "idle" /\ cpu = "run" /\ reader = "idle" /\ result = "none"
    BY DEF Init
  <2> QED
    BY <2>1, <2>2, <2>3, <2>4 DEF TypeOK
<1>2. Size \in Nat
  <2>1. size[filename][1] \in Nat
    <3>1. 1 \in 1..MaxVersion
      BY Sizes
    <3>2. size \in [Names -> [1..MaxVersion -> Lengths]] /\ filename \in Names
      BY DEF Init
    <3>3. size[filename][1] \in Lengths
      BY <3>1, <3>2
    <3> QED
      BY <3>3, TransferAssumption
  <2> QED
    BY <2>1 DEF Init, Size, Version
<1>3. CacheOK /\ TurnsOK /\ ChannelOK
  BY DEF Init, CacheOK, TurnsOK, ChannelOK, Quiet
<1>4. StreamOK
  <2>1. Len(got) = 0 /\ chunk = <<>> /\ offset = 0 /\ result = "none"
    BY DEF Init
  <2> QED
    BY <1>2, <2>1 DEF StreamOK
<1> QED
  BY <1>1, <1>3, <1>4 DEF IInv

-----------------------------------------------------------------------------
(* What the actions leave alone *)

Fixed == UNCHANGED <<version, size, filename>>

LEMMA SizeType == TypeOK => Size \in Nat /\ Version \in 0..MaxVersion
<1> SUFFICES ASSUME TypeOK PROVE Size \in Nat /\ Version \in 0..MaxVersion
  OBVIOUS
<1>1. version \in [Names -> 0..MaxVersion] /\ size \in [Names -> [1..MaxVersion -> Lengths]]
      /\ filename \in Names
  BY DEF TypeOK
<1>2. Version \in 0..MaxVersion
  BY <1>1 DEF Version
<1>3. CASE Version = 0
  BY <1>2, <1>3 DEF Size
<1>4. CASE Version # 0
  <2>1. Version \in 1..MaxVersion
    BY <1>2, <1>4, Sizes
  <2>2. size[filename][Version] \in Lengths
    BY <1>1, <2>1
  <2> QED
    BY <1>2, <1>4, <2>2, TransferAssumption DEF Size
<1> QED
  BY <1>2, <1>3, <1>4

LEMMA FixedFile == Fixed => Version' = Version /\ Size' = Size
  BY DEF Fixed, Version, Size

LEMMA StreamKept ==
  ASSUME StreamOK, Fixed, UNCHANGED <<got, result, chunk, offset, status>>, spoiled' \/ ~spoiled
  PROVE  StreamOK'
<1>1. Version' = Version /\ Size' = Size
  BY FixedFile
<1> QED
  BY <1>1 DEF StreamOK

LEMMA CacheKept ==
  ASSUME CacheOK, Fixed, spoiled' \/ ~spoiled, UNCHANGED handles
  PROVE  CacheOK'
<1>1. Version' = Version
  BY FixedFile
<1> QED
  BY <1>1 DEF CacheOK, Fixed

LEMMA Beginnings ==
  ASSUME NEW S, NEW s \in Seq(S), NEW k \in 0..Len(s)
  PROVE  /\ SubSeq(s, 1, k) \in Seq(S) /\ Len(SubSeq(s, 1, k)) = k
         /\ \A i \in 1..k : SubSeq(s, 1, k)[i] = s[i]
  OBVIOUS

-----------------------------------------------------------------------------
(* The server's steps *)

LEMMA HandleTypes == TypeOK => handles \in Seq(Handle) /\ Len(handles) <= CacheSize
  BY DEF TypeOK, Handle

LEMMA LookedUp ==
  ASSUME TypeOK, NEW n \in Names, version[n] # 0, NEW v \in Handles(n)
  PROVE  v \in 1..MaxVersion
<1>1. version[n] \in 1..MaxVersion
  BY Sizes DEF TypeOK
<1>2. \A i \in 1..Len(handles) : handles[i].version \in 1..MaxVersion
  <2>1. \A i \in 1..Len(handles) : handles[i] \in Handle
    BY HandleTypes
  <2> QED
    BY <2>1 DEF Handle
<1>3. DOMAIN handles = 1..Len(handles)
  BY DEF TypeOK
<1> QED
  BY <1>1, <1>2, <1>3 DEF Handles

LEMMA RightVersion ==
  ASSUME TypeOK, CacheOK, ~spoiled, NEW v \in Handles(filename)
  PROVE  v = Version
<1>1. DOMAIN handles = 1..Len(handles)
  BY DEF TypeOK
<1> QED
  BY <1>1 DEF CacheOK, Handles, Version

LEMMA Kept ==
  ASSUME TypeOK, CacheOK, NEW n \in Names, Fixed, UNCHANGED spoiled,
         \/ handles' = handles
         \/ handles' = Without(n)
         \/ version[n] # 0 /\ \E v \in Handles(n) : handles' = With(n, v)
  PROVE  handles' \in Seq(Handle) /\ Len(handles') <= CacheSize /\ CacheOK'
<1>0. handles \in Seq(Handle) /\ Len(handles) <= CacheSize /\ CacheSize \in Nat
  BY HandleTypes, Sizes
<1>1. PICK t : t = handles'
  OBVIOUS
<1>2. /\ t \in Seq(Handle) /\ Len(t) <= CacheSize
      /\ \A i \in 1..Len(t) : \/ \E v \in Handles(n) : t[i] = [name |-> n, version |-> v]
                              \/ \E j \in 1..Len(handles) : t[i] = handles[j]
  <2>1. CASE handles' = handles
    BY <1>0, <1>1, <2>1
  <2>2. CASE handles' = Without(n)
    <3>1. /\ t \in Seq(Handle) /\ Len(t) <= Len(handles)
          /\ \A i \in 1..Len(t) : \E j \in 1..Len(handles) : t[i] = handles[j]
      BY <1>0, <1>1, <2>2, WithoutType, Zenon
    <3> QED
      BY <1>0, <3>1
  <2>3. CASE version[n] # 0 /\ \E v \in Handles(n) : handles' = With(n, v)
    <3>1. PICK v \in Handles(n) : t = With(n, v)
      BY <1>1, <2>3
    <3>2. v \in 1..MaxVersion
      BY <2>3, LookedUp
    <3>3. /\ t \in Seq(Handle) /\ Len(t) <= CacheSize
          /\ \A i \in 1..Len(t) : \/ t[i] = [name |-> n, version |-> v]
                                  \/ \E j \in 1..Len(handles) : t[i] = handles[j]
      BY <1>0, <3>1, <3>2, WithType, Zenon
    <3> QED
      BY <3>3
  <2> QED
    BY <2>1, <2>2, <2>3
<1>3. Version' = Version
  BY FixedFile
<1>4. ASSUME ~spoiled, NEW i \in 1..Len(t), t[i].name = filename
      PROVE  t[i].version = Version
  <2>1. CASE \E v \in Handles(n) : t[i] = [name |-> n, version |-> v]
    <3>1. PICK v \in Handles(n) : t[i] = [name |-> n, version |-> v]
      BY <2>1
    <3>2. n = filename /\ t[i].version = v
      BY <1>4, <3>1
    <3> QED
      BY <1>4, <3>2, RightVersion
  <2>2. CASE \E j \in 1..Len(handles) : t[i] = handles[j]
    BY <1>4, <2>2 DEF CacheOK
  <2> QED
    BY <1>2, <2>1, <2>2
<1> QED
  BY <1>1, <1>2, <1>3, <1>4 DEF CacheOK, Fixed

LEMMA OtherClientStep ==
  ASSUME IInv, NEW n \in Names, OtherClient(n)
  PROVE  IInv'
<1> USE DEF OtherClient, server, channel, client, program, history
<1>1. TypeOK /\ CacheOK /\ TurnsOK /\ ChannelOK /\ StreamOK
  BY DEF IInv
<1>2. Fixed /\ UNCHANGED spoiled
  BY DEF Fixed
<1>3. handles' \in Seq(Handle) /\ Len(handles') <= CacheSize /\ CacheOK'
  BY <1>1, <1>2, Kept
<1>4. TypeOK'
  BY <1>1, <1>3 DEF TypeOK, Handle
<1>5. TurnsOK'
  BY <1>1 DEF TurnsOK
<1>6. ChannelOK'
  <2>1. Version' = Version /\ Size' = Size
    BY <1>2, FixedFile
  <2>2. Answering' = Answering
    BY <2>1 DEF Answering, Answered, AnswerOf, Asked
  <2> QED
    BY <1>1, <2>2 DEF ChannelOK, Quiet, Closing
<1>7. StreamOK'
  BY <1>1, <1>2, StreamKept
<1> QED
  BY <1>3, <1>4, <1>5, <1>6, <1>7 DEF IInv

LEMMA ServedOK ==
  ASSUME TypeOK, NEW n \in Names, NEW off \in Nat, version[n] # 0, NEW v \in Handles(n)
  PROVE  \E len \in 1..ChunkSize : IsAnswer(ChunkAnswer(n, v, off), len, size[n][v], v, off)
<1>1. v \in 1..MaxVersion
  BY LookedUp
<1>2. size \in [Names -> [1..MaxVersion -> Lengths]]
  BY DEF TypeOK
<1> QED
  BY <1>1, <1>2, AnswerLemma

LEMMA ServeChunkStep ==
  ASSUME IInv, ServeChunk
  PROVE  IInv'
<1>1. TypeOK /\ CacheOK /\ TurnsOK /\ ChannelOK /\ StreamOK
  BY DEF IInv
<1>2. Fixed /\ UNCHANGED <<alive, connected, offset, status, chunk, cpu, reader, got, result, late, spoiled>>
  BY DEF ServeChunk, Fixed, client, program, history
<1>3. requests # <<>> /\ requests' = Tail(requests)
  BY DEF ServeChunk
<1>4. PICK n, off : n = Head(requests).name /\ off = Head(requests).offset
  OBVIOUS
<1>5. requests \in Seq(Requests) /\ wire \in Seq(Data)
  BY <1>1 DEF TypeOK, Requests
<1>6. Head(requests) = requests[1] /\ requests[1] \in Requests
  BY <1>3, <1>5
<1>7. n \in Names /\ off \in Nat /\ requests[1].cmd = "chunk"
  BY <1>4, <1>6 DEF ServeChunk, Requests
<1>8. \/ handles' = handles
      \/ version[n] # 0 /\ \E v \in Handles(n) : handles' = With(n, v)
  BY <1>4 DEF ServeChunk
<1>9. handles' \in Seq(Handle) /\ Len(handles') <= CacheSize /\ CacheOK'
  BY <1>1, <1>2, <1>7, <1>8, Kept
\* The answer, of version v.
<1>10. PICK a, v, len :
         /\ len \in 1..ChunkSize
         /\ wire' = wire \o a
         /\ a \in Seq(Data) /\ Len(a) >= 2 /\ Len(a) <= 2 + len
         /\ \/ a[1] = Control(RespError)
            \/ v \in Handles(n) /\ IsAnswer(a, len, size[n][v], v, off) /\ version[n] # 0
  <2>1. CASE version[n] = 0
    <3> DEFINE a == <<Control(RespError), Control(0)>>
    <3>1. wire' = wire \o a
      BY <1>4, <2>1 DEF ServeChunk
    <3>2. a \in Seq(Data) /\ Len(a) = 2 /\ a[1] = Control(RespError)
      <4>1. RespError \in Nat
        BY Sizes DEF RespError
      <4> QED
        BY <4>1, ControlData
    <3> HIDE DEF a
    <3>3. 1 \in 1..ChunkSize /\ Len(a) >= 2 /\ Len(a) <= 2 + 1
      BY <3>2, Sizes
    <3> QED
      BY <3>1, <3>2, <3>3, Zenon
  <2>2. CASE version[n] # 0
    <3>1. PICK v \in Handles(n) : wire' = wire \o ChunkAnswer(n, v, off)
      BY <1>4, <2>2 DEF ServeChunk
    <3>2. PICK a : a = ChunkAnswer(n, v, off)
      OBVIOUS
    <3>3. PICK len \in 1..ChunkSize : IsAnswer(a, len, size[n][v], v, off)
      BY <1>1, <1>7, <2>2, <3>2, ServedOK
    <3>4. a \in Seq(Data) /\ Len(a) >= 2 /\ Len(a) <= 2 + len
      BY <3>3 DEF IsAnswer
    <3> QED
      BY <2>2, <3>1, <3>2, <3>3, <3>4
  <2> QED
    BY <2>1, <2>2
<1>11. wire' \in Seq(Data) /\ requests' \in Seq(Requests)
  <2>1. wire \o a \in Seq(Data)
    BY <1>5, <1>10
  <2>2. Tail(requests) \in Seq(Requests)
    BY <1>3, <1>5
  <2> QED
    BY <1>3, <1>10, <2>1, <2>2
<1>12. TypeOK'
  BY <1>1, <1>2, <1>9, <1>11 DEF TypeOK, Handle, Requests, Fixed
<1>13. TurnsOK'
  BY <1>1, <1>2, <1>3 DEF TurnsOK
<1>14. ChannelOK'
  <2> SUFFICES ASSUME ~late PROVE requests' = <<>> /\ cpu = "chunk" /\ Answered'
    BY <1>2 DEF ChannelOK, Answering
  <2>1. cpu \in {"run", "close", "chunk"}
    BY <1>1 DEF TypeOK
  <2>2. cpu # "run" /\ cpu # "close"
    BY <1>1, <1>3, <1>7 DEF ChannelOK, Quiet, Closing
  <2>3. wire = <<>> /\ requests = <<Asked>>
    BY <1>1, <1>3, <2>1, <2>2 DEF ChannelOK, Answering
  <2>4. n = filename /\ off = offset
    BY <1>4, <1>6, <2>3 DEF Asked
  <2>5. requests' = <<>>
    BY <1>3, <2>3
  <2>6. wire' = a
    BY <1>10, <2>3
  <2>7. Version' = Version /\ Size' = Size /\ offset' = offset /\ spoiled' = spoiled
    BY <1>2, FixedFile
  <2>8. /\ Len(a) >= 1
        /\ a[1] \in {Control(RespOk), Control(RespEof), Control(RespError)}
        /\ a[1] # Control(RespError) => a[2] = Control(len % ChunkSize)
    BY <1>10 DEF IsAnswer
  <2>9. ASSUME ~spoiled, a[1] # Control(RespError)
        PROVE  /\ offset + len <= Size
               /\ a[1] = Control(RespEof) => offset + len = Size
               /\ \A i \in 3..Len(a) : a[i] = <<Version, offset + (i - 2)>>
    <3>1. v = Version /\ version[n] # 0
      BY <1>1, <1>10, <2>4, <2>9, RightVersion
    <3>2. size[n][v] = Size
      BY <2>4, <3>1 DEF Size, Version
    <3> QED
      BY <1>10, <2>4, <2>9, <3>1, <3>2 DEF IsAnswer
  <2>10. AnswerOf(len)'
    BY <1>10, <2>6, <2>7, <2>8, <2>9 DEF AnswerOf
  <2> QED
    BY <1>10, <2>1, <2>2, <2>5, <2>10 DEF Answered
<1>15. StreamOK'
  BY <1>1, <1>2, StreamKept
<1> QED
  BY <1>9, <1>12, <1>13, <1>14, <1>15 DEF IInv

LEMMA ServeCloseStep ==
  ASSUME IInv, ServeClose
  PROVE  IInv'
<1>1. TypeOK /\ CacheOK /\ TurnsOK /\ ChannelOK /\ StreamOK
  BY DEF IInv
<1>2. Fixed /\ UNCHANGED <<alive, connected, offset, status, chunk, cpu, reader, got, result, late, spoiled>>
  BY DEF ServeClose, Fixed, client, program, history
<1>3. requests # <<>> /\ requests' = Tail(requests) /\ wire' = Append(wire, Control(RespOk))
  BY DEF ServeClose
<1>4. requests \in Seq(Requests) /\ wire \in Seq(Data)
  BY <1>1 DEF TypeOK, Requests
<1>5. Head(requests) = requests[1] /\ requests[1] \in Requests
  BY <1>3, <1>4
<1>6. requests[1].cmd = "close" /\ requests[1].name \in Names /\ handles' = Without(requests[1].name)
  BY <1>5 DEF ServeClose, Requests
<1>7. handles' \in Seq(Handle) /\ Len(handles') <= CacheSize /\ CacheOK'
  BY <1>1, <1>2, <1>6, Kept
<1>8. wire' \in Seq(Data) /\ requests' \in Seq(Requests)
  <2>1. Control(RespOk) \in Data
    BY ControlData DEF RespOk
  <2>2. Tail(requests) \in Seq(Requests)
    BY <1>3, <1>4
  <2> QED
    BY <1>3, <1>4, <2>1, <2>2
<1>9. TypeOK'
  BY <1>1, <1>2, <1>7, <1>8 DEF TypeOK, Handle, Requests, Fixed
<1>10. TurnsOK'
  BY <1>1, <1>2, <1>3 DEF TurnsOK
<1>11. ChannelOK'
  <2> SUFFICES ASSUME ~late PROVE cpu = "close" /\ requests' = <<>> /\ Len(wire') = 1
    BY <1>2 DEF ChannelOK, Closing
  <2>1. cpu \in {"run", "close", "chunk"}
    BY <1>1 DEF TypeOK
  <2>2. cpu # "run"
    BY <1>1, <1>3 DEF ChannelOK, Quiet
  <2>3. cpu # "chunk"
    <3>1. ASSUME requests = <<Asked>> PROVE FALSE
      <4>1. requests[1].cmd = "chunk"
        BY <3>1 DEF Asked
      <4> QED
        BY <1>6, <4>1
    <3> QED
      BY <1>1, <1>3, <3>1 DEF ChannelOK, Answering
  <2>4. wire = <<>> /\ Len(requests) = 1
    BY <1>1, <1>3, <2>1, <2>2, <2>3, <1>4 DEF ChannelOK, Closing
  <2>5. requests' = <<>>
    BY <1>3, <1>4, <2>4
  <2>6. Len(wire') = 1
    BY <1>3, <2>4
  <2> QED
    BY <2>1, <2>2, <2>3, <2>5, <2>6
<1>12. StreamOK'
  BY <1>1, <1>2, StreamKept
<1> QED
  BY <1>7, <1>9, <1>10, <1>11, <1>12 DEF IInv

LEMMA ReplaceStep ==
  ASSUME IInv, NEW n \in Names, Replace(n)
  PROVE  IInv'
<1>1. TypeOK /\ CacheOK /\ TurnsOK /\ ChannelOK /\ StreamOK
  BY DEF IInv
<1>2. UNCHANGED <<size, handles, requests, wire, alive, connected, filename, offset, status, chunk, cpu,
                  reader, got, result, late>>
  BY DEF Replace, channel, client, program
<1>3. /\ version[n] \in 1..(MaxVersion - 1)
      /\ \E v \in {0, version[n] + 1} : version' = [version EXCEPT ![n] = v]
      /\ spoiled' = (spoiled \/ n = filename)
  BY DEF Replace
<1>4. version \in [Names -> 0..MaxVersion] /\ filename \in Names
  BY <1>1 DEF TypeOK
<1>5. version' \in [Names -> 0..MaxVersion] /\ version'[filename] = IF n = filename THEN version'[n] ELSE version[filename]
  BY <1>3, <1>4, Sizes
<1>6. ASSUME ~spoiled' PROVE Version' = Version /\ Size' = Size /\ ~spoiled
  <2>1. n # filename /\ ~spoiled
    BY <1>3, <1>6
  <2>2. Version' = Version
    BY <1>2, <1>5, <2>1 DEF Version
  <2> QED
    BY <1>2, <2>1, <2>2 DEF Size
<1>7. TypeOK'
  BY <1>1, <1>2, <1>5 DEF TypeOK
<1>8. CacheOK'
  BY <1>1, <1>2, <1>6 DEF CacheOK
<1>9. TurnsOK'
  BY <1>1, <1>2, <1>3 DEF TurnsOK
<1>10. ASSUME Answered PROVE Answered'
  <2>1. PICK len \in 1..ChunkSize : AnswerOf(len)
    BY <1>10 DEF Answered
  <2>2. AnswerOf(len)'
    BY <1>2, <1>6, <2>1 DEF AnswerOf
  <2> QED
    BY <2>2 DEF Answered
<1>11. ChannelOK'
  BY <1>1, <1>2, <1>10 DEF ChannelOK, Quiet, Closing, Answering, Asked
<1>12. StreamOK'
  BY <1>1, <1>2, <1>6 DEF StreamOK
<1> QED
  BY <1>7, <1>8, <1>9, <1>11, <1>12 DEF IInv

\* The beginning of an answer is one.
LEMMA CutAnswer ==
  ASSUME TypeOK, Answered, Fixed, UNCHANGED <<offset, spoiled>>,
         NEW k \in 0..Len(wire), wire' = SubSeq(wire, 1, k)
  PROVE  Answered'
<1>1. PICK len \in 1..ChunkSize : AnswerOf(len)
  BY DEF Answered
<1>2. wire \in Seq(Data)
  BY DEF TypeOK
<1>3. PICK w : w = wire'
  OBVIOUS
<1>4. w \in Seq(Data) /\ Len(w) = k /\ \A i \in 1..k : w[i] = wire[i]
  BY <1>2, <1>3, Beginnings
<1>5. Version' = Version /\ Size' = Size
  BY FixedFile
<1>6. Len(w) <= Len(wire) /\ Len(wire) \in Nat /\ Len(w) \in Nat
  BY <1>2, <1>4
<1>7. \A i \in 1..Len(w) : w[i] = wire[i] /\ i \in 1..Len(wire)
  BY <1>4, <1>6
<1>8. /\ Len(w) <= 2 + len
      /\ Len(w) >= 1 => Len(wire) >= 1 /\ w[1] = wire[1]
      /\ Len(w) >= 2 => Len(wire) >= 2 /\ w[2] = wire[2]
      /\ \A i \in 3..Len(w) : w[i] = wire[i] /\ i \in 3..Len(wire)
  BY <1>1, <1>6, <1>7, Sizes DEF AnswerOf
<1>9. AnswerOf(len)'
  BY <1>1, <1>3, <1>5, <1>8 DEF AnswerOf
<1> QED
  BY <1>9 DEF Answered

LEMMA RestartStep ==
  ASSUME IInv, Restart
  PROVE  IInv'
<1>1. TypeOK /\ CacheOK /\ TurnsOK /\ ChannelOK /\ StreamOK
  BY DEF IInv
<1>2. Fixed /\ UNCHANGED <<connected, offset, status, chunk, cpu, reader, got, result, late, spoiled>>
  BY DEF Restart, Fixed, client, program, history
<1>3. handles' = <<>> /\ requests' = <<>> /\ alive' = FALSE
  BY DEF Restart
<1>4. PICK k \in 0..Len(wire) : wire' = SubSeq(wire, 1, k)
  BY DEF Restart
<1>5. PICK w : w = wire'
  OBVIOUS
<1>6. wire \in Seq(Data)
  BY <1>1 DEF TypeOK
<1>7. w \in Seq(Data) /\ Len(w) = k
  BY <1>4, <1>5, <1>6, Beginnings
<1>8. TypeOK'
  <2>1. wire' \in Seq(Data) /\ \A S : handles' \in Seq(S) /\ requests' \in Seq(S)
    BY <1>3, <1>5, <1>7
  <2>2. Len(handles') <= CacheSize
    BY <1>3, Sizes
  <2> QED
    BY <1>1, <1>2, <1>3, <2>1, <2>2 DEF TypeOK, Fixed
<1>9. CacheOK' /\ TurnsOK'
  BY <1>1, <1>2, <1>3 DEF CacheOK, TurnsOK
<1>10. ChannelOK'
  <2> SUFFICES ASSUME ~late
               PROVE  /\ cpu = "run" => wire' = <<>>
                      /\ cpu = "close" => wire' = <<>> \/ Len(wire') = 1
                      /\ cpu = "chunk" => Answered'
    BY <1>2, <1>3 DEF ChannelOK, Quiet, Closing, Answering
  <2>1. Len(wire) \in Nat /\ (Len(w) = 0 => w = <<>>) /\ (wire = <<>> => Len(wire) = 0)
    BY <1>6, <1>7
  <2>2. wire = <<>> => wire' = <<>>
    BY <1>5, <1>7, <2>1
  <2>3. Len(wire) = 1 => wire' = <<>> \/ Len(wire') = 1
    BY <1>5, <1>7, <2>1
  <2>4. ASSUME wire' = <<>> PROVE Answered'
    <3>1. 1 \in 1..ChunkSize
      BY Sizes
    <3>2. AnswerOf(1)'
      BY <2>4 DEF AnswerOf
    <3> QED
      BY <3>1, <3>2 DEF Answered
  <2>5. cpu = "run" => wire' = <<>>
    BY <1>1, <2>2 DEF ChannelOK, Quiet
  <2>6. cpu = "close" => wire' = <<>> \/ Len(wire') = 1
    BY <1>1, <2>2, <2>3 DEF ChannelOK, Closing
  <2>7. ASSUME cpu = "chunk" PROVE Answered'
    <3>1. CASE wire = <<>>
      BY <2>2, <2>4, <3>1
    <3>2. CASE Answered
      BY <1>1, <1>2, <1>4, <3>2, CutAnswer
    <3> QED
      BY <1>1, <2>7, <3>1, <3>2 DEF ChannelOK, Answering
  <2> QED
    BY <2>5, <2>6, <2>7
<1>11. StreamOK'
  BY <1>1, <1>2, StreamKept
<1> QED
  BY <1>8, <1>9, <1>10, <1>11 DEF IInv

-----------------------------------------------------------------------------
(* The client's steps *)

\* What does not concern the connection, the file or the bytes that were read.
LEMMA CalmStep ==
  ASSUME IInv, UNCHANGED <<size, version, handles, filename, offset, chunk, got, late, spoiled>>,
         TypeOK', TurnsOK', ChannelOK',
         chunk = <<>> \/ status' = status,
         result' = result \/ result' # "done"
  PROVE  IInv'
<1>1. CacheOK /\ StreamOK
  BY DEF IInv
<1>2. Version' = Version /\ Size' = Size
  BY DEF Version, Size
<1>3. CacheOK' /\ StreamOK'
  BY <1>1, <1>2 DEF CacheOK, StreamOK
<1> QED
  BY <1>3 DEF IInv

LEMMA GiveUpStep ==
  ASSUME IInv, GiveUp \/ Retry
  PROVE  IInv'
<1>1. TypeOK /\ TurnsOK /\ ChannelOK
  BY DEF IInv
<1>2. /\ UNCHANGED <<size, version, handles, filename, offset, chunk, got, connected, late, spoiled>>
      /\ UNCHANGED <<requests, wire, alive, status, cpu>>
      /\ reader = "poll" /\ cpu = "run" /\ chunk = <<>>
      /\ \/ reader' = "close" /\ result' = "failed"
         \/ reader' = "ask" /\ result' = result
  BY DEF GiveUp, Retry, server, channel, client, history
<1>3. TypeOK' /\ TurnsOK'
  BY <1>1, <1>2 DEF TypeOK, TurnsOK
<1>4. ChannelOK'
  BY <1>1, <1>2 DEF ChannelOK, Quiet
<1> QED
  BY <1>2, <1>3, <1>4, CalmStep

LEMMA CloseStep ==
  ASSUME IInv, Close
  PROVE  IInv'
<1>1. TypeOK /\ TurnsOK /\ ChannelOK
  BY DEF IInv
<1> DEFINE request == [cmd |-> "close", name |-> filename, offset |-> 0]
<1>2. /\ UNCHANGED <<size, version, handles, filename, offset, chunk, got, connected, late, spoiled>>
      /\ UNCHANGED <<wire, alive, result>>
      /\ reader = "close" /\ cpu = "run" /\ reader' = "idle"
      /\ \/ cpu' = "close" /\ status' = status /\ requests' = IF alive THEN Append(requests, request) ELSE requests
         \/ status' = "idle" /\ cpu' = cpu /\ requests' = requests
  BY DEF Close, server, history
<1>3. chunk = <<>>
  BY <1>1, <1>2 DEF TurnsOK
<1>4. request \in Requests /\ request.cmd = "close"
  BY <1>1 DEF TypeOK, Requests
<1> HIDE DEF request
<1>5. requests' = requests \/ (alive /\ cpu' = "close" /\ requests' = Append(requests, request))
  BY <1>2
<1>6. requests \in Seq(Requests)
  BY <1>1 DEF TypeOK, Requests
<1>7. requests' \in Seq(Requests)
  BY <1>4, <1>5, <1>6
<1>8. TypeOK'
  BY <1>1, <1>2, <1>7 DEF TypeOK, Requests
<1>9. TurnsOK'
  BY <1>1, <1>2, <1>3, <1>5 DEF TurnsOK
<1>10. ChannelOK'
  <2> SUFFICES ASSUME ~late
               PROVE  /\ cpu' = "run" => Quiet'
                      /\ cpu' = "close" => Closing'
                      /\ cpu' # "chunk"
    BY <1>2 DEF ChannelOK
  <2>1. requests = <<>> /\ wire = <<>>
    BY <1>1, <1>2 DEF ChannelOK, Quiet
  <2>2. requests' = <<>> \/ (cpu' = "close" /\ Len(requests') = 1 /\ requests'[1].cmd = "close")
    BY <1>4, <1>5, <2>1
  <2> QED
    BY <1>2, <2>1, <2>2 DEF Quiet, Closing
<1> QED
  BY <1>2, <1>3, <1>8, <1>9, <1>10, CalmStep

LEMMA CloseAnsweredStep ==
  ASSUME IInv, CloseAnswered
  PROVE  IInv'
<1>1. TypeOK /\ TurnsOK /\ ChannelOK /\ CacheOK /\ StreamOK
  BY DEF IInv
<1>2. /\ UNCHANGED <<size, version, handles, filename, offset, chunk, got, connected, spoiled>>
      /\ UNCHANGED <<requests, alive, reader, result>>
      /\ cpu = "close" /\ cpu' = "run" /\ status' = "idle"
      /\ \/ wire # <<>> /\ wire' = Tail(wire) /\ late' = late
         \/ wire = <<>> /\ wire' = wire /\ late' = (late \/ alive)
  BY DEF CloseAnswered, server, program
<1>3. chunk = <<>> /\ reader = "idle"
  BY <1>1, <1>2 DEF TurnsOK
<1>4. wire \in Seq(Data)
  BY <1>1 DEF TypeOK
<1>5. wire' \in Seq(Data)
  BY <1>2, <1>4
<1>7. TypeOK'
  BY <1>1, <1>2, <1>5 DEF TypeOK
<1>8. TurnsOK'
  BY <1>1, <1>2, <1>3 DEF TurnsOK
<1>9. ChannelOK'
  <2> SUFFICES ASSUME ~late' PROVE requests = <<>> /\ wire' = <<>>
    BY <1>2 DEF ChannelOK, Quiet
  <2>1. CASE wire # <<>> /\ wire' = Tail(wire) /\ late' = late
    <3>1. requests = <<>> /\ Len(wire) = 1
      BY <1>1, <1>2, <2>1 DEF ChannelOK, Closing
    <3> QED
      BY <1>4, <2>1, <3>1
  <2>2. CASE wire = <<>> /\ wire' = wire /\ late' = (late \/ alive)
    BY <1>1, <2>2 DEF TurnsOK
  <2> QED
    BY <1>2, <2>1, <2>2
<1>10. Fixed
  BY <1>2 DEF Fixed
<1>11. CacheOK'
  BY <1>1, <1>2, <1>10, CacheKept
<1>12. StreamOK'
  <2>1. Version' = Version /\ Size' = Size
    BY <1>10, FixedFile
  <2> QED
    BY <1>1, <1>2, <1>3, <2>1 DEF StreamOK
<1> QED
  BY <1>7, <1>8, <1>9, <1>11, <1>12 DEF IInv

\* What the program does when it drops the connection.
LEMMA DroppedStep ==
  ASSUME IInv, cpu = "chunk", Dropped
  PROVE  IInv'
<1>1. TypeOK /\ TurnsOK /\ CacheOK /\ StreamOK
  BY DEF IInv
<1>2. /\ UNCHANGED <<size, version, handles, filename, offset, chunk, got, reader, result, spoiled>>
      /\ status' = "error" /\ connected' = FALSE /\ alive' = FALSE
      /\ requests' = <<>> /\ wire' = <<>> /\ late' = FALSE /\ cpu' = "run"
  BY DEF Dropped, server, program
<1>3. \A S : requests' \in Seq(S) /\ wire' \in Seq(S)
  BY <1>2
<1>4. TypeOK'
  BY <1>1, <1>2, <1>3 DEF TypeOK
<1>5. TurnsOK' /\ ChannelOK'
  BY <1>1, <1>2 DEF TurnsOK, ChannelOK, Quiet
<1>6. Fixed /\ chunk = <<>>
  BY <1>1, <1>2 DEF Fixed, TurnsOK
<1>7. CacheOK'
  BY <1>1, <1>2, <1>6, CacheKept
<1>8. StreamOK'
  <2>1. Version' = Version /\ Size' = Size
    BY <1>6, FixedFile
  <2> QED
    BY <1>1, <1>2, <1>6, <2>1 DEF StreamOK
<1> QED
  BY <1>4, <1>5, <1>7, <1>8 DEF IInv

LEMMA RequestStep ==
  ASSUME IInv, Request
  PROVE  IInv'
<1>1. TypeOK /\ TurnsOK /\ ChannelOK /\ CacheOK /\ StreamOK
  BY DEF IInv
<1>2. /\ UNCHANGED <<size, version, handles, filename, offset, chunk, got, result, late, spoiled, wire>>
      /\ reader = "ask" /\ cpu = "run" /\ reader' = "poll"
  BY DEF Request, CannotConnect, server, channel, history
<1>3. chunk = <<>>
  BY <1>1, <1>2 DEF TurnsOK
<1>4. Asked \in Requests
  BY <1>1 DEF TypeOK, Requests, Asked
<1>5. \/ /\ status' = "error" /\ cpu' = "run"
         /\ UNCHANGED <<requests, alive, connected>>
      \/ /\ connected' = TRUE /\ alive' = (connected => alive) /\ cpu' = "chunk" /\ status' = status
         /\ requests' = IF alive' THEN Append(requests, Asked) ELSE requests
  BY <1>2, <1>3 DEF Request, CannotConnect, Connected, channel, Asked
<1>6. requests \in Seq(Requests) /\ alive \in BOOLEAN /\ connected \in BOOLEAN
  BY <1>1 DEF TypeOK, Requests
<1> HIDE DEF Asked
<1>7. requests' \in Seq(Requests) /\ alive' \in BOOLEAN /\ connected' \in BOOLEAN
      /\ (alive' => connected') /\ (requests' # <<>> => alive')
  <2>1. alive => connected
    BY <1>1 DEF TypeOK
  <2>2. requests # <<>> => alive
    BY <1>1 DEF TurnsOK
  <2>3. Append(requests, Asked) \in Seq(Requests)
    BY <1>4, <1>6
  <2>4. requests' = requests \/ (alive' /\ requests' = Append(requests, Asked))
    BY <1>5
  <2>5. \/ alive' = alive /\ connected' = connected
        \/ connected' = TRUE /\ alive' = (connected => alive)
    BY <1>5
  <2>6. requests' \in Seq(Requests)
    BY <1>6, <2>3, <2>4
  <2>7. alive' \in BOOLEAN /\ connected' \in BOOLEAN
    BY <1>6, <2>5
  <2>8. alive' => connected'
    BY <2>1, <2>5
  <2>9. alive => alive'
    BY <2>5
  <2>10. requests' # <<>> => alive'
    BY <2>2, <2>4, <2>9
  <2> QED
    BY <2>6, <2>7, <2>8, <2>10
<1>8. TypeOK'
  BY <1>1, <1>2, <1>5, <1>7 DEF TypeOK, Requests
<1>9. TurnsOK'
  BY <1>1, <1>2, <1>3, <1>5, <1>7 DEF TurnsOK
<1>10. ChannelOK'
  <2> SUFFICES ASSUME ~late
               PROVE  /\ cpu' = "run" => Quiet'
                      /\ cpu' = "chunk" => Answering'
                      /\ cpu' # "close"
    BY <1>2 DEF ChannelOK
  <2>1. requests = <<>> /\ wire = <<>>
    BY <1>1, <1>2 DEF ChannelOK, Quiet
  <2>2. cpu' = "run" => Quiet'
    BY <1>2, <1>5, <2>1 DEF Quiet
  <2>3. ASSUME cpu' = "chunk" PROVE Answering'
    <3>1. Asked' = Asked
      BY <1>2 DEF Asked
    <3>2. requests' = <<Asked>> \/ requests' = <<>>
      BY <1>5, <2>1, <2>3
    <3>3. Answered'
      <4>1. wire' = <<>>
        BY <1>2, <2>1
      <4>2. AnswerOf(1)' /\ 1 \in 1..ChunkSize
        BY <4>1, Sizes DEF AnswerOf
      <4> QED
        BY <4>2 DEF Answered
    <3> QED
      BY <1>2, <2>1, <3>1, <3>2, <3>3 DEF Answering
  <2> QED
    BY <1>5, <2>2, <2>3
<1> QED
  BY <1>2, <1>3, <1>5, <1>8, <1>9, <1>10, CalmStep

LEMMA TakeStep ==
  ASSUME IInv, Take
  PROVE  IInv'
<1>1. TypeOK /\ TurnsOK /\ ChannelOK /\ CacheOK /\ StreamOK
  BY DEF IInv
<1>2. /\ UNCHANGED <<size, version, handles, filename, offset, requests, wire, alive, connected, status, cpu, late, spoiled>>
      /\ reader = "poll" /\ cpu = "run" /\ chunk # <<>> /\ chunk' = <<>>
      /\ got' = got \o Tail(chunk)
      /\ reader' \in {"close", "ask"}
      /\ (status = "eof" /\ result' = "done") \/ (status # "eof" /\ result' = result)
  BY DEF Take, server, channel, history
<1>3. chunk \in Seq(Data) /\ got \in Seq(Data) /\ offset \in Nat
  BY <1>1 DEF TypeOK
<1>4. PICK rest, new : rest = Tail(chunk) /\ new = got'
  OBVIOUS
<1>5. rest \in Seq(Data) /\ Len(rest) = Len(chunk) - 1 /\ Len(chunk) \in Nat /\ Len(chunk) >= 1
      /\ \A i \in 1..(Len(chunk) - 1) : rest[i] = chunk[i + 1]
  BY <1>2, <1>3, <1>4
<1>6. IsJoined(got, rest, new, Len(got))
  BY <1>2, <1>3, <1>4, <1>5, Joined, Zenon
<1>7. /\ new \in Seq(Data) /\ Len(new) = Len(got) + Len(rest) /\ Len(got) \in Nat
      /\ \A i \in 1..Len(got) : new[i] = got[i]
      /\ \A i \in 1..Len(rest) : new[Len(got) + i] = rest[i]
  BY <1>3, <1>6 DEF IsJoined
<1>8. Fixed
  BY <1>2 DEF Fixed
<1>9. TypeOK'
  <2>1. \A S : chunk' \in Seq(S)
    BY <1>2
  <2>2. result' \in {"none", "done", "failed"}
    BY <1>1, <1>2 DEF TypeOK
  <2>3. got' \in Seq(Data)
    BY <1>4, <1>7
  <2> QED
    BY <1>1, <1>2, <2>1, <2>2, <2>3 DEF TypeOK
<1>10. TurnsOK' /\ ChannelOK'
  BY <1>1, <1>2 DEF TurnsOK, ChannelOK, Quiet
<1>11. CacheOK'
  BY <1>1, <1>2, <1>8, CacheKept
<1>12. StreamOK'
  <2> SUFFICES ASSUME ~spoiled PROVE StreamOK'
    BY <1>2 DEF StreamOK
  <2>1. Version' = Version /\ Size' = Size /\ Size \in Nat
    BY <1>1, <1>8, FixedFile, SizeType
  <2>2. /\ \A i \in 1..Len(got) : got[i] = <<Version, i>>
        /\ Len(got) <= Size /\ (result = "done" => Len(got) = Size)
        /\ offset = Len(got) + (Len(chunk) - 1) /\ offset <= Size
        /\ status = "eof" => offset = Size
    BY <1>1, <1>2 DEF StreamOK
  <2>3. \A i \in 2..Len(chunk) : chunk[i] = <<Version, Len(got) + (i - 1)>>
    BY <1>1, <1>2 DEF StreamOK
  <2>4. Len(new) = offset
    BY <1>5, <1>7, <2>2
  <2>5. ASSUME NEW i \in 1..Len(new) PROVE new[i] = <<Version, i>>
    <3>1. CASE i <= Len(got)
      <4>1. i \in 1..Len(got)
        BY <1>7, <3>1
      <4> QED
        BY <1>7, <2>2, <4>1
    <3>2. CASE i > Len(got)
      <4>1. PICK k \in 1..Len(rest) : i = Len(got) + k /\ k \in 1..(Len(chunk) - 1) /\ k + 1 \in 2..Len(chunk)
                                     /\ (k + 1) - 1 = k
        <5>1. /\ i - Len(got) \in 1..Len(rest) /\ i = Len(got) + (i - Len(got))
              /\ i - Len(got) \in 1..(Len(chunk) - 1) /\ (i - Len(got)) + 1 \in 2..Len(chunk)
              /\ ((i - Len(got)) + 1) - 1 = i - Len(got)
          BY <1>5, <1>7, <3>2
        <5> QED
          BY <5>1
      <4>2. new[i] = rest[k] /\ rest[k] = chunk[k + 1]
        BY <1>5, <1>7, <4>1
      <4>3. chunk[k + 1] = <<Version, Len(got) + k>>
        BY <2>3, <4>1
      <4> QED
        BY <4>1, <4>2, <4>3
    <3> QED
      BY <1>7, <3>1, <3>2
  <2>6. Len(new) <= Size /\ (result' = "done" => Len(new) = Size)
    <3>1. CASE status = "eof"
      BY <2>1, <2>2, <2>4, <3>1
    <3>2. CASE result' = result
      BY <1>5, <1>7, <2>1, <2>2, <2>4, <3>2
    <3> QED
      BY <1>2, <3>1, <3>2
  <2> QED
    BY <1>2, <1>4, <2>1, <2>4, <2>5, <2>6 DEF StreamOK
<1> QED
  BY <1>9, <1>10, <1>11, <1>12 DEF IInv

LEMMA NameStep ==
  ASSUME IInv, NEW n \in Names, Name(n)
  PROVE  IInv'
<1>1. TypeOK /\ TurnsOK /\ ChannelOK /\ CacheOK
  BY DEF IInv
<1>2. /\ UNCHANGED <<size, version, handles, requests, wire, cpu, late>>
      /\ reader = "idle" /\ cpu = "run" /\ reader' = "ask"
      /\ filename' = n /\ chunk' = <<>> /\ offset' = 0 /\ got' = <<>> /\ result' = "none"
      /\ status' \in {"idle", "error"}
      /\ spoiled' = (late \/ Handles(n) # {version[n]})
      /\ \/ UNCHANGED <<alive, connected>>
         \/ connected' = TRUE /\ alive' = (connected => alive)
  BY DEF Name, Connected, CannotConnect, server, channel
<1>3. alive \in BOOLEAN /\ connected \in BOOLEAN /\ (alive => connected) /\ (requests # <<>> => alive)
  BY <1>1 DEF TypeOK, TurnsOK
<1>4. alive' \in BOOLEAN /\ connected' \in BOOLEAN /\ (alive' => connected') /\ (alive => alive')
  <2>1. CASE UNCHANGED <<alive, connected>>
    BY <1>3, <2>1
  <2>2. CASE connected' = TRUE /\ alive' = (connected => alive)
    BY <2>2, Zenon
  <2> QED
    BY <1>2, <2>1, <2>2
<1>5. \A S : chunk' \in Seq(S) /\ got' \in Seq(S)
  BY <1>2
<1>6. TypeOK'
  BY <1>1, <1>2, <1>4, <1>5 DEF TypeOK
<1>7. TurnsOK'
  BY <1>2, <1>3, <1>4 DEF TurnsOK
<1>8. ChannelOK'
  BY <1>1, <1>2 DEF ChannelOK, Quiet
<1>9. CacheOK'
  <2>1. DOMAIN handles = 1..Len(handles)
    BY <1>1 DEF TypeOK
  <2>2. ASSUME Handles(n) = {version[n]}, NEW i \in 1..Len(handles), handles[i].name = n
        PROVE  handles[i].version = version[n]
    BY <2>1, <2>2 DEF Handles
  <2> QED
    BY <1>2, <2>2 DEF CacheOK, Version
<1>10. StreamOK'
  <2>1. Size' \in Nat
    <3>1. version[n] \in 0..MaxVersion /\ size[n] \in [1..MaxVersion -> Lengths]
      BY <1>1 DEF TypeOK
    <3>2. version[n] # 0 => size[n][version[n]] \in Nat
      <4> SUFFICES ASSUME version[n] # 0 PROVE size[n][version[n]] \in Nat
        OBVIOUS
      <4>1. version[n] \in 1..MaxVersion
        BY <3>1, Sizes
      <4>2. size[n][version[n]] \in Lengths
        BY <3>1, <4>1
      <4> QED
        BY <4>2, TransferAssumption
    <3>3. Size' = IF version[n] = 0 THEN 0 ELSE size[n][version[n]]
      BY <1>2 DEF Size, Version
    <3> QED
      BY <3>2, <3>3
  <2>2. Len(got') = 0 /\ chunk' = <<>> /\ offset' = 0 /\ result' = "none"
    BY <1>2
  <2> QED
    BY <2>1, <2>2 DEF StreamOK
<1> QED
  BY <1>6, <1>7, <1>8, <1>9, <1>10 DEF IInv

LEMMA ReceiveStep ==
  ASSUME IInv, Receive
  PROVE  IInv'
<1>1. TypeOK /\ TurnsOK /\ ChannelOK /\ CacheOK /\ StreamOK
  BY DEF IInv
<1>2. /\ UNCHANGED <<size, version, handles, filename, requests, alive, connected, got, reader, result, late, spoiled>>
      /\ cpu = "chunk" /\ cpu' = "run" /\ Len(wire) >= 2
  BY DEF Receive, server, program, history
<1>3. PICK s, c, n :
        /\ s \in {RespOk, RespEof} /\ c \in Byte
        /\ Value(wire[1], s) /\ Value(wire[2], c)
        /\ n = (IF c = 0 THEN ChunkSize ELSE c)
        /\ Len(wire) >= 2 + n /\ Received(s, c, n)
  BY DEF Receive
<1>4. chunk = <<>> /\ reader = "poll" /\ (late => spoiled)
  BY <1>1, <1>2 DEF TurnsOK
<1>5. wire \in Seq(Data) /\ offset \in Nat /\ got \in Seq(Data)
  BY <1>1 DEF TypeOK
<1>6. c \in Nat /\ c < ChunkSize /\ n \in Nat /\ n >= 1
  BY <1>3, Sizes DEF Byte
<1> DEFINE data == SubSeq(wire, 3, 2 + n)
           front == <<Control(c)>>
           rest == SubSeq(wire, 3 + n, Len(wire))
<1>7. /\ offset' = offset + n /\ status' = (IF s = RespEof THEN "eof" ELSE "ready")
      /\ chunk' = front \o data /\ wire' = rest
  BY <1>3 DEF Received
<1>8. /\ data \in Seq(Data) /\ Len(data) = n
      /\ \A i \in 1..n : data[i] = wire[2 + i]
  BY <1>3, <1>5, <1>6
<1>9. /\ rest \in Seq(Data)
      /\ Len(wire) = 2 + n => rest = <<>>
  BY <1>3, <1>5, <1>6
<1>10. front \in Seq(Data) /\ Len(front) = 1
  BY <1>6, ControlData
<1> HIDE DEF data, front, rest
<1>11. PICK new : new = chunk'
  OBVIOUS
<1>12. IsJoined(front, data, new, 1)
  BY <1>7, <1>8, <1>10, <1>11, Joined, Zenon
<1>13. /\ new \in Seq(Data) /\ Len(new) = 1 + n
       /\ \A i \in 1..n : new[1 + i] = wire[2 + i]
  BY <1>8, <1>12 DEF IsJoined
<1>14. Fixed
  BY <1>2 DEF Fixed
<1>15. TypeOK'
  <2>1. status' \in {"eof", "ready"}
    BY <1>7
  <2>2. offset' \in Nat /\ chunk' \in Seq(Data) /\ wire' \in Seq(Data)
    BY <1>5, <1>6, <1>7, <1>9, <1>11, <1>13
  <2> QED
    BY <1>1, <1>2, <2>1, <2>2 DEF TypeOK
<1>16. TurnsOK'
  BY <1>1, <1>2, <1>4 DEF TurnsOK
<1>17. CacheOK'
  BY <1>1, <1>2, <1>14, CacheKept
\* While the answers are in step, this is the one to the request.
<1>18. ASSUME ~late
       PROVE  /\ requests = <<>> /\ Len(wire) = 2 + n
              /\ ~spoiled => /\ offset + n <= Size
                             /\ s = RespEof => offset + n = Size
                             /\ \A i \in 3..Len(wire) : wire[i] = <<Version, offset + (i - 2)>>
  <2>1. requests = <<>> /\ Answered
    BY <1>1, <1>2, <1>18 DEF ChannelOK, Answering
  <2>2. PICK len \in 1..ChunkSize : AnswerOf(len)
    BY <2>1 DEF Answered
  <2>3. s \in Nat /\ s < RespError /\ RespError \in Nat /\ RespOk \in Nat /\ RespEof \in Nat
    BY <1>3, Sizes DEF RespOk, RespEof, RespError
  <2>4. PICK b \in {RespOk, RespEof, RespError} : wire[1] = Control(b)
    BY <1>2, <2>2 DEF AnswerOf
  <2>5. b = s /\ wire[1] # Control(RespError)
    <3>1. wire[1][1] = 0 /\ wire[1][2] = b /\ Control(s)[2] = s /\ Control(RespError)[2] = RespError
      BY <2>3, <2>4, ControlData
    <3>2. wire[1] = Control(s)
      BY <1>3, <3>1 DEF Value
    <3>3. b = s
      BY <3>1, <3>2
    <3> QED
      BY <2>3, <3>1, <3>2, <3>3
  <2>6. wire[2] = Control(len % ChunkSize) /\ Len(wire) <= 2 + len
    BY <1>2, <2>2, <2>5 DEF AnswerOf
  <2>7. c = len % ChunkSize
    <3>1. len % ChunkSize \in Nat
      BY Sizes
    <3>2. wire[2][1] = 0 /\ wire[2][2] = len % ChunkSize /\ Control(c)[2] = c
      BY <1>6, <2>6, <3>1, ControlData
    <3> QED
      BY <1>3, <3>2 DEF Value
  <2>8. n = len
    <3>1. CASE len = ChunkSize
      <4>1. c = 0
        BY <2>7, <3>1, Sizes
      <4> QED
        BY <1>3, <3>1, <4>1
    <3>2. CASE len < ChunkSize
      <4>1. c = len /\ len # 0
        BY <2>7, <3>2, Sizes
      <4> QED
        BY <1>3, <4>1
    <3> QED
      BY <3>1, <3>2, Sizes
  <2>9. Len(wire) = 2 + n
    BY <1>3, <1>5, <1>6, <2>6, <2>8
  <2>10. ASSUME ~spoiled
         PROVE  /\ offset + n <= Size
                /\ s = RespEof => offset + n = Size
                /\ \A i \in 3..Len(wire) : wire[i] = <<Version, offset + (i - 2)>>
    BY <1>2, <2>2, <2>4, <2>5, <2>8, <2>10 DEF AnswerOf
  <2> QED
    BY <2>1, <2>9, <2>10
<1>19. ChannelOK'
  BY <1>2, <1>7, <1>9, <1>18 DEF ChannelOK, Quiet
<1>20. StreamOK'
  <2> SUFFICES ASSUME ~spoiled PROVE StreamOK'
    BY <1>2 DEF StreamOK
  <2>1. Version' = Version /\ Size' = Size /\ Size \in Nat
    BY <1>1, <1>14, FixedFile, SizeType
  <2>2. /\ \A i \in 1..Len(got) : got[i] = <<Version, i>>
        /\ Len(got) <= Size /\ (result = "done" => Len(got) = Size)
        /\ offset = Len(got)
    BY <1>1, <1>4 DEF StreamOK
  <2>3. /\ offset + n <= Size
        /\ s = RespEof => offset + n = Size
        /\ \A i \in 3..Len(wire) : wire[i] = <<Version, offset + (i - 2)>>
        /\ Len(wire) = 2 + n
    BY <1>4, <1>18
  <2>4. new # <<>>
    BY <1>6, <1>13
  <2>5. /\ offset' = Len(got) + (Len(new) - 1) /\ offset' <= Size
        /\ status' = "eof" => offset' = Size
    BY <1>5, <1>6, <1>7, <1>13, <2>2, <2>3
  <2>6. ASSUME NEW i \in 2..Len(new) PROVE new[i] = <<Version, Len(got) + (i - 1)>>
    <3>1. PICK k \in 1..n : i = 1 + k /\ i - 1 = k /\ 2 + k \in 3..Len(wire) /\ (2 + k) - 2 = k
      <4>1. i - 1 \in 1..n /\ i = 1 + (i - 1) /\ 2 + (i - 1) \in 3..Len(wire) /\ (2 + (i - 1)) - 2 = i - 1
        BY <1>6, <1>13, <2>3
      <4> QED
        BY <4>1
    <3>2. new[i] = wire[2 + k]
      BY <1>13, <3>1
    <3>3. wire[2 + k] = <<Version, offset + k>>
      BY <2>3, <3>1
    <3> QED
      BY <2>2, <3>1, <3>2, <3>3
  <2> QED
    BY <1>2, <1>11, <2>1, <2>2, <2>4, <2>5, <2>6 DEF StreamOK
<1> QED
  BY <1>15, <1>16, <1>17, <1>19, <1>20 DEF IInv

LEMMA StepIInv == IInv /\ [Next]_vars => IInv'
<1> SUFFICES ASSUME IInv, [Next]_vars PROVE IInv'
  OBVIOUS
<1>1. CASE Server
  BY <1>1, ServeChunkStep, ServeCloseStep DEF Server
<1>2. CASE Client
  <2>1. ASSUME ReceiveError \/ ReceiveFails PROVE cpu = "chunk" /\ Dropped
    BY <2>1 DEF ReceiveError, ReceiveFails
  <2> QED
    BY <1>2, <2>1, RequestStep, ReceiveStep, DroppedStep, TakeStep, GiveUpStep, CloseStep,
       CloseAnsweredStep DEF Client
<1>3. CASE Restart
  BY <1>3, RestartStep
<1>4. ASSUME NEW n \in Names, Name(n) \/ OtherClient(n) \/ Replace(n)
      PROVE  IInv'
  BY <1>4, NameStep, OtherClientStep, ReplaceStep
<1>5. CASE UNCHANGED vars
  <2>1. /\ UNCHANGED <<size, version, handles, requests, wire, alive, connected, filename, offset>>
        /\ UNCHANGED <<status, chunk, cpu, reader, got, result, late, spoiled>>
    BY <1>5 DEF vars, server, channel, client, program, history
  <2>2. TypeOK /\ TurnsOK /\ ChannelOK
    BY DEF IInv
  <2>3. TypeOK' /\ TurnsOK'
    BY <2>1, <2>2 DEF TypeOK, TurnsOK
  <2>4. Version' = Version /\ Size' = Size
    BY <2>1 DEF Version, Size
  <2>5. ChannelOK'
    BY <2>1, <2>2, <2>4 DEF ChannelOK, Quiet, Closing, Answering, Answered, AnswerOf, Asked
  <2> QED
    BY <2>1, <2>3, <2>5, CalmStep
<1> QED
  BY <1>1, <1>2, <1>3, <1>4, <1>5 DEF Next

LEMMA Invariant == Spec => []IInv
  BY InitIInv, StepIInv, PTL DEF Spec

\* Every variable keeps its type: the server's cache never holds more handles than it may,
\* and a connection that is served is one the client has (remote_ft_server.py:49-130,
\* files_io.c:64-104).
THEOREM TypeCorrect == Spec => []TypeOK
<1>1. IInv => TypeOK
  BY DEF IInv
<1> QED
  BY <1>1, Invariant, PTL

LEMMA FileIs ==
  ASSUME TypeOK
  PROVE  File \in Seq(Data) /\ Len(File) = Size /\ \A i \in 1..Size : File[i] = <<Version, i>>
<1>1. Size \in Nat /\ Version \in 0..MaxVersion
  BY SizeType
<1>2. CASE Version = 0
  BY <1>2 DEF File, Size, Version
<1>3. CASE Version # 0
  <2>1. File = [i \in 1..Size |-> <<Version, i>>]
    BY <1>3 DEF File, Content, Size, Version
  <2>2. \A i \in 1..Size : <<Version, i>> \in Data
    BY <1>1 DEF Data
  <2> HIDE DEF File
  <2> QED
    BY <1>1, <2>1, <2>2
<1> QED
  BY <1>2, <1>3

\* Over time-outs, dropped connections, restarts of the server and repeated requests the
\* program reads the file from its beginning, nothing twice and nothing left out
\* (send_get_chunk, files_io.c:270-361; _handle_get_chunk, remote_ft_server.py:249-336).
THEOREM Prefix == Spec => []FilePrefix
<1>1. ASSUME IInv, ~spoiled PROVE IsPrefix(got, File)
  <2>1. File \in Seq(Data) /\ Len(File) = Size /\ \A i \in 1..Size : File[i] = <<Version, i>>
    BY <1>1, FileIs DEF IInv
  <2>2. /\ got \in Seq(Data) /\ Len(got) <= Size /\ Size \in Nat
        /\ \A i \in 1..Len(got) : got[i] = <<Version, i>>
    BY <1>1, SizeType DEF IInv, TypeOK, StreamOK
  <2>3. PICK f, g : f = File /\ g = got
    OBVIOUS
  <2>4. Len(g) \in 0..Len(f) /\ f \in Seq(Data) /\ g \in Seq(Data)
    BY <2>1, <2>2, <2>3
  <2>5. \A i \in 1..Len(g) : f[i] = g[i]
    <3>1. \A i \in 1..Len(g) : i \in 1..Size
      BY <2>2, <2>3
    <3>2. \A i \in 1..Len(g) : g[i] = <<Version, i>>
      BY <2>2, <2>3
    <3>3. \A i \in 1..Size : f[i] = <<Version, i>>
      BY <2>1, <2>3
    <3> QED
      BY <3>1, <3>2, <3>3
  <2>6. SubSeq(f, 1, Len(g)) = SubSeq(g, 1, Len(g))
    BY <2>4, <2>5
  <2> QED
    BY <2>3, <2>4, <2>6 DEF IsPrefix
<1>2. IInv => FilePrefix
  BY <1>1 DEF FilePrefix
<1> QED
  BY <1>2, Invariant, PTL

\* A transfer that ends well has read the whole file, also when its last chunk is a full
\* one, which is counted as 0 (files_io.c:335-361, remote_ft_server.py:318-336).
THEOREM Whole == Spec => []DoneIsWhole
<1>1. ASSUME IInv, ~spoiled, result = "done" PROVE got = File
  <2>1. File \in Seq(Data) /\ Len(File) = Size /\ \A i \in 1..Size : File[i] = <<Version, i>>
    BY <1>1, FileIs DEF IInv
  <2>2. /\ got \in Seq(Data) /\ Len(got) = Size /\ Size \in Nat
        /\ \A i \in 1..Len(got) : got[i] = <<Version, i>>
    BY <1>1, SizeType DEF IInv, TypeOK, StreamOK
  <2>3. PICK f, g : f = File /\ g = got
    OBVIOUS
  <2>4. f \in Seq(Data) /\ g \in Seq(Data) /\ Len(f) = Len(g) /\ \A i \in 1..Len(g) : f[i] = g[i]
    BY <2>1, <2>2, <2>3
  <2>5. f = g
    BY <2>4
  <2> QED
    BY <2>3, <2>5
<1>2. IInv => DoneIsWhole
  BY <1>1 DEF DoneIsWhole
<1> QED
  BY <1>2, Invariant, PTL

-----------------------------------------------------------------------------
(* FileTransfer implements StreamCopy *)

\* A program that still asks or polls was not told how its transfer ended; and a flag.
Untold == (reader \in {"ask", "poll"} => result = "none") /\ spoiled \in BOOLEAN

LEMMA StepUntold ==
  ASSUME Untold, [Next]_vars
  PROVE  Untold'
<1>1. CASE UNCHANGED <<program, spoiled>>
  BY <1>1 DEF program, Untold
<1>2. ASSUME NEW n \in Names, Name(n)
      PROVE  Untold'
  BY <1>2 DEF Name, Untold
<1>3. CASE Request \/ Take \/ GiveUp \/ Retry \/ Close
  BY <1>3 DEF Request, Take, GiveUp, Retry, Close, history, Untold
<1>4. CASE Server \/ Receive \/ ReceiveError \/ ReceiveFails \/ CloseAnswered \/ Restart
  BY <1>1, <1>4 DEF Server, ServeChunk, ServeClose, Receive, ReceiveError, ReceiveFails, Dropped,
                    CloseAnswered, Restart, history
<1>5. ASSUME NEW n \in Names, OtherClient(n)
      PROVE  Untold'
  BY <1>1, <1>5 DEF OtherClient, history
<1>6. ASSUME NEW n \in Names, Replace(n)
      PROVE  Untold'
  <2>1. UNCHANGED program /\ spoiled' \in BOOLEAN
    BY <1>6 DEF Replace
  <2> QED
    BY <2>1 DEF program, Untold
<1> QED
  BY <1>1, <1>2, <1>3, <1>4, <1>5, <1>6 DEF Next, Client, vars, history

LEMMA SamePrefix ==
  ASSUME NEW s, NEW t, IsPrefix(s, t)
  PROVE  Copies!IsPrefix(s, t)
  BY DEF IsPrefix, Copies!IsPrefix

LEMMA AppendedPrefix ==
  ASSUME NEW s \in Seq(Data), NEW t \in Seq(Data)
  PROVE  Copies!IsPrefix(s, s \o t)
<1> DEFINE u == s \o t
<1>1. u \in Seq(Data) /\ Len(u) = Len(s) + Len(t) /\ \A i \in 1..Len(s) : u[i] = s[i]
  OBVIOUS
<1> HIDE DEF u
<1>2. Len(s) \in Nat /\ Len(t) \in Nat /\ Len(s) <= Len(u)
  BY <1>1
<1>3. SubSeq(s, 1, Len(s)) = SubSeq(u, 1, Len(s))
  BY <1>1, <1>2
<1>4. Copies!IsPrefix(s, u)
  BY <1>2, <1>3 DEF Copies!IsPrefix
<1> QED
  BY <1>4 DEF u

\* What the copy of the mapping sees of a state.
seen == <<started, size, version, filename, got, result, spoiled>>

LEMMA CopyUnchanged ==
  ASSUME UNCHANGED seen
  PROVE  UNCHANGED Copies!vars
  BY DEF seen, Copies!vars, File, Content

LEMMA CopyTakes ==
  ASSUME TypeOK, FilePrefix', DoneIsWhole', Untold, Take
  PROVE  Copies!Read \/ Copies!Unpromised
<1>1. /\ got' = got \o Tail(chunk) /\ chunk # <<>> /\ result = "none"
      /\ result' \in {"done", "none"}
      /\ UNCHANGED <<started, size, version, filename, spoiled>>
  BY DEF Take, Untold, server, history
<1>2. CASE spoiled
  BY <1>1, <1>2 DEF Copies!Unpromised
<1>3. CASE ~spoiled
  <2>1. Copies!IsPrefix(got, got')
    <3>1. Tail(chunk) \in Seq(Data) /\ got \in Seq(Data)
      BY <1>1 DEF TypeOK
    <3> QED
      BY <1>1, <3>1, AppendedPrefix
  <2>2. File' = File /\ ~spoiled'
    BY <1>1, <1>3 DEF File, Content
  <2>3. Copies!IsPrefix(got', File)
    BY <2>2, SamePrefix DEF FilePrefix
  <2>4. result' = "done" => got' = File
    BY <2>2 DEF DoneIsWhole
  <2> QED
    BY <1>1, <1>3, <2>1, <2>2, <2>3, <2>4 DEF Copies!Read
<1> QED
  BY <1>2, <1>3

LEMMA CopyGivenUp ==
  ASSUME TypeOK, FilePrefix, Untold, GiveUp
  PROVE  Copies!Read \/ Copies!Unpromised
<1>1. /\ result = "none" /\ result' = "failed"
      /\ UNCHANGED <<started, size, version, filename, got, spoiled>>
  BY DEF GiveUp, Untold, server, client, history
<1>2. CASE spoiled
  BY <1>1, <1>2 DEF Copies!Unpromised
<1>3. CASE ~spoiled
  <2>1. Copies!IsPrefix(got, File)
    BY <1>3, SamePrefix DEF FilePrefix
  <2>2. Copies!IsPrefix(got, got')
    BY <1>1 DEF Copies!IsPrefix, TypeOK
  <2>3. File' = File
    BY <1>1 DEF File, Content
  <2> QED
    BY <1>1, <1>3, <2>1, <2>2, <2>3 DEF Copies!Read
<1> QED
  BY <1>2, <1>3

LEMMA CopyStep ==
  /\ IInv /\ FilePrefix /\ FilePrefix' /\ DoneIsWhole' /\ Untold
  /\ [Next]_vars
  => [Copies!Next]_(Copies!vars)
<1> SUFFICES ASSUME IInv, FilePrefix, FilePrefix', DoneIsWhole', Untold, [Next]_vars
             PROVE  Copies!Next \/ UNCHANGED Copies!vars
  OBVIOUS
<1>1. CASE UNCHANGED seen
  BY <1>1, CopyUnchanged
<1>2. CASE UNCHANGED vars \/ Server \/ Restart
  BY <1>1, <1>2 DEF vars, Server, ServeChunk, ServeClose, Restart, seen, server, client,
                    program, history
<1>3. CASE Request \/ Receive \/ ReceiveError \/ ReceiveFails \/ Retry \/ Close \/ CloseAnswered
  <2>1. UNCHANGED seen
    BY <1>3 DEF Request, Receive, Received, ReceiveError, ReceiveFails, Dropped, Retry, Close,
                CloseAnswered, seen, server, client, program, history
  <2> QED
    BY <1>1, <2>1
<1>4. CASE Take \/ GiveUp
  BY <1>4, CopyTakes, CopyGivenUp DEF IInv, Copies!Next
<1>5. ASSUME NEW n \in Names, Name(n)
      PROVE  Copies!Begin
  BY <1>5 DEF Name, Copies!Begin
<1>6. ASSUME NEW n \in Names, OtherClient(n)
      PROVE  UNCHANGED seen
  BY <1>6 DEF OtherClient, seen, server, client, program, history
<1>7. ASSUME NEW n \in Names, Replace(n)
      PROVE  Copies!Spoil \/ UNCHANGED Copies!vars
  <2>1. /\ UNCHANGED <<started, size, filename, got, result>>
        /\ \E v : version' = [version EXCEPT ![n] = v]
        /\ spoiled' = (spoiled \/ n = filename)
    BY <1>7 DEF Replace, client, program
  <2>2. CASE n = filename
    BY <2>1, <2>2 DEF Copies!Spoil
  <2>3. CASE n # filename
    <3>1. version'[filename] = version[filename]
      BY <2>1, <2>3 DEF IInv, TypeOK
    <3>2. spoiled' = spoiled
      BY <2>1, <2>3 DEF Untold
    <3> QED
      BY <2>1, <3>1, <3>2 DEF Copies!vars, File, Content
  <2> QED
    BY <2>2, <2>3
<1> QED
  BY <1>1, <1>2, <1>3, <1>4, <1>5, <1>6, <1>7 DEF Next, Client, Copies!Next

\* Over chunks, handles, time-outs and dropped connections, a transfer is a copy of its
\* file, as long as nobody replaces it and no answer is out of step.
THEOREM TransferImplements == Spec => Implements
<1>1. Init => Copies!Init /\ Untold
  BY DEF Init, Copies!Init, Untold
<1>2. Untold /\ [Next]_vars => Untold'
  BY StepUntold
<1> QED
  BY <1>1, <1>2, CopyStep, Invariant, Prefix, Whole, PTL DEF Spec, Implements, Copies!Spec

=============================================================================
