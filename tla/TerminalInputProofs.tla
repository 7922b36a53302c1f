------------------------- MODULE TerminalInputProofs -------------------------
(***************************************************************************)
(* Proofs about TerminalInput, for every number of sessions, every size of *)
(* the input queue and of the line, and messages of any length: the queue  *)
(* is a FIFO, each session's characters are read in the order they were    *)
(* typed, and the monitor's line is what was typed for it.                 *)
(***************************************************************************)
EXTENDS TerminalInput, SequenceTheorems, TLAPS

Cell == Chars \union {None}

-----------------------------------------------------------------------------
(* The ring buffer *)

LEMMA Remainder ==
  ASSUME NEW N \in Nat \ {0}, NEW r \in 0..(N - 1)
  PROVE  r % N = r /\ (r + N) % N = r /\ (r - N) % N = r
OBVIOUS

QueueOK(q) ==
  /\ q \in [buffer : [Slots -> Cell], head : Slots, tail : Slots, count : 0..QueueSize]
  /\ q.tail = (q.head + q.count) % QueueSize

\* The place in the ring that is k behind h.
LEMMA Places ==
  ASSUME NEW h \in Slots, NEW k \in 0..QueueSize
  PROVE  /\ (h + k) % QueueSize \in Slots
         /\ (h + k) % QueueSize = IF h + k < QueueSize THEN h + k ELSE h + k - QueueSize
<1>1. QueueSize \in Nat \ {0}
  BY InputAssumption
<1>2. CASE h + k < QueueSize
  BY <1>1, <1>2, Remainder DEF Slots
<1>3. CASE h + k >= QueueSize
  <2> DEFINE r == h + k - QueueSize
  <2>1. r \in 0..(QueueSize - 1)
    BY <1>1, <1>3 DEF Slots
  <2>2. (r + QueueSize) % QueueSize = r
    BY <1>1, <2>1, Remainder
  <2>3. r + QueueSize = h + k
    BY <1>1 DEF Slots
  <2> QED
    BY <1>1, <1>3, <2>1, <2>2, <2>3 DEF Slots
<1> QED
  BY <1>1, <1>2, <1>3 DEF Slots

\* How far place p is behind place t.
LEMMA Distances ==
  ASSUME NEW t \in Slots, NEW p \in Slots
  PROVE  (p - t) % QueueSize = IF p >= t THEN p - t ELSE p - t + QueueSize
<1>1. QueueSize \in Nat \ {0}
  BY InputAssumption
<1>2. CASE p >= t
  BY <1>1, <1>2, Remainder DEF Slots
<1>3. CASE p < t
  <2> DEFINE r == p - t + QueueSize
  <2>1. r \in 0..(QueueSize - 1)
    BY <1>1, <1>3 DEF Slots
  <2>2. (r - QueueSize) % QueueSize = r
    BY <1>1, <2>1, Remainder
  <2>3. r - QueueSize = p - t
    BY <1>1 DEF Slots
  <2> QED
    BY <1>3, <2>2, <2>3 DEF Slots
<1> QED
  BY <1>1, <1>2, <1>3 DEF Slots

LEMMA ContentsIsSeq ==
  ASSUME NEW q, QueueOK(q)
  PROVE  /\ Contents(q) \in Seq(Cell) /\ Len(Contents(q)) = q.count
         /\ \A i \in 1..q.count : Contents(q)[i] = q.buffer[(q.head + i - 1) % QueueSize]
<1>1. q.count \in Nat /\ q.count <= QueueSize /\ QueueSize \in Nat
  BY InputAssumption DEF QueueOK
<1>2. \A i \in 1..q.count : q.buffer[(q.head + i - 1) % QueueSize] \in Cell
  <2> SUFFICES ASSUME NEW i \in 1..q.count
               PROVE  q.buffer[(q.head + i - 1) % QueueSize] \in Cell
    OBVIOUS
  <2>1. i - 1 \in 0..QueueSize /\ q.head + (i - 1) = q.head + i - 1 /\ q.head \in Slots
    BY <1>1 DEF QueueOK, Slots
  <2>2. (q.head + i - 1) % QueueSize \in Slots
    BY <2>1, Places
  <2> QED
    BY <2>2 DEF QueueOK
<1>3. Contents(q) \in [1..q.count -> Cell]
  BY <1>2 DEF Contents
<1>4. \A i \in 1..q.count : Contents(q)[i] = q.buffer[(q.head + i - 1) % QueueSize]
  BY DEF Contents
<1>5. ASSUME NEW n \in Nat, NEW f \in [1..n -> Cell]
      PROVE  f \in Seq(Cell) /\ Len(f) = n
  OBVIOUS
<1> QED
  BY <1>1, <1>3, <1>4, <1>5

\* terminal_enqueue_input_command appends what it puts into the ring.
LEMMA PutContents ==
  ASSUME NEW q, QueueOK(q), NEW s \in Seq(Chars), q.count + Len(s) <= QueueSize
  PROVE  QueueOK(Put(q, s)) /\ Contents(Put(q, s)) = Contents(q) \o s
<1> DEFINE p == Put(q, s)
           offset(i) == (i - q.tail) % QueueSize
<1>1. /\ QueueSize \in Nat \ {0} /\ q.count \in 0..QueueSize
      /\ q.head \in Slots /\ q.tail \in Slots /\ q.buffer \in [Slots -> Cell]
      /\ q.tail = (q.head + q.count) % QueueSize
  BY InputAssumption DEF QueueOK
<1>2. Len(s) \in Nat /\ s \in [1..Len(s) -> Chars]
  OBVIOUS
<1>3. /\ p.head = q.head /\ p.count = q.count + Len(s)
      /\ p.tail = (q.tail + Len(s)) % QueueSize
      /\ p.buffer = [i \in Slots |-> IF offset(i) < Len(s) THEN s[offset(i) + 1] ELSE q.buffer[i]]
      /\ DOMAIN p = {"buffer", "head", "tail", "count"}
      /\ p = [buffer |-> p.buffer, head |-> p.head, tail |-> p.tail, count |-> p.count]
  BY DEF Put
<1>4. \A i \in Slots : offset(i) \in 0..(QueueSize - 1)
  <2> SUFFICES ASSUME NEW i \in Slots
               PROVE  offset(i) \in 0..(QueueSize - 1)
    OBVIOUS
  <2>1. offset(i) = IF i >= q.tail THEN i - q.tail ELSE i - q.tail + QueueSize
    BY <1>1, Distances
  <2>2. q.tail \in 0..(QueueSize - 1) /\ i \in 0..(QueueSize - 1)
    BY <1>1 DEF Slots
  <2> HIDE DEF offset
  <2> QED
    BY <1>1, <2>1, <2>2
<1>5. p.buffer \in [Slots -> Cell]
  <2>1. ASSUME NEW i \in Slots, offset(i) < Len(s)
        PROVE  s[offset(i) + 1] \in Cell
    <3>1. offset(i) + 1 \in 1..Len(s)
      BY <1>1, <1>2, <1>4, <2>1
    <3> QED
      BY <1>2, <3>1 DEF Cell
  <2> HIDE DEF p, offset
  <2> QED
    BY <1>1, <1>3, <2>1
<1>6. p.tail = (p.head + p.count) % QueueSize /\ p.tail \in Slots
  <2> DEFINE n == Len(s)
             h == q.head
             t == q.tail
             c == q.count
  <2>1. /\ n \in 0..QueueSize /\ c \in 0..QueueSize /\ c + n \in 0..QueueSize
        /\ h \in Slots /\ t \in Slots /\ QueueSize \in Nat \ {0} /\ t = (h + c) % QueueSize
    BY <1>1, <1>2
  <2>2. p.tail = (t + n) % QueueSize /\ p.head = h /\ p.count = c + n
    BY <1>3
  <2> HIDE DEF n, h, t, c, p
  <2>3. t = IF h + c < QueueSize THEN h + c ELSE h + c - QueueSize
    BY <2>1, Places
  <2>4. /\ (t + n) % QueueSize = IF t + n < QueueSize THEN t + n ELSE t + n - QueueSize
        /\ (t + n) % QueueSize \in Slots
    BY <2>1, Places
  <2>5. (h + (c + n)) % QueueSize
          = IF h + (c + n) < QueueSize THEN h + (c + n) ELSE h + (c + n) - QueueSize
    BY <2>1, Places
  <2>6. (t + n) % QueueSize = (h + (c + n)) % QueueSize
    BY <2>1, <2>3, <2>4, <2>5 DEF Slots
  <2> QED
    BY <2>2, <2>4, <2>6
<1>7. QueueOK(p)
  <2>1. p.count \in 0..QueueSize /\ p.head \in Slots
    BY <1>1, <1>2, <1>3
  <2> HIDE DEF p
  <2> QED
    BY <1>3, <1>5, <1>6, <2>1 DEF QueueOK
<1>8. Contents(p) = Contents(q) \o s
  <2>1. /\ Contents(p) \in Seq(Cell) /\ Len(Contents(p)) = p.count
        /\ \A i \in 1..p.count : Contents(p)[i] = p.buffer[(p.head + i - 1) % QueueSize]
    BY <1>7, ContentsIsSeq
  <2>2. /\ Contents(q) \in Seq(Cell) /\ Len(Contents(q)) = q.count
        /\ \A i \in 1..q.count : Contents(q)[i] = q.buffer[(q.head + i - 1) % QueueSize]
    BY ContentsIsSeq
  <2>3. s \in Seq(Cell)
    BY DEF Cell
  <2>4. /\ Contents(q) \o s \in Seq(Cell) /\ Len(Contents(q) \o s) = q.count + Len(s)
        /\ \A i \in 1..(q.count + Len(s)) :
             (Contents(q) \o s)[i] = IF i <= q.count THEN Contents(q)[i] ELSE s[i - q.count]
    BY <2>2, <2>3, ConcatProperties
  <2>5. ASSUME NEW i \in 1..(q.count + Len(s))
        PROVE  Contents(p)[i] = (Contents(q) \o s)[i]
    <3> DEFINE a == (q.head + i - 1) % QueueSize
               h == q.head
               t == q.tail
               c == q.count
    <3>1. /\ i - 1 \in 0..QueueSize /\ c \in 0..QueueSize /\ i \in Nat \ {0} /\ i <= QueueSize
          /\ h \in Slots /\ t \in Slots /\ QueueSize \in Nat \ {0} /\ t = (h + c) % QueueSize
          /\ a = (h + (i - 1)) % QueueSize
      BY <1>1, <1>2
    <3>2. Contents(p)[i] = p.buffer[a]
      BY <1>3, <2>1
    <3>8. Contents(p)[i] = IF offset(a) < Len(s) THEN s[offset(a) + 1] ELSE q.buffer[a]
      <4>1. a \in Slots
        BY <3>1, Places
      <4> HIDE DEF a, offset, p
      <4> QED
        BY <1>3, <3>2, <4>1
    <3>9. offset(a) = (a - t) % QueueSize
      OBVIOUS
    <3>10. i <= c => Contents(q)[i] = q.buffer[a]
      BY <2>2, <3>1
    <3>11. (Contents(q) \o s)[i] = IF i <= c THEN q.buffer[a] ELSE s[i - c]
      BY <2>4, <3>10
    <3> HIDE DEF a, h, t, c, p, offset
    <3>3. /\ a = IF h + (i - 1) < QueueSize THEN h + (i - 1) ELSE h + (i - 1) - QueueSize
          /\ a \in Slots
      BY <3>1, Places
    <3>4. t = IF h + c < QueueSize THEN h + c ELSE h + c - QueueSize
      BY <3>1, Places
    <3>5. offset(a) = IF a >= t THEN a - t ELSE a - t + QueueSize
      BY <3>1, <3>3, <3>9, Distances
    <3>6. c + Len(s) <= QueueSize /\ i <= c + Len(s) /\ Len(s) \in Nat
      BY <1>2 DEF c
    <3>12. CASE i <= c
      <4>1. offset(a) = QueueSize - c + (i - 1)
        BY <3>1, <3>3, <3>4, <3>5, <3>12 DEF Slots
      <4>2. ~(offset(a) < Len(s))
        BY <3>1, <3>6, <3>12, <4>1
      <4> QED
        BY <3>8, <3>11, <3>12, <4>2
    <3>13. CASE i > c
      <4>1. offset(a) = i - 1 - c
        BY <3>1, <3>3, <3>4, <3>5, <3>13 DEF Slots
      <4>2. offset(a) < Len(s) /\ offset(a) + 1 = i - c
        BY <3>1, <3>6, <3>13, <4>1
      <4> QED
        BY <3>1, <3>8, <3>11, <3>13, <4>2
    <3>14. i <= c \/ i > c
      BY <3>1
    <3> QED
      BY <3>12, <3>13, <3>14
  <2>6. Len(Contents(p)) = Len(Contents(q) \o s) /\ p.count = q.count + Len(s)
    BY <1>3, <2>1, <2>4
  <2> HIDE DEF p
  <2> QED
    BY <2>1, <2>4, <2>5, <2>6, SeqEqual
<1> QED
  BY <1>7, <1>8

\* dequeue_terminal_input_character takes the first character that is queued.
LEMMA WithoutContents ==
  ASSUME NEW q, QueueOK(q), q.count > 0
  PROVE  /\ QueueOK(Without(q)) /\ Head(Contents(q)) \in Cell
         /\ Contents(q) = <<Head(Contents(q))>> \o Contents(Without(q))
<1> DEFINE p == Without(q)
<1>1. /\ QueueSize \in Nat \ {0} /\ q.count \in 1..QueueSize
      /\ q.head \in Slots /\ q.tail \in Slots /\ q.buffer \in [Slots -> Cell]
      /\ q.tail = (q.head + q.count) % QueueSize
  BY InputAssumption DEF QueueOK
<1>2. /\ Contents(q) \in Seq(Cell) /\ Len(Contents(q)) = q.count
      /\ \A i \in 1..q.count : Contents(q)[i] = q.buffer[(q.head + i - 1) % QueueSize]
  BY ContentsIsSeq
<1>3. Head(Contents(q)) = Contents(q)[1] /\ Contents(q)[1] \in Cell
  BY <1>1, <1>2
<1>4. /\ p.count = q.count - 1 /\ p.buffer = q.buffer
      /\ p = [buffer |-> p.buffer, head |-> p.head, tail |-> p.tail, count |-> p.count]
      /\ q.count = 1 => p.head = 0 /\ p.tail = 0
      /\ q.count # 1 => p.head = (q.head + 1) % QueueSize /\ p.tail = q.tail
  <2>1. CASE q.count = 1
    <3>1. p = [q EXCEPT !.head = 0, !.tail = 0, !.count = 0]
      BY <2>1 DEF Without
    <3>2. p.head = 0 /\ p.tail = 0 /\ p.count = 0 /\ p.buffer = q.buffer
      BY <3>1 DEF QueueOK
    <3>3. p = [buffer |-> p.buffer, head |-> p.head, tail |-> p.tail, count |-> p.count]
      BY <3>1 DEF QueueOK
    <3> QED
      BY <2>1, <3>2, <3>3
  <2>2. CASE q.count # 1
    <3>1. p = [q EXCEPT !.head = (@ + 1) % QueueSize, !.count = @ - 1]
      BY <2>2 DEF Without
    <3>2. /\ p.head = (q.head + 1) % QueueSize /\ p.tail = q.tail /\ p.count = q.count - 1
          /\ p.buffer = q.buffer
      BY <3>1 DEF QueueOK
    <3>3. p = [buffer |-> p.buffer, head |-> p.head, tail |-> p.tail, count |-> p.count]
      BY <3>1 DEF QueueOK
    <3> QED
      BY <2>2, <3>2, <3>3
  <2> QED
    BY <2>1, <2>2
<1>5. QueueOK(p) /\ (q.count # 1 => \A i \in 1..p.count :
                       (p.head + i - 1) % QueueSize = (q.head + (i + 1) - 1) % QueueSize)
  <2>1. CASE q.count = 1
    <3>1. p.head = 0 /\ p.tail = 0 /\ p.count = 0 /\ 0 \in Slots /\ 0 \in 0..QueueSize
      BY <1>1, <1>4, <2>1 DEF Slots
    <3>2. (0 + 0) % QueueSize = 0
      BY <1>1, Remainder
    <3> HIDE DEF p
    <3>3. p.tail = (p.head + p.count) % QueueSize
      BY <3>1, <3>2
    <3> QED
      BY <1>1, <1>4, <2>1, <3>1, <3>3 DEF QueueOK
  <2>2. CASE q.count # 1
    <3> DEFINE h == q.head
               c == q.count
               g == p.head
    <3>1. /\ h \in Slots /\ c \in 2..QueueSize /\ QueueSize \in Nat \ {0, 1}
          /\ g = (h + 1) % QueueSize /\ p.count = c - 1
          /\ p.tail = (h + c) % QueueSize /\ p.tail \in Slots
      BY <1>1, <1>4, <2>2
    <3> HIDE DEF h, c, g, p
    <3>2. g \in Slots /\ g = IF h + 1 < QueueSize THEN h + 1 ELSE h + 1 - QueueSize
      BY <3>1, Places
    <3>3. p.tail = IF h + c < QueueSize THEN h + c ELSE h + c - QueueSize
      BY <3>1, Places
    <3>4. (g + (c - 1)) % QueueSize
            = IF g + (c - 1) < QueueSize THEN g + (c - 1) ELSE g + (c - 1) - QueueSize
      <4>1. c - 1 \in 0..QueueSize
        BY <3>1
      <4> QED
        BY <3>2, <4>1, Places
    <3>5. p.tail = (g + p.count) % QueueSize /\ p.count \in 0..QueueSize
      BY <3>1, <3>2, <3>3, <3>4 DEF Slots
    <3>6. QueueOK(p)
      BY <1>1, <1>4, <3>1, <3>2, <3>5 DEF QueueOK, g
    <3>7. ASSUME NEW i \in 1..p.count
          PROVE  (g + i - 1) % QueueSize = (h + (i + 1) - 1) % QueueSize
      <4>1. i - 1 \in 0..QueueSize /\ i \in 0..QueueSize
        BY <3>1
      <4>2. (g + (i - 1)) % QueueSize
              = IF g + (i - 1) < QueueSize THEN g + (i - 1) ELSE g + (i - 1) - QueueSize
        BY <3>2, <4>1, Places
      <4>3. (h + i) % QueueSize = IF h + i < QueueSize THEN h + i ELSE h + i - QueueSize
        BY <3>1, <4>1, Places
      <4>4. g + (i - 1) = g + i - 1 /\ h + i = h + (i + 1) - 1
        BY <3>1, <3>2, <4>1 DEF Slots
      <4>5. (g + (i - 1)) % QueueSize = (h + i) % QueueSize
        BY <3>1, <3>2, <4>1, <4>2, <4>3 DEF Slots
      <4> QED
        BY <4>4, <4>5
    <3> QED
      BY <2>2, <3>6, <3>7 DEF g, h, c
  <2> QED
    BY <2>1, <2>2
<1> HIDE DEF p
<1>6. /\ Contents(p) \in Seq(Cell) /\ Len(Contents(p)) = p.count
      /\ \A i \in 1..p.count : Contents(p)[i] = p.buffer[(p.head + i - 1) % QueueSize]
  BY <1>5, ContentsIsSeq
<1> DEFINE first == Contents(q)[1]
           all == <<first>> \o Contents(p)
<1>7. /\ <<first>> \in Seq(Cell) /\ Len(<<first>>) = 1 /\ <<first>>[1] = first
  BY <1>3
<1>8. /\ all \in Seq(Cell) /\ Len(all) = 1 + p.count
      /\ \A i \in 1..(1 + p.count) :
           all[i] = IF i <= 1 THEN <<first>>[i] ELSE Contents(p)[i - 1]
  BY <1>6, <1>7, ConcatProperties
<1>9. ASSUME NEW i \in 1..q.count
      PROVE  Contents(q)[i] = all[i]
  <2>1. CASE i = 1
    BY <1>1, <1>4, <1>7, <1>8, <2>1
  <2>2. CASE i # 1
    <3>1. i - 1 \in 1..p.count /\ q.count # 1 /\ (i - 1) + 1 = i
      BY <1>1, <1>4, <2>2
    <3>2. (p.head + (i - 1) - 1) % QueueSize = (q.head + i - 1) % QueueSize
      BY <1>5, <3>1
    <3>3. Contents(p)[i - 1] = q.buffer[(q.head + i - 1) % QueueSize]
      BY <1>4, <1>6, <3>1, <3>2
    <3>4. all[i] = Contents(p)[i - 1]
      BY <1>1, <1>4, <1>8, <2>2
    <3> QED
      BY <1>2, <3>3, <3>4
  <2> QED
    BY <2>1, <2>2
<1>10. Len(all) = q.count
  BY <1>1, <1>4, <1>8
<1>11. Contents(q) = all
  <2> HIDE DEF all
  <2> QED
    BY <1>2, <1>8, <1>9, <1>10, SeqEqual
<1> QED
  BY <1>3, <1>5, <1>11 DEF p
-----------------------------------------------------------------------------
(* The inductive invariant.  A message that is on its way to the queue holds the last    *)
(* characters its session typed; everything accepted before is older.                    *)

Steps == {"idle", "toggle", "return", "text", "run", "stop", "clear", "enqueue", "execute",
          "collect", "store", "done", "examine", "step", "reset", "boot", "start"}
Handling == [at : Steps, text : Seq(Chars), loaded : Nat]
ToQueue == {"return", "text", "enqueue"}
Modes == {"RUNNING", "STOPPED", "LOW_POWER"}

HandlerTypes ==
  /\ handler \in [Clients -> Handling]
  /\ typed \in [Clients -> Nat] /\ length \in Nat
  /\ \A c \in Clients : handler[c].at = "store" => handler[c].text # <<>>

LastTyped ==
  \A c \in Clients : handler[c].at \in ToQueue =>
    /\ Len(handler[c].text) <= typed[c]
    /\ \A i \in 1..Len(handler[c].text) :
         handler[c].text[i] = <<c, typed[c] - Len(handler[c].text) + i>>

HandlerOK == HandlerTypes /\ LastTyped

\* How many characters of a session were dealt with.
Sent(c) ==
  IF handler[c].at \in ToQueue THEN typed[c] - Len(handler[c].text) ELSE typed[c]

FifoOK == QueueOK(queue) /\ accepted \in Seq(Chars) /\ read \in Seq(Cell) /\ QueueIsFifo

InOrder(s) ==
  \A i, j \in 1..Len(s) : i < j /\ s[i][1] = s[j][1] => s[i][2] < s[j][2]

OrderOK ==
  /\ InOrder(accepted)
  /\ \A i \in 1..Len(accepted) : \A d \in Clients :
       accepted[i][1] = d => accepted[i][2] <= Sent(d)

IInv == mode \in Modes /\ HandlerOK /\ FifoOK /\ OrderOK

-----------------------------------------------------------------------------
(* The sessions' threads *)

\* A thread that goes on, and puts nothing new on its way to the queue.
LEMMA OneMoves ==
  ASSUME HandlerOK, NEW c \in Clients, NEW h \in Handling,
         handler' = [handler EXCEPT ![c] = h], typed' = typed, length' \in Nat,
         h.at = "store" => h.text # <<>>,
         h.at \in ToQueue => handler[c].at \in ToQueue /\ h.text = handler[c].text
  PROVE  HandlerOK' /\ \A d \in Clients : Sent(d)' >= Sent(d)
<1>1. handler' \in [Clients -> Handling] /\ handler'[c] = h
  BY DEF HandlerOK, HandlerTypes
<1>2. \A d \in Clients : d # c => handler'[d] = handler[d]
  BY DEF HandlerOK, HandlerTypes
<1>3. HandlerTypes'
  BY <1>1, <1>2 DEF HandlerOK, HandlerTypes
<1>4. LastTyped'
  <2> SUFFICES ASSUME NEW d \in Clients, handler'[d].at \in ToQueue
               PROVE  /\ Len(handler'[d].text) <= typed'[d]
                      /\ \A i \in 1..Len(handler'[d].text) :
                           handler'[d].text[i] = <<d, typed'[d] - Len(handler'[d].text) + i>>
    BY DEF LastTyped
  <2>1. handler[d].at \in ToQueue /\ handler'[d].text = handler[d].text
    BY <1>1, <1>2
  <2> QED
    BY <2>1 DEF HandlerOK, LastTyped
<1>5. ASSUME NEW d \in Clients
      PROVE  Sent(d)' >= Sent(d)
  <2>1. /\ typed[d] \in Nat /\ Len(handler[d].text) \in Nat
        /\ handler'[d].at \in ToQueue =>
             handler[d].at \in ToQueue /\ handler'[d].text = handler[d].text
    BY <1>1, <1>2 DEF HandlerOK, HandlerTypes, Handling
  <2> QED
    BY <2>1 DEF Sent
<1> QED
  BY <1>3, <1>4, <1>5 DEF HandlerOK

LEMMA NobodyMoves ==
  ASSUME HandlerOK, UNCHANGED <<handler, typed, length>>
  PROVE  HandlerOK' /\ \A d \in Clients : Sent(d)' >= Sent(d)
<1>1. \A d \in Clients : typed[d] \in Nat /\ Len(handler[d].text) \in Nat
  BY DEF HandlerOK, HandlerTypes, Handling
<1> QED
  BY <1>1 DEF HandlerOK, HandlerTypes, LastTyped, Sent

\* A step of a handler that is not on its way to the queue, or leaves it.
LEMMA StepMoves ==
  ASSUME HandlerOK, NEW c \in Clients, NEW to \in Steps, Step(c, to), typed' = typed,
         length' \in Nat, to # "store", to \in ToQueue => handler[c].at \in ToQueue
  PROVE  HandlerOK' /\ \A d \in Clients : Sent(d)' >= Sent(d)
<1> DEFINE h == [handler[c] EXCEPT !.at = to]
<1>1. handler[c] \in Handling
  BY DEF HandlerOK, HandlerTypes
<1>2. h \in Handling /\ h.at = to /\ h.text = handler[c].text
  BY <1>1 DEF Handling
<1>3. handler' = [handler EXCEPT ![c] = h]
  BY <1>1 DEF Step, HandlerOK, HandlerTypes, Handling
<1> HIDE DEF h
<1> QED
  BY <1>2, <1>3, OneMoves

LEMMA FinishMoves ==
  ASSUME HandlerOK, NEW c \in Clients, Finish(c), typed' = typed, length' \in Nat
  PROVE  HandlerOK' /\ \A d \in Clients : Sent(d)' >= Sent(d)
<1>1. Idle \in Handling /\ Idle.at = "idle"
  BY DEF Idle, Handling, Steps
<1>2. handler' = [handler EXCEPT ![c] = Idle]
  BY DEF Finish
<1> QED
  BY <1>1, <1>2, OneMoves DEF ToQueue

LEMMA MessageMoves ==
  ASSUME HandlerOK, NEW c \in Clients, Message(c)
  PROVE  HandlerOK' /\ \A d \in Clients : Sent(d)' >= Sent(d)
<1>1. length' \in Nat /\ handler[c] = Idle /\ Idle.at = "idle"
  BY DEF Message, command, HandlerOK, HandlerTypes, Idle
<1>2. CASE Step(c, "toggle") /\ UNCHANGED typed
  BY <1>1, <1>2, StepMoves DEF Steps, ToQueue
<1>3. ASSUME NEW n \in 1..MaxText, NEW to \in {"return", "text"},
             typed' = [typed EXCEPT ![c] = @ + n],
             handler' = [handler EXCEPT ![c] =
               [at |-> to, text |-> [i \in 1..n |-> <<c, typed[c] + i>>], loaded |-> 0]]
      PROVE  HandlerOK' /\ \A d \in Clients : Sent(d)' >= Sent(d)
  <2> DEFINE s == [i \in 1..n |-> <<c, typed[c] + i>>]
  <2>1. n \in Nat /\ typed[c] \in Nat
    BY InputAssumption DEF HandlerOK, HandlerTypes
  <2>2. s \in [1..n -> Chars]
    BY <2>1 DEF Chars
  <2>3. s \in Seq(Chars) /\ Len(s) = n
    <3> HIDE DEF s
    <3> QED
      BY <2>1, <2>2
  <2>4. \A i \in 1..n : s[i] = <<c, typed[c] + i>>
    OBVIOUS
  <2>5. typed' \in [Clients -> Nat] /\ typed'[c] = typed[c] + n
        /\ \A d \in Clients : d # c => typed'[d] = typed[d]
    BY <1>3, <2>1 DEF HandlerOK, HandlerTypes
  <2> HIDE DEF s
  <2> DEFINE h == [at |-> to, text |-> s, loaded |-> 0]
  <2>6. h \in Handling /\ h.at = to /\ h.text = s
    BY <2>3 DEF Handling, Steps
  <2>7. handler' = [handler EXCEPT ![c] = h]
    BY <1>3 DEF s
  <2> HIDE DEF h
  <2>8. /\ handler' \in [Clients -> Handling] /\ handler'[c] = h
        /\ \A d \in Clients : d # c => handler'[d] = handler[d]
    BY <2>6, <2>7 DEF HandlerOK, HandlerTypes
  <2>9. HandlerTypes'
    BY <1>1, <2>5, <2>6, <2>8 DEF HandlerOK, HandlerTypes
  <2>10. LastTyped'
    <3> SUFFICES ASSUME NEW d \in Clients, handler'[d].at \in ToQueue
                 PROVE  /\ Len(handler'[d].text) <= typed'[d]
                        /\ \A i \in 1..Len(handler'[d].text) :
                             handler'[d].text[i] = <<d, typed'[d] - Len(handler'[d].text) + i>>
      BY DEF LastTyped
    <3>1. CASE d = c
      <4>1. handler'[d].text = s /\ Len(s) = n /\ typed'[d] - n = typed[c] /\ n <= typed'[d]
        BY <2>1, <2>3, <2>5, <2>6, <2>8, <3>1
      <4> QED
        BY <2>4, <3>1, <4>1
    <3>2. CASE d # c
      BY <2>5, <2>8, <3>2 DEF HandlerOK, LastTyped
    <3> QED
      BY <3>1, <3>2
  <2>11. ASSUME NEW d \in Clients
         PROVE  Sent(d)' >= Sent(d)
    <3>1. typed[d] \in Nat /\ Len(handler[d].text) \in Nat
      BY DEF HandlerOK, HandlerTypes, Handling
    <3>2. CASE d = c
      <4>1. Sent(d) = typed[c] /\ Sent(d)' = typed'[c] - n
        BY <1>1, <2>3, <2>6, <2>8, <3>2 DEF Sent, ToQueue
      <4> QED
        BY <2>1, <2>5, <4>1
    <3>3. CASE d # c
      BY <2>5, <2>8, <3>1, <3>3 DEF Sent
    <3> QED
      BY <3>2, <3>3
  <2> QED
    BY <2>9, <2>10, <2>11 DEF HandlerOK
<1> QED
  BY <1>2, <1>3 DEF Message

LEMMA CollectMoves ==
  ASSUME HandlerOK, NEW c \in Clients, Collect(c) \/ Store(c)
  PROVE  HandlerOK' /\ \A d \in Clients : Sent(d)' >= Sent(d)
<1>1. handler[c] \in Handling /\ typed' = typed
  BY DEF HandlerOK, HandlerTypes, Collect, Store
<1>2. CASE Collect(c) /\ handler' = [handler EXCEPT ![c].at = "store", ![c].loaded = length]
                      /\ handler[c].text # <<>>
  <2> DEFINE h == [handler[c] EXCEPT !.at = "store", !.loaded = length]
  <2>1. h \in Handling /\ h.at = "store" /\ h.text = handler[c].text
    BY <1>1 DEF Handling, Steps, HandlerOK, HandlerTypes
  <2>2. handler' = [handler EXCEPT ![c] = h]
    BY <1>1, <1>2 DEF HandlerOK, HandlerTypes, Handling
  <2>3. length' \in Nat
    BY <1>2 DEF Collect, command, HandlerOK, HandlerTypes
  <2> HIDE DEF h
  <2> QED
    BY <1>1, <1>2, <2>1, <2>2, <2>3, OneMoves DEF ToQueue
<1>3. CASE Collect(c) /\ Finish(c)
  <2>1. length' \in Nat
    BY <1>3 DEF Collect, command, HandlerOK, HandlerTypes
  <2> QED
    BY <1>1, <1>3, <2>1, FinishMoves
<1>4. CASE Store(c)
  <2> DEFINE h == [handler[c] EXCEPT !.at = "collect", !.text = Tail(@)]
  <2>1. handler[c].text # <<>> /\ handler[c].text \in Seq(Chars)
    BY <1>1, <1>4 DEF Store, At, HandlerOK, HandlerTypes, Handling
  <2>2. Tail(handler[c].text) \in Seq(Chars)
    BY <2>1
  <2>3. h \in Handling /\ h.at = "collect"
    BY <1>1, <2>2 DEF Handling, Steps
  <2>4. handler' = [handler EXCEPT ![c] = h]
    BY <1>1, <1>4 DEF Store, HandlerOK, HandlerTypes, Handling
  <2>5. length' \in Nat
    <3>1. handler[c].loaded \in Nat /\ length \in Nat
      BY <1>1 DEF HandlerOK, HandlerTypes, Handling
    <3> QED
      BY <1>4, <3>1 DEF Store
  <2> HIDE DEF h
  <2> QED
    BY <1>1, <2>3, <2>4, <2>5, OneMoves DEF ToQueue
<1> QED
  BY <1>2, <1>3, <1>4 DEF Collect

\* Every other step of a session's thread.
LEMMA HandleMoves ==
  ASSUME HandlerOK, mode \in Modes, NEW c \in Clients, Handle(c)
  PROVE  HandlerOK' /\ \A d \in Clients : Sent(d)' >= Sent(d)
<1>1. CASE Collect(c) \/ Store(c)
  BY <1>1, CollectMoves
<1>2. ASSUME ~(Collect(c) \/ Store(c))
      PROVE  /\ typed' = typed /\ length' \in Nat
             /\ \/ Finish(c)
                \/ \E to \in Steps : /\ Step(c, to) /\ to # "store"
                                     /\ to \in ToQueue => handler[c].at \in ToQueue
  <2>1. length \in Nat
    BY DEF HandlerOK, HandlerTypes
  <2>2. CASE ToggleLoad(c) \/ ToggleRun(c) \/ ToggleStop(c)
    BY <2>1, <2>2 DEF ToggleLoad, ToggleRun, ToggleStop, command, Steps, ToQueue
  <2>3. CASE ToggleClear(c) \/ Done(c)
    BY <2>3 DEF ToggleClear, Done, Clear
  <2>4. CASE Dispatch(c)
    <3>1. /\ handler[c].at \in ToQueue /\ typed' = typed /\ length' = length
          /\ Finish(c) \/ Step(c, "enqueue") \/ Step(c, "execute") \/ Step(c, "collect")
      BY <2>4 DEF Dispatch, command, ToQueue, Modes
    <3> QED
      BY <2>1, <3>1 DEF Steps
  <2>5. CASE Enqueue(c)
    BY <2>1, <2>5 DEF Enqueue, command
  <2>6. CASE Execute(c)
    <3>1. /\ typed' = typed /\ length' = length
          /\ Step(c, "done") \/ Step(c, "examine") \/ Step(c, "step") \/ Step(c, "reset")
      BY <2>6 DEF Execute
    <3> QED
      BY <2>1, <3>1 DEF Steps, ToQueue
  <2>7. CASE Examine(c) \/ SingleStep(c) \/ ResetQueue(c) \/ ResetBoot(c) \/ ResetRun(c)
    <3>1. /\ typed' = typed /\ length' = length
          /\ Step(c, "done") \/ Step(c, "boot") \/ Step(c, "start")
      BY <2>7 DEF Examine, SingleStep, ResetQueue, ResetBoot, ResetRun, command
    <3> QED
      BY <2>1, <3>1 DEF Steps, ToQueue
  <2> QED
    BY <1>2, <2>2, <2>3, <2>4, <2>5, <2>6, <2>7 DEF Handle
<1> QED
  BY <1>1, <1>2, FinishMoves, StepMoves

LEMMA HandlerStep ==
  ASSUME HandlerOK, mode \in Modes, [Next]_vars
  PROVE  HandlerOK' /\ \A d \in Clients : Sent(d)' >= Sent(d)
<1>1. CASE UNCHANGED vars
  <2>1. UNCHANGED <<handler, typed, length>>
    BY <1>1 DEF vars
  <2> QED
    BY <2>1, NobodyMoves
<1>2. CASE CpuThread
  <2>1. UNCHANGED <<handler, typed, length>>
    BY <1>2 DEF CpuThread, BurstStarts, BurstCycle, BurstEnds, command
  <2> QED
    BY <2>1, NobodyMoves
<1>3. ASSUME NEW c \in Clients, Opens(c) \/ Ends(c)
      PROVE  HandlerOK' /\ \A d \in Clients : Sent(d)' >= Sent(d)
  <2>1. UNCHANGED <<handler, typed, length>>
    BY <1>3 DEF Opens, Ends, command
  <2> QED
    BY <2>1, NobodyMoves
<1> QED
  BY <1>1, <1>2, <1>3, MessageMoves, HandleMoves DEF Next

LEMMA ModeStep ==
  ASSUME mode \in Modes, [Next]_vars
  PROVE  mode' \in Modes
<1>1. CASE UNCHANGED vars
  BY <1>1 DEF vars
<1>2. CASE CpuThread
  BY <1>2 DEF CpuThread, BurstStarts, BurstCycle, BurstEnds
<1>3. ASSUME NEW c \in Clients, Opens(c) \/ Ends(c) \/ Message(c)
      PROVE  mode' \in Modes
  BY <1>3 DEF Opens, Ends, Message, machine, Modes
<1>4. ASSUME NEW c \in Clients, Handle(c)
      PROVE  mode' \in Modes
  <2>1. CASE ToggleRun(c) \/ ToggleStop(c) \/ ResetRun(c)
    BY <2>1 DEF ToggleRun, ToggleStop, ResetRun, Modes
  <2>2. CASE ToggleLoad(c) \/ ToggleClear(c) \/ Dispatch(c) \/ Enqueue(c) \/ Collect(c)
             \/ Store(c) \/ Execute(c) \/ ResetQueue(c) \/ Done(c)
    BY <2>2 DEF ToggleLoad, ToggleClear, Dispatch, Enqueue, Collect, Store, Execute, ResetQueue,
                Done, machine
  <2>3. CASE Examine(c) \/ SingleStep(c) \/ ResetBoot(c)
    BY <2>3 DEF Examine, SingleStep, ResetBoot
  <2> QED
    BY <1>4, <2>1, <2>2, <2>3 DEF Handle
<1> QED
  BY <1>1, <1>2, <1>3, <1>4 DEF Next

-----------------------------------------------------------------------------
(* The queue: of all steps only these change it *)

Takes ==
  /\ queue.count > 0
  /\ read' = Append(read, Head(Contents(queue)))
  /\ queue' = Without(queue) /\ accepted' = accepted

Empties ==
  /\ queue' = [queue EXCEPT !.head = 0, !.tail = 0, !.count = 0]
  /\ accepted' = read /\ read' = read

LEMMA FifoSteps ==
  ASSUME [Next]_vars
  PROVE  \/ UNCHANGED fifo
         \/ Takes \/ Empties
         \/ \E c \in Clients : Enqueue(c)
<1>1. CASE UNCHANGED vars
  BY <1>1 DEF vars, fifo
<1>2. CASE CpuThread
  BY <1>2 DEF CpuThread, BurstStarts, BurstCycle, BurstEnds, Cycle, Takes
<1>3. ASSUME NEW c \in Clients, Opens(c) \/ Ends(c) \/ Message(c)
      PROVE  UNCHANGED fifo
  BY <1>3 DEF Opens, Ends, Message
<1>4. ASSUME NEW c \in Clients, Handle(c), ~Enqueue(c)
      PROVE  UNCHANGED fifo \/ Takes \/ Empties
  <2>1. CASE ToggleLoad(c) \/ ToggleRun(c) \/ ToggleStop(c) \/ ToggleClear(c) \/ Dispatch(c)
             \/ Collect(c) \/ Store(c) \/ Done(c)
    BY <2>1 DEF ToggleLoad, ToggleRun, ToggleStop, ToggleClear, Dispatch, Collect, Store, Done
  <2>2. CASE Execute(c) \/ Examine(c) \/ ResetBoot(c) \/ ResetRun(c)
    BY <2>2 DEF Execute, Examine, ResetBoot, ResetRun
  <2>3. CASE SingleStep(c)
    BY <2>3 DEF SingleStep, Cycle, Takes
  <2>4. CASE ResetQueue(c)
    BY <2>4 DEF ResetQueue, Empties
  <2> QED
    BY <1>4, <2>1, <2>2, <2>3, <2>4 DEF Handle
<1> QED
  BY <1>1, <1>2, <1>3, <1>4 DEF Next

\* What fits of a message is the beginning of it.
LEMMA FittingPart ==
  ASSUME QueueOK(queue), NEW s \in Seq(Chars)
  PROVE  /\ Fitting(s) \in Seq(Chars) /\ queue.count + Len(Fitting(s)) <= QueueSize
         /\ Len(Fitting(s)) <= Len(s)
         /\ \A i \in 1..Len(Fitting(s)) : Fitting(s)[i] = s[i]
<1> DEFINE room == QueueSize - queue.count
<1>1. /\ room \in Nat /\ Len(s) \in Nat /\ queue.count + room = QueueSize
      /\ QueueSize \in Nat /\ queue.count \in Nat
  BY InputAssumption DEF QueueOK
<1>2. Fitting(s) = IF Len(s) <= room THEN s ELSE SubSeq(s, 1, room)
  BY DEF Fitting
<1> HIDE DEF room
<1>3. CASE Len(s) <= room
  BY <1>1, <1>2, <1>3
<1>4. CASE Len(s) > room
  <2>1. /\ SubSeq(s, 1, room) \in Seq(Chars) /\ Len(SubSeq(s, 1, room)) = room
        /\ \A i \in 1..room : SubSeq(s, 1, room)[i] = s[i]
    BY <1>1, <1>4
  <2> QED
    BY <1>1, <1>2, <1>4, <2>1
<1> QED
  BY <1>1, <1>3, <1>4

LEMMA TakesFifo ==
  ASSUME FifoOK, Takes
  PROVE  FifoOK'
<1> DEFINE first == Head(Contents(queue))
           rest == Contents(Without(queue))
<1>1. /\ QueueOK(queue') /\ first \in Cell /\ Contents(queue) = <<first>> \o rest
  BY WithoutContents DEF FifoOK, Takes
<1>2. rest \in Seq(Cell) /\ read \in Seq(Cell) /\ queue' = Without(queue)
  BY <1>1, ContentsIsSeq DEF Takes, FifoOK
<1>3. read' = Append(read, first) /\ accepted' = accepted /\ accepted = read \o (<<first>> \o rest)
  BY <1>1 DEF Takes, FifoOK, QueueIsFifo
<1> HIDE DEF first, rest
<1>4. Append(read, first) \in Seq(Cell)
  BY <1>1, <1>2
<1>5. Append(read, first) \o rest = read \o (<<first>> \o rest)
  BY <1>1, <1>2
<1>6. accepted' = read' \o Contents(queue')
  BY <1>2, <1>3, <1>5 DEF rest
<1> QED
  BY <1>1, <1>3, <1>4, <1>6 DEF FifoOK, QueueIsFifo
\* What was read was accepted before.
LEMMA ReadAccepted ==
  ASSUME FifoOK
  PROVE  /\ read \in Seq(Chars) /\ Len(read) <= Len(accepted)
         /\ \A i \in 1..Len(read) : read[i] = accepted[i]
<1> DEFINE rest == Contents(queue)
<1>1. rest \in Seq(Cell) /\ read \in Seq(Cell) /\ accepted = read \o rest
  BY ContentsIsSeq DEF FifoOK, QueueIsFifo
<1>2. accepted \in Seq(Chars)
  BY DEF FifoOK
<1> HIDE DEF rest
<1>3. /\ Len(accepted) = Len(read) + Len(rest) /\ Len(read) \in Nat /\ Len(rest) \in Nat
      /\ \A i \in 1..Len(read) : accepted[i] = read[i]
  BY <1>1
<1>4. \A i \in 1..Len(read) : read[i] \in Chars
  BY <1>2, <1>3
<1>5. read \in [1..Len(read) -> Chars]
  BY <1>1, <1>4
<1> QED
  BY <1>3, <1>5

LEMMA EmptiesFifo ==
  ASSUME FifoOK, Empties
  PROVE  FifoOK'
<1>1. QueueSize \in Nat \ {0} /\ queue.buffer \in [Slots -> Cell]
  BY InputAssumption DEF FifoOK, QueueOK
<1>2. /\ queue'.buffer = queue.buffer /\ queue'.head = 0 /\ queue'.tail = 0 /\ queue'.count = 0
      /\ queue' = [buffer |-> queue.buffer, head |-> 0, tail |-> 0, count |-> 0]
  BY DEF Empties, FifoOK, QueueOK
<1>3. 0 \in Slots /\ 0 \in 0..QueueSize /\ (0 + 0) % QueueSize = 0
  BY <1>1, Remainder DEF Slots
<1>4. QueueOK(queue')
  BY <1>1, <1>2, <1>3 DEF QueueOK
<1>5. Contents(queue') \in Seq(Cell) /\ Len(Contents(queue')) = 0
  BY <1>2, <1>4, ContentsIsSeq
<1>6. read \in Seq(Cell) /\ read \in Seq(Chars) /\ accepted' = read /\ read' = read
  BY ReadAccepted DEF FifoOK, Empties
<1>7. accepted' = read' \o Contents(queue')
  BY <1>5, <1>6
<1> QED
  BY <1>4, <1>6, <1>7 DEF FifoOK, QueueIsFifo

LEMMA EnqueueFifo ==
  ASSUME HandlerOK, FifoOK, NEW c \in Clients, Enqueue(c)
  PROVE  FifoOK'
<1> DEFINE s == Fitting(handler[c].text)
           rest == Contents(queue)
<1>1. handler[c].text \in Seq(Chars)
  BY DEF HandlerOK, HandlerTypes, Handling
<1>2. s \in Seq(Chars) /\ queue.count + Len(s) <= QueueSize /\ QueueOK(queue)
  BY <1>1, FittingPart DEF FifoOK
<1>3. queue' = Put(queue, s) /\ accepted' = accepted \o s /\ read' = read
  BY DEF Enqueue
<1> HIDE DEF s
<1>4. QueueOK(queue') /\ Contents(queue') = rest \o s
  BY <1>2, <1>3, PutContents
<1>5. rest \in Seq(Cell) /\ read \in Seq(Cell) /\ accepted \in Seq(Chars) /\ accepted = read \o rest
  BY <1>2, ContentsIsSeq DEF FifoOK, QueueIsFifo
<1> HIDE DEF rest
<1>6. s \in Seq(Cell) /\ accepted \o s \in Seq(Chars)
  BY <1>2, <1>5 DEF Cell
<1>7. (read \o rest) \o s = read \o (rest \o s)
  BY <1>5, <1>6
<1> QED
  BY <1>3, <1>4, <1>5, <1>6, <1>7 DEF FifoOK, QueueIsFifo

LEMMA FifoStep ==
  ASSUME HandlerOK, FifoOK, [Next]_vars
  PROVE  FifoOK'
<1>1. CASE UNCHANGED fifo
  BY <1>1 DEF fifo, FifoOK, QueueOK, QueueIsFifo, Contents
<1> QED
  BY <1>1, FifoSteps, TakesFifo, EmptiesFifo, EnqueueFifo

-----------------------------------------------------------------------------
(* The order *)

LEMMA EnqueueOrder ==
  ASSUME HandlerOK, FifoOK, OrderOK, NEW c \in Clients, Enqueue(c)
  PROVE  OrderOK'
<1> DEFINE t == handler[c].text
           s == Fitting(t)
           n == Len(accepted)
<1>1. /\ t \in Seq(Chars) /\ typed[c] \in Nat /\ handler[c].at = "enqueue"
      /\ handler \in [Clients -> Handling]
      /\ Len(t) <= typed[c] /\ \A i \in 1..Len(t) : t[i] = <<c, typed[c] - Len(t) + i>>
  BY DEF HandlerOK, HandlerTypes, LastTyped, Handling, Enqueue, At, ToQueue
<1>2. /\ s \in Seq(Chars) /\ Len(s) <= Len(t)
      /\ \A i \in 1..Len(s) : s[i] = t[i]
  BY <1>1, FittingPart DEF FifoOK
<1>3. accepted' = accepted \o s /\ accepted \in Seq(Chars) /\ typed' = typed
      /\ handler' = [handler EXCEPT ![c] = Idle]
  BY DEF Enqueue, FifoOK, Finish
<1>4. Sent(c) = typed[c] - Len(t) /\ Sent(c)' = typed[c]
  BY <1>1, <1>3 DEF Sent, ToQueue, Idle
<1>5. \A d \in Clients : d # c => Sent(d)' = Sent(d)
  BY <1>1, <1>3 DEF Sent
<1>6. n \in Nat /\ Len(s) \in Nat /\ Len(t) \in Nat
  BY <1>1, <1>2, <1>3
<1>7. /\ Len(accepted') = n + Len(s)
      /\ \A i \in 1..n : accepted'[i] = accepted[i]
      /\ \A i \in (n + 1)..(n + Len(s)) :
           accepted'[i] = <<c, typed[c] - Len(t) + (i - n)>>
  <2>1. /\ Len(accepted \o s) = n + Len(s)
        /\ \A i \in 1..(n + Len(s)) :
             (accepted \o s)[i] = IF i <= n THEN accepted[i] ELSE s[i - n]
    BY <1>2, <1>3, ConcatProperties
  <2>2. ASSUME NEW i \in (n + 1)..(n + Len(s))
        PROVE  accepted'[i] = <<c, typed[c] - Len(t) + (i - n)>>
    <3>1. i - n \in 1..Len(s) /\ i - n \in 1..Len(t) /\ i \in 1..(n + Len(s)) /\ ~(i <= n)
      BY <1>2, <1>6
    <3>2. accepted'[i] = s[i - n] /\ s[i - n] = t[i - n]
      BY <1>2, <1>3, <2>1, <3>1
    <3> QED
      BY <1>1, <3>1, <3>2
  <2>3. \A i \in 1..n : i \in 1..(n + Len(s)) /\ i <= n
    BY <1>6
  <2>4. \A i \in 1..n : accepted'[i] = accepted[i]
    BY <1>3, <2>1, <2>3
  <2>5. Len(accepted') = n + Len(s)
    BY <1>3, <2>1
  <2> QED
    BY <2>2, <2>4, <2>5
<1>8. \A i \in 1..n : accepted[i] \in Clients \X Nat
  BY <1>3 DEF Chars
<1> HIDE DEF s, t, n
<1>9. \A i \in 1..n : \A d \in Clients : accepted[i][1] = d => accepted[i][2] <= Sent(d)
  BY DEF OrderOK, n
<1>10. ASSUME NEW i \in 1..(n + Len(s)), NEW d \in Clients, accepted'[i][1] = d
       PROVE  accepted'[i][2] <= Sent(d)'
  <2>1. CASE i <= n
    <3>1. /\ i \in 1..n /\ accepted'[i] = accepted[i] /\ accepted[i][2] \in Nat
          /\ accepted[i][2] <= Sent(d)
      BY <1>6, <1>7, <1>8, <1>9, <1>10, <2>1
    <3>2. CASE d = c
      <4>1. accepted[i][2] <= typed[c] - Len(t) /\ Sent(d)' = typed[c]
        BY <1>4, <3>1, <3>2
      <4> QED
        BY <1>1, <1>6, <3>1, <4>1
    <3>3. CASE d # c
      BY <1>5, <3>1, <3>3
    <3> QED
      BY <3>2, <3>3
  <2>2. CASE i > n
    <3>1. accepted'[i] = <<c, typed[c] - Len(t) + (i - n)>> /\ i - n <= Len(t)
      BY <1>2, <1>6, <1>7, <2>2
    <3>2. d = c /\ Sent(d)' = typed[c] /\ accepted'[i][2] = typed[c] - Len(t) + (i - n)
      BY <1>4, <1>10, <3>1
    <3> QED
      BY <1>1, <1>6, <3>1, <3>2
  <2> QED
    BY <1>6, <2>1, <2>2
<1>11. ASSUME NEW i \in 1..(n + Len(s)), NEW j \in 1..(n + Len(s)),
              i < j, accepted'[i][1] = accepted'[j][1]
       PROVE  accepted'[i][2] < accepted'[j][2]
  <2>1. CASE j <= n
    <3>1. i \in 1..n /\ j \in 1..n
      BY <1>6, <1>11, <2>1
    <3> QED
      BY <1>7, <1>11, <3>1 DEF OrderOK, InOrder, n
  <2>2. CASE i <= n /\ j > n
    <3>1. i \in 1..n /\ accepted'[i] = accepted[i] /\ accepted[i][2] \in Nat
      BY <1>6, <1>7, <1>8, <2>2
    <3>2. accepted'[j] = <<c, typed[c] - Len(t) + (j - n)>> /\ j - n >= 1
      BY <1>6, <1>7, <2>2
    <3>3. accepted[i][1] = c /\ accepted[i][2] <= typed[c] - Len(t)
      BY <1>4, <1>9, <1>11, <3>1, <3>2
    <3> QED
      BY <1>1, <1>6, <3>1, <3>2, <3>3
  <2>3. CASE i > n
    <3>1. /\ accepted'[i] = <<c, typed[c] - Len(t) + (i - n)>>
          /\ accepted'[j] = <<c, typed[c] - Len(t) + (j - n)>>
      BY <1>6, <1>7, <1>11, <2>3
    <3> QED
      BY <1>1, <1>6, <1>11, <2>3, <3>1
  <2> QED
    BY <1>6, <2>1, <2>2, <2>3
<1>12. InOrder(accepted')
  BY <1>7, <1>11 DEF InOrder
<1> QED
  BY <1>7, <1>10, <1>12 DEF OrderOK

LEMMA OrderStep ==
  ASSUME IInv, [Next]_vars
  PROVE  OrderOK'
<1>1. \A d \in Clients : Sent(d)' >= Sent(d)
  BY HandlerStep DEF IInv
<1>2. \A d \in Clients : typed[d] \in Nat /\ Len(handler[d].text) \in Nat /\ Sent(d) \in Int
  BY DEF IInv, HandlerOK, HandlerTypes, Handling, Sent
<1>3. \A d \in Clients : Sent(d)' \in Int
  <2>1. HandlerOK'
    BY HandlerStep DEF IInv
  <2> QED
    BY <2>1 DEF HandlerOK, HandlerTypes, Handling, Sent
<1>4. accepted \in Seq(Clients \X Nat)
  BY DEF IInv, FifoOK, Chars
  \* What was accepted is, as far as it still counts, what it was.
<1>5. CASE Len(accepted') <= Len(accepted) /\ Len(accepted') \in Nat
           /\ \A i \in 1..Len(accepted') : accepted'[i] = accepted[i]
  <2>1. \A i \in 1..Len(accepted') : i \in 1..Len(accepted)
    BY <1>4, <1>5
  <2>2. InOrder(accepted')
    BY <1>5, <2>1 DEF IInv, OrderOK, InOrder
  <2>3. ASSUME NEW i \in 1..Len(accepted'), NEW d \in Clients, accepted'[i][1] = d
        PROVE  accepted'[i][2] <= Sent(d)'
    <3>1. accepted'[i] = accepted[i] /\ accepted[i][2] \in Nat
      BY <1>4, <1>5, <2>1
    <3>2. accepted[i][2] <= Sent(d)
      BY <2>1, <2>3, <3>1 DEF IInv, OrderOK
    <3>3. Sent(d)' >= Sent(d) /\ Sent(d) \in Int /\ Sent(d)' \in Int
      BY <1>1, <1>2, <1>3
    <3> QED
      BY <3>1, <3>2, <3>3
  <2> QED
    BY <2>2, <2>3 DEF OrderOK
<1>6. CASE accepted' = accepted
  BY <1>4, <1>5, <1>6
<1>7. CASE Empties
  BY <1>4, <1>5, <1>7, ReadAccepted DEF Empties, IInv
<1>8. CASE \E c \in Clients : Enqueue(c)
  BY <1>8, EnqueueOrder DEF IInv
<1> QED
  BY <1>6, <1>7, <1>8, FifoSteps DEF fifo, Takes

-----------------------------------------------------------------------------
LEMMA InitIInv == Init => IInv
<1> SUFFICES ASSUME Init
             PROVE  IInv
  OBVIOUS
<1>1. QueueSize \in Nat \ {0} /\ 0 \in Slots /\ 0 \in 0..QueueSize /\ (0 + 0) % QueueSize = 0
  BY InputAssumption, Remainder DEF Slots
<1>2. Idle \in Handling /\ Idle.at = "idle"
  BY DEF Idle, Handling, Steps
<1>3. HandlerOK /\ mode \in Modes
  BY <1>2 DEF Init, HandlerOK, HandlerTypes, LastTyped, ToQueue, Modes
<1>4. QueueOK(queue) /\ queue.count = 0
  BY <1>1 DEF Init, QueueOK, Cell
<1>5. Contents(queue) \in Seq(Cell) /\ Len(Contents(queue)) = 0
  BY <1>4, ContentsIsSeq
<1>6. FifoOK
  BY <1>4, <1>5 DEF Init, FifoOK, QueueIsFifo
<1>7. OrderOK
  BY DEF Init, OrderOK, InOrder
<1> QED
  BY <1>3, <1>6, <1>7 DEF IInv

LEMMA StepIInv == IInv /\ [Next]_vars => IInv'
  BY HandlerStep, ModeStep, FifoStep, OrderStep DEF IInv

\* What the program read and what is still queued are the characters that were accepted,
\* in their order, whatever wraps, resets and partly fitting messages there were.
THEOREM Fifo == Spec => []QueueIsFifo
<1>1. IInv => QueueIsFifo
  BY DEF IInv, FifoOK
<1> QED
  BY <1>1, InitIInv, StepIInv, PTL DEF Spec

\* Every session's characters reach the program in the order they were typed.
THEOREM Order == Spec => []ReadInOrder
<1>1. ASSUME IInv
      PROVE  ReadInOrder
  <2>1. /\ read \in Seq(Chars) /\ Len(read) <= Len(accepted) /\ accepted \in Seq(Chars)
        /\ \A i \in 1..Len(read) : read[i] = accepted[i]
    BY <1>1, ReadAccepted DEF IInv, FifoOK
  <2>2. DOMAIN read = 1..Len(read) /\ \A i \in 1..Len(read) : i \in 1..Len(accepted)
    BY <2>1
  <2> QED
    BY <1>1, <2>1, <2>2 DEF IInv, OrderOK, InOrder, ReadInOrder
<1> QED
  BY <1>1, InitIInv, StepIInv, PTL DEF Spec

-----------------------------------------------------------------------------
(* The line *)

Counters == {"program", "boot", "examined"}

RestTypes ==
  /\ session \in [Clients -> {"new", "open", "ended"}]
  /\ line \in [0..LineSize -> Cell] /\ meant \in Seq(Chars)
  /\ counter \in Counters /\ burst \in BOOLEAN /\ clash \in BOOLEAN

Writing(c) == handler[c].at \in {"collect", "store"}

\* What was taken for the line is in it.
Holds ==
  /\ Len(meant) = length
  /\ \A i \in 1..length : line[i - 1] = meant[i]

\* It is in the line, or is what thread c has left to write, as far as there is room.
Awaits(c) ==
  LET text == handler[c].text
  IN /\ Len(meant) = IF length + Len(text) < LineSize THEN length + Len(text) ELSE LineSize - 1
     /\ \A i \in 1..Len(meant) : meant[i] = IF i <= length THEN line[i - 1] ELSE text[i - length]

\* While one thread at most is in the line, it is complete but for what this one writes, and
\* the place which that thread looked up is still the end.
LineHolds ==
  /\ ran.line = ran.meant
  /\ ~clash => /\ \A c, d \in Clients : InLine(c) /\ InLine(d) => c = d
               /\ length < LineSize
               /\ (\A c \in Clients : ~Writing(c)) => Holds
               /\ \A c \in Clients : Writing(c) => Awaits(c)
               /\ \A c \in Clients : At(c, "store") =>
                    handler[c].loaded = length /\ length < LineSize - 1

LineOK == RestTypes /\ LineHolds

LEMMA WritingInLine == \A c \in Clients : Writing(c) => InLine(c)
BY DEF Writing, InLine

\* A step that leaves the line alone, brings no thread into it and none to its end.
LEMMA LineLeft ==
  ASSUME LineOK, RestTypes', UNCHANGED command,
         \A c \in Clients : InLine(c)' => InLine(c),
         \A c \in Clients : Writing(c)' <=> Writing(c),
         \A c \in Clients : Writing(c) => handler'[c] = handler[c]
  PROVE  LineOK'
<1>1. UNCHANGED <<line, length, meant, ran, clash>>
  BY DEF command
<1>2. ASSUME ~clash
      PROVE  /\ (\A c \in Clients : ~Writing(c)') => Holds'
             /\ \A c \in Clients : Writing(c)' => Awaits(c)'
             /\ \A c \in Clients : At(c, "store")' =>
                  handler'[c].loaded = length' /\ length' < LineSize - 1
  <2>1. Holds' = Holds
    BY <1>1 DEF Holds
  <2>2. \A c \in Clients : Writing(c) => Awaits(c)' = Awaits(c)
    BY <1>1 DEF Awaits
  <2>3. \A c \in Clients : At(c, "store")' => At(c, "store") /\ handler'[c] = handler[c]
    BY DEF At, Writing
  <2> QED
    BY <1>1, <1>2, <2>1, <2>2, <2>3 DEF LineOK, LineHolds
<1> QED
  BY <1>1, <1>2 DEF LineOK, LineHolds

\* A thread that comes into the line and is the only one there finds it complete.
LEMMA Enters ==
  ASSUME LineOK, NEW c \in Clients, ~clash, ~Others(c), ~InLine(c)
  PROVE  Holds /\ length < LineSize /\ \A d \in Clients : ~InLine(d)
<1>1. \A d \in Clients : ~InLine(d)
  BY DEF Others
<1> QED
  BY <1>1, WritingInLine DEF LineOK, LineHolds

LEMMA OtherThreads ==
  ASSUME HandlerOK, NEW c \in Clients, Finish(c) \/ \E to \in Steps : Step(c, to)
  PROVE  \A d \in Clients : d # c => handler'[d] = handler[d]
BY DEF HandlerOK, HandlerTypes, Handling, Finish, Step, Idle

\* A step of a thread that does not write, with no change of the line.
LEMMA GoesOn ==
  ASSUME HandlerOK, LineOK, NEW c \in Clients, RestTypes', UNCHANGED command, ~Writing(c),
         \/ Finish(c)
         \/ \E to \in Steps \ {"collect", "store"} : Step(c, to) /\ handler'[c].at = to
                                                     /\ (InLine(c)' => InLine(c))
  PROVE  LineOK'
<1>1. \A d \in Clients : d # c => handler'[d] = handler[d]
  BY OtherThreads
<1>2. ~Writing(c)' /\ (InLine(c)' => InLine(c))
  <2>1. CASE Finish(c)
    <3>1. handler'[c].at = "idle"
      BY <2>1 DEF HandlerOK, HandlerTypes, Finish, Idle
    <3> QED
      BY <3>1 DEF Writing, InLine
  <2> QED
    BY <2>1 DEF Writing
<1>3. \A d \in Clients : d # c => (InLine(d)' <=> InLine(d)) /\ (Writing(d)' <=> Writing(d))
  BY <1>1 DEF InLine, Writing
<1>4. /\ \A d \in Clients : InLine(d)' => InLine(d)
      /\ \A d \in Clients : Writing(d)' <=> Writing(d)
      /\ \A d \in Clients : Writing(d) => handler'[d] = handler[d]
  BY <1>1, <1>2, <1>3
<1> QED
  BY <1>4, LineLeft

\* What fits of a message, behind what there is.
LEMMA CutMeant ==
  ASSUME NEW s \in Seq(Chars), NEW t \in Seq(Chars)
  PROVE  /\ Cut(s \o t) \in Seq(Chars)
         /\ Len(Cut(s \o t)) = IF Len(s) + Len(t) < LineSize THEN Len(s) + Len(t) ELSE LineSize - 1
         /\ \A i \in 1..Len(Cut(s \o t)) :
              Cut(s \o t)[i] = IF i <= Len(s) THEN s[i] ELSE t[i - Len(s)]
<1> DEFINE u == s \o t
<1>1. /\ u \in Seq(Chars) /\ Len(u) = Len(s) + Len(t)
      /\ \A i \in 1..(Len(s) + Len(t)) : u[i] = IF i <= Len(s) THEN s[i] ELSE t[i - Len(s)]
  BY ConcatProperties
<1>2. LineSize \in Nat \ {0} /\ Len(s) \in Nat /\ Len(t) \in Nat
  BY InputAssumption
<1>3. Cut(u) = IF Len(u) < LineSize THEN u ELSE SubSeq(u, 1, LineSize - 1)
  BY DEF Cut
<1> HIDE DEF u
<1>4. CASE Len(u) < LineSize
  BY <1>1, <1>2, <1>3, <1>4 DEF u
<1>5. CASE ~(Len(u) < LineSize)
  <2>1. /\ SubSeq(u, 1, LineSize - 1) \in Seq(Chars)
        /\ Len(SubSeq(u, 1, LineSize - 1)) = LineSize - 1
        /\ \A i \in 1..(LineSize - 1) : SubSeq(u, 1, LineSize - 1)[i] = u[i]
    BY <1>1, <1>2, <1>5
  <2>2. \A i \in 1..(LineSize - 1) : i \in 1..(Len(s) + Len(t))
    BY <1>1, <1>2, <1>5
  <2> QED
    BY <1>1, <1>2, <1>3, <1>5, <2>1, <2>2 DEF u
<1> QED
  BY <1>4, <1>5

LEMMA ToggleStopLine ==
  ASSUME HandlerOK, LineOK, NEW c \in Clients, ToggleStop(c)
  PROVE  LineOK'
<1>1. /\ handler[c].at = "stop" /\ Step(c, "clear") /\ clash' = (clash \/ Others(c))
      /\ UNCHANGED <<session, counter, burst, line, length, meant, ran>>
  BY DEF ToggleStop, At
<1>2. handler'[c].at = "clear" /\ \A d \in Clients : d # c => handler'[d] = handler[d]
  BY <1>1 DEF HandlerOK, HandlerTypes, Handling, Step
<1>3. RestTypes'
  BY <1>1 DEF LineOK, RestTypes, Others
<1>4. ASSUME ~clash'
      PROVE  Holds' /\ length' < LineSize /\ \A d \in Clients : InLine(d)' => d = c
  <2>1. Holds /\ length < LineSize /\ \A d \in Clients : ~InLine(d)
    BY <1>1, <1>4, Enters DEF InLine
  <2> QED
    BY <1>1, <1>2, <2>1 DEF Holds, InLine
<1>5. ~Writing(c)' /\ ~At(c, "store")'
  BY <1>2 DEF Writing, At
<1>6. \A d \in Clients : Writing(d)' \/ At(d, "store")' => InLine(d)'
  BY DEF Writing, At, InLine
<1> QED
  BY <1>1, <1>3, <1>4, <1>5, <1>6 DEF LineOK, LineHolds

LEMMA DispatchLine ==
  ASSUME HandlerOK, LineOK, mode \in Modes, NEW c \in Clients, Dispatch(c)
  PROVE  LineOK'
<1>1. /\ handler[c].at \in {"return", "text"} /\ handler[c].text \in Seq(Chars)
      /\ UNCHANGED <<session, counter, burst, line, length, ran>>
      /\ ~InLine(c) /\ ~Writing(c)
  BY DEF Dispatch, machine, HandlerOK, HandlerTypes, Handling, InLine, Writing
<1>2. CASE (Step(c, "enqueue") \/ Finish(c)) /\ UNCHANGED <<meant, clash>>
  <2>1. RestTypes' /\ UNCHANGED command
    BY <1>1, <1>2 DEF LineOK, RestTypes, command
  <2>2. Step(c, "enqueue") => handler'[c].at = "enqueue" /\ ~InLine(c)'
    BY DEF HandlerOK, HandlerTypes, Handling, Step, InLine
  <2> QED
    BY <1>1, <1>2, <2>1, <2>2, GoesOn DEF Steps
<1>3. CASE /\ clash' = (clash \/ Others(c))
           /\ (Step(c, "execute") /\ UNCHANGED meant)
              \/ (Step(c, "collect") /\ meant' = Cut(meant \o handler[c].text))
  <2>1. /\ \A d \in Clients : d # c => handler'[d] = handler[d]
        /\ handler'[c].at \in {"execute", "collect"} /\ handler'[c].text = handler[c].text
        /\ handler'[c].at = "execute" => meant' = meant
        /\ handler'[c].at = "collect" => meant' = Cut(meant \o handler[c].text)
    BY <1>3 DEF HandlerOK, HandlerTypes, Handling, Step
  <2>2. meant' \in Seq(Chars)
    BY <1>1, <2>1, CutMeant DEF LineOK, RestTypes
  <2>3. RestTypes'
    BY <1>1, <1>3, <2>2 DEF LineOK, RestTypes, Others
  <2>4. ASSUME ~clash'
        PROVE  Holds /\ length < LineSize /\ \A d \in Clients : InLine(d)' => d = c
    <3>1. Holds /\ length < LineSize /\ \A d \in Clients : ~InLine(d)
      BY <1>1, <1>3, <2>4, Enters
    <3> QED
      BY <2>1, <3>1 DEF InLine
  <2>5. \A d \in Clients : Writing(d)' \/ At(d, "store")' => InLine(d)'
    BY DEF Writing, At, InLine
  <2>6. ~At(c, "store")'
    BY <2>1 DEF At
  <2>7. CASE handler'[c].at = "execute"
    <3>1. ~Writing(c)' /\ (Holds => Holds')
      BY <1>1, <2>1, <2>7 DEF Writing, Holds
    <3> QED
      BY <1>1, <1>3, <2>3, <2>4, <2>5, <2>6, <3>1 DEF LineOK, LineHolds
  <2>8. CASE handler'[c].at = "collect"
    <3>1. Writing(c)'
      BY <2>8 DEF Writing
    <3>2. ASSUME ~clash'
          PROVE  Awaits(c)'
      <4>1. Holds /\ length < LineSize /\ meant \in Seq(Chars)
        BY <2>4, <3>2 DEF LineOK, RestTypes
      <4>2. /\ Len(meant') = IF length + Len(handler[c].text) < LineSize
                             THEN length + Len(handler[c].text) ELSE LineSize - 1
            /\ \A i \in 1..Len(meant') :
                 meant'[i] = IF i <= length THEN meant[i] ELSE handler[c].text[i - length]
        <5> DEFINE text == handler[c].text
        <5>1. text \in Seq(Chars) /\ meant' = Cut(meant \o text) /\ Len(meant) = length
          BY <1>1, <2>1, <2>8, <4>1 DEF Holds
        <5> HIDE DEF text
        <5>2. /\ Len(Cut(meant \o text)) = IF Len(meant) + Len(text) < LineSize
                                           THEN Len(meant) + Len(text) ELSE LineSize - 1
              /\ \A i \in 1..Len(Cut(meant \o text)) :
                   Cut(meant \o text)[i] = IF i <= Len(meant) THEN meant[i]
                                          ELSE text[i - Len(meant)]
          BY <4>1, <5>1, CutMeant
        <5>3. /\ Len(meant') = IF length + Len(text) < LineSize THEN length + Len(text)
                               ELSE LineSize - 1
              /\ \A i \in 1..Len(meant') :
                   meant'[i] = IF i <= length THEN meant[i] ELSE text[i - length]
          BY <5>1, <5>2
        <5> QED
          BY <5>3 DEF text
      <4>3. \A i \in 1..Len(meant') : i <= length => meant'[i] = line[i - 1]
        <5>1. length \in Nat
          BY DEF HandlerOK, HandlerTypes
        <5>2. \A i \in 1..Len(meant') : i <= length => i \in 1..length
          BY <2>2, <5>1
        <5> QED
          BY <4>1, <4>2, <5>2 DEF Holds
      <4> QED
        BY <1>1, <2>1, <4>2, <4>3 DEF Awaits
    <3> QED
      BY <1>1, <1>3, <2>3, <2>4, <2>5, <2>6, <3>1, <3>2 DEF LineOK, LineHolds
  <2> QED
    BY <2>1, <2>7, <2>8
<1> QED
  BY <1>2, <1>3 DEF Dispatch, Modes

\* The thread that writes is the only one in the line.
LEMMA Alone ==
  ASSUME LineOK, NEW c \in Clients, InLine(c), ~clash
  PROVE  /\ \A d \in Clients : d # c => ~InLine(d) /\ ~Writing(d)
         /\ length < LineSize /\ (Writing(c) => Awaits(c)) /\ (~Writing(c) => Holds)
BY WritingInLine DEF LineOK, LineHolds

LEMMA CollectLine ==
  ASSUME HandlerOK, LineOK, NEW c \in Clients, Collect(c)
  PROVE  LineOK'
<1>1. /\ handler \in [Clients -> Handling] /\ handler[c].at = "collect" /\ length \in Nat
      /\ handler[c].text \in Seq(Chars)
      /\ UNCHANGED <<session, counter, burst, line, length, meant, ran, clash>>
  BY DEF HandlerOK, HandlerTypes, Handling, Collect, At, machine, command
<1>2. /\ \A d \in Clients : d # c => handler'[d] = handler[d]
      /\ handler'[c].at \in {"store", "idle"}
      /\ handler'[c].at = "store" => /\ handler'[c].loaded = length /\ length < LineSize - 1
                                     /\ handler'[c].text = handler[c].text
      /\ handler'[c].at = "idle" => handler[c].text = <<>> \/ ~(length < LineSize - 1)
  BY <1>1 DEF Collect, Finish, Idle, Handling
<1>3. RestTypes' /\ ran' = ran /\ clash' = clash
  BY <1>1 DEF LineOK, RestTypes
<1>4. InLine(c) /\ Writing(c)
  BY <1>1 DEF InLine, Writing
<1>5. \A d \in Clients : d # c => (InLine(d)' <=> InLine(d)) /\ (Writing(d)' <=> Writing(d))
                                  /\ (At(d, "store")' => Writing(d))
  BY <1>2 DEF InLine, Writing, At
<1>6. ASSUME ~clash
      PROVE  /\ \A d \in Clients : d # c => ~InLine(d)' /\ ~Writing(d)' /\ ~At(d, "store")'
             /\ length' < LineSize /\ Awaits(c)
  BY <1>1, <1>4, <1>5, <1>6, Alone
<1>7. CASE handler'[c].at = "store"
  <2>1. Awaits(c) => Awaits(c)'
    BY <1>1, <1>2, <1>7 DEF Awaits
  <2>2. Writing(c)' /\ handler'[c].loaded = length' /\ length' < LineSize - 1
    BY <1>1, <1>2, <1>7 DEF Writing
  <2> QED
    BY <1>3, <1>6, <2>1, <2>2 DEF LineOK, LineHolds
<1>8. CASE handler'[c].at = "idle"
  <2>1. ~Writing(c)' /\ ~At(c, "store")' /\ ~InLine(c)'
    BY <1>8 DEF Writing, At, InLine
  <2>2. ASSUME ~clash
        PROVE  Holds'
    <3>1. Awaits(c) /\ length < LineSize /\ LineSize \in Nat
      BY <1>1, <1>6, <2>2, InputAssumption
    <3>2. Len(meant) = length
      <4>1. handler[c].text = <<>> => Len(handler[c].text) = 0
        OBVIOUS
      <4>2. Len(handler[c].text) \in Nat
        BY <1>1
      <4> QED
        BY <1>1, <1>2, <1>8, <3>1, <4>1, <4>2 DEF Awaits
    <3>3. \A i \in 1..length : i <= length
      BY <1>1
    <3> QED
      BY <1>1, <3>1, <3>2, <3>3 DEF Awaits, Holds
  <2> QED
    BY <1>3, <1>6, <2>1, <2>2 DEF LineOK, LineHolds
<1> QED
  BY <1>2, <1>7, <1>8

LEMMA StoreLine ==
  ASSUME HandlerOK, LineOK, NEW c \in Clients, Store(c)
  PROVE  LineOK'
<1> DEFINE text == handler[c].text
<1>1. /\ handler \in [Clients -> Handling] /\ handler[c].at = "store" /\ length \in Nat
      /\ text # <<>> /\ text \in Seq(Chars) /\ handler[c].loaded \in Nat
      /\ UNCHANGED <<session, counter, burst, meant, ran, clash>>
  BY DEF HandlerOK, HandlerTypes, Handling, Store, At, machine
<1>2. PICK at \in {handler[c].loaded, length} :
        line' = [line EXCEPT ![at] = Head(text)] /\ length' = at + 1
  BY DEF Store
<1>3. /\ \A d \in Clients : d # c => handler'[d] = handler[d]
      /\ handler'[c].at = "collect" /\ handler'[c].text = Tail(text)
  BY <1>1 DEF Store, Handling
<1>4. /\ Head(text) = text[1] /\ Head(text) \in Chars /\ Len(text) \in Nat \ {0}
      /\ Tail(text) \in Seq(Chars) /\ Len(Tail(text)) = Len(text) - 1
      /\ \A i \in 1..(Len(text) - 1) : Tail(text)[i] = text[i + 1]
  BY <1>1
<1> HIDE DEF text
<1>5. RestTypes'
  <2>1. line' \in [0..LineSize -> Cell]
    BY <1>2, <1>4 DEF LineOK, RestTypes, Cell
  <2> QED
    BY <1>1, <2>1 DEF LineOK, RestTypes
<1>6. InLine(c) /\ Writing(c) /\ Writing(c)' /\ ~At(c, "store")'
  BY <1>1, <1>3 DEF InLine, Writing, At
<1>7. \A d \in Clients : d # c => (InLine(d)' <=> InLine(d)) /\ (Writing(d)' <=> Writing(d))
                                  /\ (At(d, "store")' => Writing(d))
  BY <1>3 DEF InLine, Writing, At
<1>8. ASSUME ~clash
      PROVE  /\ \A d \in Clients : d # c => ~InLine(d)' /\ ~Writing(d)' /\ ~At(d, "store")'
             /\ Awaits(c) /\ at = length /\ length < LineSize - 1
  BY <1>1, <1>2, <1>6, <1>7, <1>8, Alone DEF LineOK, LineHolds, At
<1>9. ASSUME ~clash
      PROVE  Awaits(c)' /\ length' < LineSize
  <2>1. /\ length' = length + 1 /\ length < LineSize - 1 /\ LineSize \in Nat /\ length \in Nat
        /\ Len(meant) = IF length + Len(text) < LineSize THEN length + Len(text) ELSE LineSize - 1
        /\ \A i \in 1..Len(meant) : meant[i] = IF i <= length THEN line[i - 1] ELSE text[i - length]
    BY <1>1, <1>2, <1>8, <1>9, InputAssumption DEF Awaits, text
  <2>2. Len(meant) = IF length' + Len(Tail(text)) < LineSize THEN length' + Len(Tail(text))
                     ELSE LineSize - 1
    BY <1>4, <2>1
  <2>3. ASSUME NEW i \in 1..Len(meant)
        PROVE  meant[i] = IF i <= length' THEN line'[i - 1] ELSE Tail(text)[i - length']
    <3>1. i \in Nat \ {0} /\ i <= length + Len(text) /\ i <= LineSize
      BY <1>4, <2>1
    <3>2. CASE i <= length
      <4>1. i - 1 \in 0..LineSize /\ i - 1 # length /\ i <= length'
        BY <2>1, <3>1, <3>2
      <4>2. line'[i - 1] = line[i - 1]
        BY <1>2, <1>8, <1>9, <4>1 DEF LineOK, RestTypes
      <4> QED
        BY <2>1, <3>2, <4>1, <4>2
    <3>3. CASE i = length + 1
      <4>1. i - 1 = length /\ i - length = 1 /\ length \in 0..LineSize /\ i <= length' /\ ~(i <= length)
        BY <2>1, <3>3
      <4>2. line'[length] = Head(text)
        BY <1>2, <1>8, <1>9, <4>1 DEF LineOK, RestTypes
      <4> QED
        BY <1>4, <2>1, <4>1, <4>2
    <3>4. CASE i > length + 1
      <4>1. /\ ~(i <= length) /\ ~(i <= length') /\ i - length' \in 1..(Len(text) - 1)
            /\ (i - length') + 1 = i - length
        BY <1>4, <2>1, <3>1, <3>4
      <4> QED
        BY <1>4, <2>1, <4>1
    <3> QED
      BY <2>1, <3>1, <3>2, <3>3, <3>4
  <2> QED
    <3>1. meant' = meant /\ handler'[c].text = Tail(text)
      BY <1>1, <1>3
    <3>2. length' < LineSize
      BY <2>1
    <3> QED
      BY <2>2, <2>3, <3>1, <3>2 DEF Awaits
<1> QED
  BY <1>1, <1>5, <1>6, <1>8, <1>9 DEF LineOK, LineHolds

LEMMA ExecuteLine ==
  ASSUME HandlerOK, LineOK, NEW c \in Clients, Execute(c)
  PROVE  LineOK'
<1>1. /\ handler \in [Clients -> Handling] /\ handler[c].at = "execute" /\ length \in Nat
      /\ UNCHANGED <<session, counter, burst, length, meant, clash>>
      /\ line' = [line EXCEPT ![length] = None]
      /\ ran' = IF clash THEN ran ELSE [line |-> Line, meant |-> meant]
      /\ Step(c, "done") \/ Step(c, "examine") \/ Step(c, "step") \/ Step(c, "reset")
  BY DEF HandlerOK, HandlerTypes, Execute, At, machine
<1>2. /\ \A d \in Clients : d # c => handler'[d] = handler[d]
      /\ handler'[c].at \in {"done", "examine", "step", "reset"}
  BY <1>1 DEF Step, Handling
<1>3. RestTypes'
  BY <1>1 DEF LineOK, RestTypes, Cell
<1>4. InLine(c) /\ ~Writing(c) /\ ~Writing(c)' /\ ~At(c, "store")'
  BY <1>1, <1>2 DEF InLine, Writing, At
<1>5. \A d \in Clients : d # c => (InLine(d)' <=> InLine(d)) /\ (Writing(d)' <=> Writing(d))
                                  /\ (At(d, "store")' => Writing(d))
  BY <1>2 DEF InLine, Writing, At
<1>6. ASSUME ~clash
      PROVE  /\ \A d \in Clients : d # c => ~InLine(d)' /\ ~Writing(d)' /\ ~At(d, "store")'
             /\ length < LineSize /\ Holds
  BY <1>4, <1>5, <1>6, Alone
<1>7. ASSUME ~clash
      PROVE  Line = meant /\ Holds'
  <2>1. meant \in Seq(Chars) /\ Len(meant) = length /\ \A i \in 1..length : line[i - 1] = meant[i]
    BY <1>6, <1>7 DEF Holds, LineOK, RestTypes
  <2>2. Line = meant
    BY <1>1, <2>1 DEF Line
  <2>3. \A i \in 1..length : i - 1 \in 0..LineSize /\ i - 1 # length
    BY <1>1, <1>6, <1>7, InputAssumption
  <2>4. \A i \in 1..length : line'[i - 1] = line[i - 1]
    BY <1>1, <2>3 DEF LineOK, RestTypes
  <2> QED
    BY <1>1, <2>1, <2>2, <2>4 DEF Holds
<1>8. ran'.line = ran'.meant
  BY <1>1, <1>7 DEF LineOK, LineHolds
<1> QED
  BY <1>1, <1>3, <1>4, <1>6, <1>7, <1>8 DEF LineOK, LineHolds

LEMMA ClearLine ==
  ASSUME HandlerOK, LineOK, NEW c \in Clients, ToggleClear(c) \/ Done(c)
  PROVE  LineOK'
<1>1. /\ UNCHANGED <<session, counter, burst, ran>> /\ Finish(c)
      /\ length' = 0 /\ line' = [line EXCEPT ![0] = None] /\ meant' = <<>> /\ clash' = Others(c)
  BY DEF ToggleClear, Done, Clear, machine
<1>2. /\ \A d \in Clients : d # c => handler'[d] = handler[d]
      /\ handler'[c].at = "idle"
  BY <1>1 DEF HandlerOK, HandlerTypes, Finish, Idle
<1>3. RestTypes'
  <2>1. line' \in [0..LineSize -> Cell] /\ meant' \in Seq(Chars) /\ clash' \in BOOLEAN
    <3>1. None \in Cell
      BY DEF Cell
    <3>2. line' \in [0..LineSize -> Cell]
      BY <1>1, <3>1 DEF LineOK, RestTypes
    <3>3. clash' \in BOOLEAN
      BY <1>1 DEF Others
    <3>4. <<>> \in Seq(Chars)
      OBVIOUS
    <3> QED
      BY <1>1, <3>2, <3>3, <3>4
  <2> QED
    BY <1>1, <2>1 DEF LineOK, RestTypes
<1>4. ASSUME ~clash'
      PROVE  \A d \in Clients : ~InLine(d)'
  BY <1>1, <1>2, <1>4 DEF Others, InLine
<1>5. \A d \in Clients : Writing(d)' \/ At(d, "store")' => InLine(d)'
  BY DEF Writing, At, InLine
<1>6. Len(meant') = 0 /\ length' < LineSize
  BY <1>1, InputAssumption
<1>7. Holds'
  BY <1>1, <1>6 DEF Holds
<1> QED
  BY <1>1, <1>3, <1>4, <1>5, <1>6, <1>7 DEF LineOK, LineHolds

\* The other steps of a session's thread.
LEMMA HandleLine ==
  ASSUME HandlerOK, LineOK, mode \in Modes, NEW c \in Clients, Handle(c)
  PROVE  LineOK'
<1> DEFINE Leads == {"stop", "run", "boot", "start", "done"}
<1>1. ASSUME UNCHANGED <<session, line, length, meant, ran, clash>>, ~Writing(c),
             counter' \in Counters, burst' = burst,
             \/ Finish(c)
             \/ \E to \in Leads : Step(c, to) /\ (InLine(c) \/ to \in {"stop", "run"})
      PROVE  LineOK'
  <2>1. RestTypes' /\ UNCHANGED command
    BY <1>1 DEF LineOK, RestTypes, command
  <2>2. ASSUME NEW to \in Leads, Step(c, to), InLine(c) \/ to \in {"stop", "run"}
        PROVE  to \in Steps \ {"collect", "store"} /\ handler'[c].at = to
               /\ (InLine(c)' => InLine(c))
    BY <2>2 DEF HandlerOK, HandlerTypes, Handling, Step, InLine, Steps
  <2> QED
    BY <1>1, <2>1, <2>2, GoesOn
<1>2. counter \in Counters
  BY DEF LineOK, RestTypes
<1>3. CASE ToggleLoad(c) \/ ToggleRun(c)
  <2>1. /\ UNCHANGED <<session, line, length, meant, ran, clash, counter, burst>> /\ ~Writing(c)
        /\ Finish(c) \/ Step(c, "stop") \/ Step(c, "run")
    BY <1>3 DEF ToggleLoad, ToggleRun, command, machine, At, Writing
  <2> QED
    BY <1>1, <1>2, <2>1
<1>4. CASE Enqueue(c)
  <2>1. /\ UNCHANGED <<session, line, length, meant, ran, clash, counter, burst>> /\ ~Writing(c)
        /\ Finish(c)
    BY <1>4 DEF Enqueue, command, machine, At, Writing
  <2> QED
    BY <1>1, <1>2, <2>1
<1>5. CASE Examine(c) \/ ResetQueue(c) \/ ResetBoot(c) \/ ResetRun(c)
  <2>1. /\ UNCHANGED <<session, line, length, meant, ran, clash, burst>> /\ ~Writing(c) /\ InLine(c)
        /\ Step(c, "done") \/ Step(c, "boot") \/ Step(c, "start")
        /\ counter' \in {counter, "examined", "boot"}
    BY <1>5 DEF Examine, ResetQueue, ResetBoot, ResetRun, command, machine, At, Writing, InLine
  <2> QED
    BY <1>1, <1>2, <2>1 DEF Counters
<1>6. CASE SingleStep(c)
  <2>1. /\ UNCHANGED <<session, line, length, meant, ran, clash, burst>> /\ ~Writing(c) /\ InLine(c)
        /\ Step(c, "done") /\ counter' = "program"
    BY <1>6 DEF SingleStep, Cycle, command, At, Writing, InLine
  <2> QED
    BY <1>1, <2>1 DEF Counters
<1> QED
  BY <1>3, <1>4, <1>5, <1>6, ToggleStopLine, DispatchLine, StoreLine, CollectLine, ExecuteLine,
     ClearLine DEF Handle

LEMMA LineStep ==
  ASSUME HandlerOK, LineOK, mode \in Modes, [Next]_vars
  PROVE  LineOK'
<1>1. ASSUME RestTypes', UNCHANGED command, handler' = handler
      PROVE  LineOK'
  BY <1>1, LineLeft DEF InLine, Writing
<1>2. CASE UNCHANGED vars
  BY <1>1, <1>2 DEF vars, LineOK, RestTypes, command
<1>3. CASE CpuThread
  <2>1. /\ UNCHANGED <<session, handler, command>>
        /\ counter' \in {counter, "program"} /\ burst' \in BOOLEAN
    BY <1>3 DEF CpuThread, BurstStarts, BurstCycle, BurstEnds, Cycle, LineOK, RestTypes
  <2>2. RestTypes'
    BY <2>1 DEF LineOK, RestTypes, Counters, command
  <2> QED
    BY <1>1, <2>1, <2>2
<1>4. ASSUME NEW c \in Clients, Opens(c) \/ Ends(c)
      PROVE  LineOK'
  <2>1. UNCHANGED <<handler, counter, burst, command>>
        /\ session' \in [Clients -> {"new", "open", "ended"}]
    BY <1>4 DEF Opens, Ends, LineOK, RestTypes
  <2>2. RestTypes'
    BY <2>1 DEF LineOK, RestTypes, command
  <2> QED
    BY <1>1, <2>1, <2>2
<1>5. ASSUME NEW c \in Clients, Message(c)
      PROVE  LineOK'
  <2>1. /\ UNCHANGED <<session, counter, burst, command>>
        /\ handler[c] = Idle /\ handler \in [Clients -> Handling]
    BY <1>5 DEF Message, machine, HandlerOK, HandlerTypes
  <2>2. /\ \A d \in Clients : d # c => handler'[d] = handler[d]
        /\ handler'[c].at \in {"toggle", "return", "text"}
    <3>1. CASE Step(c, "toggle")
      BY <2>1, <3>1 DEF Step, Handling
    <3>2. ASSUME NEW n \in 1..MaxText, NEW to \in {"return", "text"},
                 handler' = [handler EXCEPT ![c] =
                   [at |-> to, text |-> [i \in 1..n |-> <<c, typed[c] + i>>], loaded |-> 0]]
          PROVE  /\ \A d \in Clients : d # c => handler'[d] = handler[d]
                 /\ handler'[c].at \in {"toggle", "return", "text"}
      BY <2>1, <3>2
    <3> QED
      BY <1>5, <3>1, <3>2 DEF Message
  <2>3. RestTypes'
    BY <2>1 DEF LineOK, RestTypes, command
  <2>4. ~Writing(c) /\ ~Writing(c)' /\ ~InLine(c)'
    BY <2>1, <2>2 DEF Writing, InLine, Idle
  <2>5. \A d \in Clients : d # c => (InLine(d)' <=> InLine(d)) /\ (Writing(d)' <=> Writing(d))
    BY <2>2 DEF InLine, Writing
  <2>6. /\ \A d \in Clients : InLine(d)' => InLine(d)
        /\ \A d \in Clients : Writing(d)' <=> Writing(d)
        /\ \A d \in Clients : Writing(d) => handler'[d] = handler[d]
    BY <2>2, <2>4, <2>5
  <2> QED
    BY <2>1, <2>3, <2>6, LineLeft
<1> QED
  BY <1>2, <1>3, <1>4, <1>5, HandleLine DEF Next

LEMMA LineCorrect == Spec => [](IInv /\ LineOK)
<1>1. Init => LineOK
  <2> SUFFICES ASSUME Init PROVE LineOK
    OBVIOUS
  <2>1. RestTypes
    <3>1. line \in [0..LineSize -> Cell]
      BY DEF Init, Cell
    <3>2. session \in [Clients -> {"new", "open", "ended"}]
      BY DEF Init
    <3>3. meant \in Seq(Chars) /\ counter \in Counters
      BY DEF Init, Counters
    <3>4. burst \in BOOLEAN /\ clash \in BOOLEAN
      BY DEF Init
    <3> QED
      BY <3>1, <3>2, <3>3, <3>4 DEF RestTypes
  <2>2. meant = <<>> /\ length = 0 /\ ran.line = ran.meant
    BY DEF Init
  <2>3. \A c \in Clients : ~InLine(c) /\ ~Writing(c) /\ ~At(c, "store")
    BY DEF Init, Idle, InLine, Writing, At
  <2>4. Holds
    BY <2>2 DEF Holds
  <2> QED
    BY <2>1, <2>2, <2>3, <2>4, InputAssumption DEF LineOK, LineHolds
<1>2. LineOK /\ IInv /\ [Next]_vars => LineOK'
  BY LineStep DEF IInv
<1> QED
  BY <1>1, <1>2, InitIInv, StepIInv, PTL DEF Spec

\* Every variable keeps its type: the indices of the queue are places of the ring and its
\* count is no more than it holds (terminal_input_queue, web_console.c:60-75).
THEOREM TypeCorrect == Spec => []TypeOK
<1>1. IInv /\ LineOK => TypeOK
  BY DEF IInv, LineOK, RestTypes, Counters, HandlerOK, HandlerTypes, Modes, FifoOK, QueueOK,
         TypeOK, Cell
<1> QED
  BY <1>1, LineCorrect, PTL

\* The monitor executes the messages that found the CPU stopped since the last RETURN or
\* ctrl-M, one after the other and cut at the size of the buffer, unless two threads were in
\* it at once (terminal_handler, web_console.c:518-600).
THEOREM Typed == Spec => []LineAsTyped
<1>1. ASSUME IInv, LineOK
      PROVE  LineAsTyped
  <2>1. ASSUME ~clash, \A c \in Clients : ~InLine(c)
        PROVE  Line = meant
    <3>1. Holds
      BY <1>1, <2>1, WritingInLine DEF LineOK, LineHolds
    <3>2. meant \in Seq(Chars) /\ Len(meant) = length /\ \A i \in 1..length : line[i - 1] = meant[i]
      BY <1>1, <3>1 DEF Holds, LineOK, RestTypes
    <3> QED
      BY <3>2 DEF Line
  <2> QED
    BY <1>1, <2>1 DEF LineOK, LineHolds, LineAsTyped
<1> QED
  BY <1>1, LineCorrect, PTL
=============================================================================
