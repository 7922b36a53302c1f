-------------------------- MODULE WebConsoleProofs --------------------------
(***************************************************************************)
(* Proofs about the web console for any set of clients, any ring and       *)
(* message size and any number of bytes.                                   *)
(***************************************************************************)
EXTENDS WebConsole, SequenceTheorems, TLAPS

-----------------------------------------------------------------------------
(* Which steps touch what *)

\* Only the two critical sections of the ring and the send change the output path.
LEMMA OutputSteps ==
  ASSUME [Next]_vars
  PROVE  \/ UNCHANGED output
         \/ \E t \in Threads : Enqueue(t) \/ Drain(t) \/ SendOk(t) \/ SendFail(t)
<1> USE DEF output, Publish
<1>1. CASE UNCHANGED vars
  BY <1>1 DEF vars
<1>2. ASSUME NEW t \in Threads, PublishSteps(t)
      PROVE  UNCHANGED output \/ Enqueue(t) \/ Drain(t) \/ SendOk(t) \/ SendFail(t)
  BY <1>2 DEF PublishSteps, ProducerFlush, FlushLoad, HandleError
<1>3. CASE CpuThread
  BY <1>2, <1>3 DEF CpuThread, CpuReadMode, TerminalWrite, CpuBurstEnds, Threads
<1>4. CASE TimerThread
  BY <1>2, <1>4 DEF TimerThread, TimerFlush, FlushLoad, Threads
<1>5. ASSUME NEW c \in Clients, Connect(c) \/ PeerGone(c) \/ OnMessage(c)
      PROVE  UNCHANGED output
  BY <1>5 DEF Connect, PeerGone, OnMessage
<1>6. ASSUME NEW c \in Clients, Handlers(c)
      PROVE  PublishSteps(c) \/ UNCHANGED output
  BY <1>6 DEF Handlers, OnOpenEvict, OnOpenStore, Banner, ConnectedCb, OnClose,
              DisconnectCb
<1> QED
  BY <1>1, <1>2, <1>3, <1>4, <1>5, <1>6 DEF Next, Threads

\* The session variables change in handle_websocket_error and on the threads of the
\* clients, outside publish_message and the flush.
LEMMA SessionSteps ==
  ASSUME [Next]_vars
  PROVE  \/ UNCHANGED session
         \/ \E t \in Threads : HandleError(t)
         \/ \E c \in Clients : \/ Connect(c) \/ PeerGone(c) \/ OnMessage(c)
                               \/ OnOpenEvict(c) \/ OnOpenStore(c) \/ ConnectedCb(c)
                               \/ OnClose(c) \/ DisconnectCb(c)
<1> USE DEF session
<1>1. CASE UNCHANGED vars
  BY <1>1 DEF vars
<1>2. ASSUME NEW t \in Threads, PublishSteps(t)
      PROVE  UNCHANGED session \/ HandleError(t)
  BY <1>2 DEF PublishSteps, ProducerFlush, FlushLoad, Enqueue, Drain, SendOk, SendFail
<1>3. CASE CpuThread
  BY <1>2, <1>3 DEF CpuThread, CpuReadMode, TerminalWrite, CpuBurstEnds, Threads
<1>4. CASE TimerThread
  BY <1>2, <1>4 DEF TimerThread, TimerFlush, FlushLoad, Threads
<1>5. ASSUME NEW c \in Clients, Banner(c)
      PROVE  UNCHANGED session
  BY <1>5 DEF Banner
<1> QED
  BY <1>1, <1>2, <1>3, <1>4, <1>5 DEF Next, Handlers, Threads

-----------------------------------------------------------------------------
(* Type correctness *)

\* A thread between the load of current_client in a flush and the end of the send
\* holds a real client.
HoldsClient ==
  \A t \in Threads : pc[t] \in {"drain", "send", "error"} => cli[t] \in Clients

TypeInv == TypeOK /\ HoldsClient

LEMMA SessionTypeStep ==
  ASSUME SessionType, [Next]_vars
  PROVE  SessionType'
<1> USE DEF SessionType, session
<1>1. CASE UNCHANGED session
  BY <1>1
<1>2. ASSUME NEW t \in Threads, HandleError(t) PROVE SessionType'
  BY <1>2 DEF HandleError, Closing, ConnStates
<1>3. ASSUME NEW c \in Clients, Connect(c) \/ PeerGone(c) \/ OnOpenEvict(c)
      PROVE  SessionType'
  BY <1>3 DEF Connect, PeerGone, OnOpenEvict, Closing, ConnStates
<1>4. ASSUME NEW c \in Clients, OnMessage(c) PROVE SessionType'
  BY <1>4 DEF OnMessage, Modes
<1>5. ASSUME NEW c \in Clients,
             OnOpenStore(c) \/ ConnectedCb(c) \/ OnClose(c) \/ DisconnectCb(c)
      PROVE  SessionType'
  BY <1>5 DEF OnOpenStore, ConnectedCb, OnClose, DisconnectCb, Modes, ConnStates
<1> QED
  BY <1>1, <1>2, <1>3, <1>4, <1>5, SessionSteps

LEMMA OutputTypeStep ==
  ASSUME OutputType, ThreadType, HoldsClient, [Next]_vars
  PROVE  OutputType'
<1>1. CASE UNCHANGED output
  BY <1>1 DEF OutputType, output
<1>2. ASSUME NEW t \in Threads, Enqueue(t) PROVE OutputType'
  <2>1. PICK n \in Lengths(t) :
          LET room == RingSize - Len(ring)
              k == IF n <= room THEN n ELSE room
          IN /\ ring' = ring \o [i \in 1..k |-> stamp + i]
             /\ stamp' = stamp + k
    BY <1>2 DEF Enqueue
  <2> DEFINE room == RingSize - Len(ring)
             k == IF n <= room THEN n ELSE room
             new == [i \in 1..k |-> stamp + i]
  <2>2. k \in Nat /\ Len(ring) + k <= RingSize
    BY ConsoleAssumption DEF OutputType, Lengths
  <2> HIDE DEF k
  <2>3. new \in Seq(Nat) /\ Len(new) = k
    BY <2>2 DEF OutputType
  <2> HIDE DEF new
  <2>4. ring' = ring \o new /\ stamp' = stamp + k
    BY <2>1 DEF k, new
  <2>5. frame' = frame /\ rx' = rx
    BY <1>2 DEF Enqueue
  <2>6. ring \in Seq(Nat) /\ stamp \in Nat
    BY DEF OutputType
  <2>7. ring' \in Seq(Nat) /\ Len(ring') = Len(ring) + k
    BY <2>3, <2>4, <2>6, ConcatProperties
  <2>8. stamp' \in Nat
    BY <2>2, <2>4, <2>6
  <2> QED
    BY <2>2, <2>5, <2>7, <2>8 DEF OutputType
<1>3. ASSUME NEW t \in Threads, Drain(t) PROVE OutputType'
  <2>1. <<>> \in Seq(Nat) /\ Len(<<>>) <= RingSize
    BY ConsoleAssumption
  <2> QED
    BY <1>3, <2>1 DEF Drain, NothingToSend, Take, OutputType
<1>4. ASSUME NEW t \in Threads, SendOk(t) PROVE OutputType'
  <2>1. cli[t] \in Clients
    BY <1>4 DEF HoldsClient, SendOk
  <2>2. [by |-> t, data |-> frame[t]] \in [by : Threads, data : Seq(Nat)]
    BY DEF OutputType
  <2> DEFINE Frames == [by : Threads, data : Seq(Nat)]
  <2>3. rx \in [Clients -> Seq(Frames)] /\ [by |-> t, data |-> frame[t]] \in Frames
    BY <2>2 DEF OutputType
  <2>4. \/ rx' = [rx EXCEPT ![cli[t]] = Append(@, [by |-> t, data |-> frame[t]])]
        \/ rx' = rx
    BY <1>4 DEF SendOk
  <2> HIDE DEF Frames
  <2> DEFINE new == Append(rx[cli[t]], [by |-> t, data |-> frame[t]])
  <2>8. new \in Seq(Frames)
    BY <2>1, <2>3
  <2>9. rx' = [rx EXCEPT ![cli[t]] = new] \/ rx' = rx
    BY <2>4
  <2> HIDE DEF new
  <2>5. rx' \in [Clients -> Seq(Frames)]
    BY <2>3, <2>8, <2>9
  <2>6. frame' = [frame EXCEPT ![t] = <<>>] /\ ring' = ring /\ stamp' = stamp
    BY <1>4 DEF SendOk
  <2>7. frame' \in [Threads -> Seq(Nat)]
    BY <2>6 DEF OutputType
  <2> QED
    BY <2>5, <2>6, <2>7 DEF OutputType, Frames
<1>5. ASSUME NEW t \in Threads, SendFail(t) PROVE OutputType'
  BY <1>5 DEF SendFail, OutputType
<1> QED
  BY <1>1, <1>2, <1>3, <1>4, <1>5, OutputSteps

LEMMA ThreadTypeStep ==
  ASSUME ThreadType, HoldsClient, SessionType, [Next]_vars
  PROVE  ThreadType' /\ HoldsClient'
<1> USE DEF ThreadType, HoldsClient, Labels, Goto
<1>1. ASSUME NEW t \in Threads, Enqueue(t) PROVE ThreadType' /\ HoldsClient'
  BY <1>1 DEF Enqueue
<1>2. ASSUME NEW t \in Threads, FlushLoad(t) PROVE ThreadType' /\ HoldsClient'
  BY <1>2 DEF FlushLoad, SessionType
<1>3. ASSUME NEW t \in Threads, Drain(t) PROVE ThreadType' /\ HoldsClient'
  BY <1>3 DEF Drain, NothingToSend, Take
<1>4. ASSUME NEW t \in Threads, SendOk(t) \/ SendFail(t)
      PROVE  ThreadType' /\ HoldsClient'
  BY <1>4 DEF SendOk, SendFail
<1>5. ASSUME NEW t \in Threads, HandleError(t) PROVE ThreadType' /\ HoldsClient'
  BY <1>5 DEF HandleError
<1>6. ASSUME NEW t \in Threads, Publish(t) PROVE ThreadType' /\ HoldsClient'
  BY <1>6 DEF Publish
<1>7. Cpu \in Threads /\ Timer \in Threads /\ \A c \in Clients : c \in Threads
  BY DEF Threads
<1>8. CASE CpuReadMode \/ CpuBurstEnds
  BY <1>7, <1>8 DEF CpuReadMode, CpuBurstEnds
<1>9. ASSUME NEW c \in Clients, Connect(c) \/ PeerGone(c)
      PROVE  ThreadType' /\ HoldsClient'
  BY <1>7, <1>9 DEF Connect, PeerGone
<1>10. ASSUME NEW c \in Clients, OnOpenEvict(c) \/ OnOpenStore(c) \/ ConnectedCb(c)
       PROVE  ThreadType' /\ HoldsClient'
  BY <1>7, <1>10 DEF OnOpenEvict, OnOpenStore, ConnectedCb
<1>11. ASSUME NEW c \in Clients, OnClose(c) \/ DisconnectCb(c)
       PROVE  ThreadType' /\ HoldsClient'
  BY <1>7, <1>11 DEF OnClose, DisconnectCb
<1>12. ASSUME NEW c \in Clients, Banner(c) \/ OnMessage(c)
       PROVE  ThreadType' /\ HoldsClient'
  BY <1>6, <1>7, <1>12 DEF Banner, OnMessage
<1>13. CASE UNCHANGED vars
  BY <1>13 DEF vars
<1> HIDE DEF ThreadType, HoldsClient, Labels, Goto
<1> QED
  BY <1>1, <1>2, <1>3, <1>4, <1>5, <1>6, <1>7, <1>8, <1>9, <1>10, <1>11, <1>12, <1>13
  DEF Next, CpuThread, TerminalWrite, TimerThread, Handlers, PublishSteps,
      ProducerFlush, TimerFlush

LEMMA TypeInvCorrect == Spec => []TypeInv
<1>1. Init => TypeInv
  BY ConsoleAssumption DEF Init, TypeInv, TypeOK, SessionType, ThreadType, OutputType,
     HoldsClient, Modes, ConnStates, Labels
<1>2. TypeInv /\ [Next]_vars => TypeInv'
  BY SessionTypeStep, OutputTypeStep, ThreadTypeStep DEF TypeInv, TypeOK
<1> QED
  BY <1>1, <1>2, PTL DEF Spec

\* The ring never holds more than its capacity and every variable of the console
\* stays in its type (enqueue_terminal_output, web_console.c:188-219).
THEOREM TypeCorrect == Spec => []TypeOK
BY TypeInvCorrect, PTL DEF TypeInv

-----------------------------------------------------------------------------
(* No byte twice, and order per flusher *)

\* The ring holds the youngest bytes, in order; what left it is older.
RingInv ==
  /\ Len(ring) <= stamp
  /\ \A i \in 1..Len(ring) : ring[i] = stamp - Len(ring) + i

DrainedInv ==
  /\ \A t \in Threads : \A x \in BytesOf(frame[t]) : x <= stamp - Len(ring)
  /\ \A c \in Clients : \A i \in DOMAIN rx[c] : \A x \in Got(c, i) :
       x <= stamp - Len(ring)

DisjointInv ==
  /\ \A t, u \in Threads : t # u => BytesOf(frame[t]) \cap BytesOf(frame[u]) = {}
  /\ \A c \in Clients : \A i \in DOMAIN rx[c] :
       /\ \A t \in Threads : Got(c, i) \cap BytesOf(frame[t]) = {}
       /\ \A d \in Clients : \A j \in DOMAIN rx[d] :
            <<c, i>> # <<d, j>> => Got(c, i) \cap Got(d, j) = {}

\* What a thread holds is younger than all it sent before.
OrderInv ==
  /\ OrderPerFlusher
  /\ \A c \in Clients : \A i \in DOMAIN rx[c] :
       \A x \in Got(c, i), y \in BytesOf(frame[rx[c][i].by]) : x < y

ByteInv == RingInv /\ DrainedInv /\ DisjointInv /\ OrderInv

LEMMA RingBytes ==
  ASSUME OutputType, RingInv
  PROVE  \A x \in BytesOf(ring) :
           x \in Nat /\ stamp - Len(ring) < x /\ x <= stamp
<1> SUFFICES ASSUME NEW x \in BytesOf(ring)
             PROVE  x \in Nat /\ stamp - Len(ring) < x /\ x <= stamp
  OBVIOUS
<1>1. PICK i \in 1..Len(ring) : x = ring[i]
  BY DEF OutputType, BytesOf
<1>2. x = stamp - Len(ring) + i /\ Len(ring) \in Nat /\ stamp \in Nat /\ Len(ring) <= stamp
  BY <1>1 DEF OutputType, RingInv
<1> QED
  BY <1>2

\* The types of the bytes the invariants compare.
LEMMA ByteTypes ==
  ASSUME OutputType
  PROVE  /\ stamp \in Nat /\ Len(ring) \in Nat
         /\ \A t \in Threads : \A x \in BytesOf(frame[t]) : x \in Nat
         /\ \A c \in Clients : \A i \in DOMAIN rx[c] :
              /\ rx[c][i].by \in Threads
              /\ \A x \in Got(c, i) : x \in Nat
<1> DEFINE Frames == [by : Threads, data : Seq(Nat)]
<1>1. stamp \in Nat /\ Len(ring) \in Nat
  BY DEF OutputType
<1>2. \A t \in Threads : \A x \in BytesOf(frame[t]) : x \in Nat
  BY DEF OutputType, BytesOf
<1>3. ASSUME NEW c \in Clients, NEW i \in DOMAIN rx[c]
      PROVE  rx[c][i] \in Frames
  <2>1. rx[c] \in Seq(Frames)
    BY DEF OutputType
  <2> HIDE DEF Frames
  <2> QED
    BY <2>1
<1>4. ASSUME NEW c \in Clients, NEW i \in DOMAIN rx[c]
      PROVE  rx[c][i].by \in Threads /\ \A x \in Got(c, i) : x \in Nat
  BY <1>3 DEF Got, BytesOf
<1> QED
  BY <1>1, <1>2, <1>4

\* A step that leaves the frames and the age of the oldest byte in the ring alone.
LEMMA SameFrames ==
  ASSUME DrainedInv, DisjointInv, OrderInv, frame' = frame, rx' = rx,
         stamp' - Len(ring') = stamp - Len(ring)
  PROVE  DrainedInv' /\ DisjointInv' /\ OrderInv'
<1>1. \A c, i : Got(c, i)' = Got(c, i)
  BY DEF Got
<1>2. DrainedInv'
  BY <1>1 DEF DrainedInv
<1>3. DisjointInv'
  BY <1>1, ZenonT(60) DEF DisjointInv
<1>4. OrderInv'
  BY <1>1 DEF OrderInv, OrderPerFlusher
<1> QED
  BY <1>2, <1>3, <1>4

LEMMA EnqueueBytes ==
  ASSUME OutputType, ByteInv, NEW t \in Threads, Enqueue(t)
  PROVE  ByteInv'
<1>1. PICK n \in Lengths(t) :
        LET room == RingSize - Len(ring)
            k == IF n <= room THEN n ELSE room
        IN /\ ring' = ring \o [i \in 1..k |-> stamp + i]
           /\ stamp' = stamp + k
  BY DEF Enqueue
<1> DEFINE room == RingSize - Len(ring)
           k == IF n <= room THEN n ELSE room
           new == [i \in 1..k |-> stamp + i]
<1>2. k \in Nat
  BY ConsoleAssumption DEF OutputType, Lengths
<1> HIDE DEF k
<1>3. new \in Seq(Nat) /\ Len(new) = k /\ \A i \in 1..k : new[i] = stamp + i
  BY <1>2 DEF OutputType
<1> HIDE DEF new
<1>4. ring' = ring \o new /\ stamp' = stamp + k
  BY <1>1 DEF k, new
<1>5. ring \in Seq(Nat) /\ stamp \in Nat /\ Len(ring) \in Nat
  BY DEF OutputType
<1>6. /\ Len(ring') = Len(ring) + k
      /\ \A i \in 1..(Len(ring) + k) :
           ring'[i] = IF i <= Len(ring) THEN ring[i] ELSE new[i - Len(ring)]
  BY <1>3, <1>4, <1>5, ConcatProperties
<1>7. stamp' - Len(ring') = stamp - Len(ring)
  BY <1>2, <1>4, <1>5, <1>6
<1>8. RingInv'
  <2>1. Len(ring) <= stamp /\ \A i \in 1..Len(ring) : ring[i] = stamp - Len(ring) + i
    BY DEF ByteInv, RingInv
  <2>2. ASSUME NEW i \in 1..Len(ring') PROVE ring'[i] = stamp' - Len(ring') + i
    <3>1. CASE i <= Len(ring)
      BY <1>2, <1>5, <1>6, <1>7, <2>1, <3>1
    <3>2. CASE ~(i <= Len(ring))
      <4>1. i - Len(ring) \in 1..k /\ ring'[i] = new[i - Len(ring)]
        BY <1>2, <1>5, <1>6, <3>2
      <4>2. ring'[i] = stamp + (i - Len(ring))
        BY <1>3, <4>1
      <4> QED
        BY <1>2, <1>5, <1>6, <1>7, <4>2
    <3> QED
      BY <3>1, <3>2
  <2>3. Len(ring') <= stamp'
    BY <1>2, <1>4, <1>5, <1>6, <2>1
  <2> QED
    BY <2>2, <2>3 DEF RingInv
<1>9. frame' = frame /\ rx' = rx
  BY DEF Enqueue
<1>10. DrainedInv' /\ DisjointInv' /\ OrderInv'
  BY <1>7, <1>9, SameFrames DEF ByteInv
<1> QED
  BY <1>8, <1>10 DEF ByteInv

LEMMA DrainBytes ==
  ASSUME OutputType, ByteInv, NEW t \in Threads, Drain(t)
  PROVE  ByteInv'
<1>1. CASE NothingToSend(t)
  <2>1. frame' = frame /\ rx' = rx /\ ring' = ring /\ stamp' = stamp
    BY <1>1 DEF Drain, NothingToSend
  <2> QED
    BY <2>1, SameFrames DEF ByteInv, RingInv
<1>2. CASE Take(t, ring, <<>>)
  <2>1. ring' = <<>> /\ stamp' = stamp /\ rx' = rx /\ frame' = [frame EXCEPT ![t] = ring]
    BY <1>2 DEF Take, Drain
  <2>2. \A u \in Threads : BytesOf(frame'[u]) = IF u = t THEN BytesOf(ring)
                                                 ELSE BytesOf(frame[u])
    BY <2>1 DEF OutputType
  <2>3. RingInv'
    BY <2>1, ByteTypes DEF RingInv
  <2> DEFINE old == stamp - Len(ring)
  <2>4. /\ stamp' - Len(ring') = stamp
        /\ \A x \in BytesOf(ring) : x \in Nat /\ old < x /\ x <= stamp
        /\ old \in Nat /\ old <= stamp
    BY <2>1, RingBytes, ByteTypes DEF ByteInv, RingInv
  <2>5. /\ \A u \in Threads : \A x \in BytesOf(frame[u]) : x \in Nat /\ x <= old
        /\ \A c \in Clients : \A i \in DOMAIN rx[c] : \A x \in Got(c, i) :
             x \in Nat /\ x <= old
    BY ByteTypes DEF ByteInv, DrainedInv
  <2> HIDE DEF old
  <2>6. \A c, i : Got(c, i)' = Got(c, i)
    BY <2>1 DEF Got
  <2>7. DrainedInv'
    BY <2>1, <2>2, <2>4, <2>5, <2>6, ByteTypes DEF DrainedInv
  <2>8. DisjointInv'
    <3>1. \A u \in Threads : BytesOf(ring) \cap BytesOf(frame[u]) = {}
      BY <2>4, <2>5
    <3>2. \A c \in Clients : \A i \in DOMAIN rx[c] : Got(c, i) \cap BytesOf(ring) = {}
      BY <2>4, <2>5
    <3>3. ASSUME NEW u \in Threads, NEW v \in Threads, u # v
          PROVE  BytesOf(frame'[u]) \cap BytesOf(frame'[v]) = {}
      BY <2>2, <3>1, <3>3 DEF ByteInv, DisjointInv
    <3>4. ASSUME NEW c \in Clients, NEW i \in DOMAIN rx[c], NEW u \in Threads
          PROVE  Got(c, i) \cap BytesOf(frame'[u]) = {}
      BY <2>2, <3>2 DEF ByteInv, DisjointInv
    <3>5. ASSUME NEW c \in Clients, NEW i \in DOMAIN rx[c],
                 NEW d \in Clients, NEW j \in DOMAIN rx[d], <<c, i>> # <<d, j>>
          PROVE  Got(c, i) \cap Got(d, j) = {}
      BY <3>5 DEF ByteInv, DisjointInv
    <3> QED
      BY <2>1, <2>6, <3>3, <3>4, <3>5 DEF DisjointInv
  <2>9. OrderInv'
    <3>1. OrderPerFlusher'
      BY <2>1, <2>6 DEF ByteInv, OrderInv, OrderPerFlusher
    <3>2. ASSUME NEW c \in Clients, NEW i \in DOMAIN rx[c], NEW x \in Got(c, i),
                 NEW y \in BytesOf(frame'[rx[c][i].by])
          PROVE  x < y
      <4>1. rx[c][i].by \in Threads
        BY ByteTypes
      <4>2. CASE rx[c][i].by = t
        BY <2>2, <2>4, <2>5, <4>1, <4>2
      <4>3. CASE rx[c][i].by # t
        BY <2>2, <4>1, <4>3 DEF ByteInv, OrderInv
      <4> QED
        BY <4>2, <4>3
    <3> QED
      BY <2>1, <2>6, <3>1, <3>2 DEF OrderInv
  <2> QED
    BY <2>3, <2>7, <2>8, <2>9 DEF ByteInv
<1> QED
  BY <1>1, <1>2 DEF Drain

LEMMA SendOkBytes ==
  ASSUME OutputType, HoldsClient, ByteInv, NEW t \in Threads, SendOk(t)
  PROVE  ByteInv'
<1> DEFINE K == cli[t]
           sent == [by |-> t, data |-> frame[t]]
           Frames == [by : Threads, data : Seq(Nat)]
           n == Len(rx[K]) + 1
<1>1. /\ K \in Clients
      /\ ring' = ring /\ stamp' = stamp
      /\ frame' = [frame EXCEPT ![t] = <<>>]
      /\ rx' = rx \/ rx' = [rx EXCEPT ![K] = Append(@, sent)]
  BY DEF SendOk, HoldsClient
<1>2. \A u \in Threads : BytesOf(frame'[u]) = IF u = t THEN {} ELSE BytesOf(frame[u])
  BY <1>1 DEF OutputType, BytesOf
<1>3. rx \in [Clients -> Seq(Frames)] /\ sent \in Frames
  BY DEF OutputType
<1>4. sent.by = t /\ sent.data = frame[t]
  OBVIOUS
<1> HIDE DEF Frames, sent
\* Each frame in rx' is the new one or one of before.
<1> DEFINE IsNew(c, i) == c = K /\ i = n /\ rx'[c][i] = sent
           IsOld(c, i) == /\ i \in DOMAIN rx[c] /\ rx'[c][i] = rx[c][i]
                          /\ c = K => i < n
<1>5. ASSUME NEW c \in Clients, NEW i \in DOMAIN rx'[c]
      PROVE  IsNew(c, i) \/ IsOld(c, i)
  <2>1. rx[c] \in Seq(Frames) /\ rx[K] \in Seq(Frames)
    BY <1>1, <1>3
  <2>2. CASE rx'[c] = rx[c]
    BY <2>1, <2>2
  <2>3. CASE c = K /\ rx'[c] = Append(rx[c], sent)
    BY <1>3, <2>1, <2>3, AppendProperties
  <2> QED
    BY <1>1, <1>3, <2>2, <2>3
<1>6. \A c, i : /\ IsNew(c, i) => Got(c, i)' = BytesOf(frame[t])
                /\ IsOld(c, i) => Got(c, i)' = Got(c, i)
  BY <1>4 DEF Got
<1>7. RingInv'
  BY <1>1 DEF ByteInv, RingInv
<1>8. DrainedInv'
  <2>1. \A u \in Threads : \A x \in BytesOf(frame'[u]) : x <= stamp' - Len(ring')
    BY <1>1, <1>2 DEF ByteInv, DrainedInv
  <2>2. ASSUME NEW c \in Clients, NEW i \in DOMAIN rx'[c], NEW x \in Got(c, i)'
        PROVE  x <= stamp' - Len(ring')
    BY <1>1, <1>5, <1>6, <2>2 DEF ByteInv, DrainedInv
  <2> QED
    BY <2>1, <2>2 DEF DrainedInv
<1>9. DisjointInv'
  <2>1. ASSUME NEW u \in Threads, NEW v \in Threads, u # v
        PROVE  BytesOf(frame'[u]) \cap BytesOf(frame'[v]) = {}
    BY <1>2, <2>1 DEF ByteInv, DisjointInv
  <2>2. ASSUME NEW c \in Clients, NEW i \in DOMAIN rx'[c], NEW u \in Threads
        PROVE  Got(c, i)' \cap BytesOf(frame'[u]) = {}
    BY <1>2, <1>5, <1>6 DEF ByteInv, DisjointInv
  <2>3. ASSUME NEW c \in Clients, NEW i \in DOMAIN rx'[c],
               NEW d \in Clients, NEW j \in DOMAIN rx'[d], <<c, i>> # <<d, j>>
        PROVE  Got(c, i)' \cap Got(d, j)' = {}
    <3>1. IsNew(c, i) => ~IsNew(d, j)
      BY <2>3
    <3>2. CASE IsOld(c, i) /\ IsOld(d, j)
      BY <1>6, <2>3, <3>2 DEF ByteInv, DisjointInv
    <3>3. CASE IsNew(c, i) /\ IsOld(d, j)
      BY <1>6, <3>3 DEF ByteInv, DisjointInv
    <3>4. CASE IsOld(c, i) /\ IsNew(d, j)
      BY <1>6, <3>4 DEF ByteInv, DisjointInv
    <3> QED
      BY <1>5, <3>1, <3>2, <3>3, <3>4
  <2> QED
    BY <2>1, <2>2, <2>3 DEF DisjointInv
<1>10. OrderInv'
  <2>1. ASSUME NEW c \in Clients, NEW i \in DOMAIN rx'[c], NEW j \in DOMAIN rx'[c],
               i < j, rx'[c][i].by = rx'[c][j].by,
               NEW x \in Got(c, i)', NEW y \in Got(c, j)'
        PROVE  x < y
    <3>1. rx[c] \in Seq(Frames) /\ n \in Nat
      BY <1>1, <1>3
    <3>2. CASE IsOld(c, i) /\ IsOld(c, j)
      BY <1>6, <2>1, <3>2 DEF ByteInv, OrderInv, OrderPerFlusher
    <3>3. CASE IsOld(c, i) /\ IsNew(c, j)
      BY <1>4, <1>6, <2>1, <3>3 DEF ByteInv, OrderInv
    <3>4. ~IsNew(c, i)
      <4>1. SUFFICES ASSUME IsNew(c, i) PROVE FALSE
        OBVIOUS
      <4>2. i = n /\ (j = n \/ j < n)
        BY <1>5, <4>1
      <4>3. i \in Nat /\ j \in Nat
        BY <1>5, <3>1, <4>2
      <4> QED
        BY <2>1, <3>1, <4>2, <4>3
    <3> QED
      BY <1>5, <3>2, <3>3, <3>4
  <2>2. ASSUME NEW c \in Clients, NEW i \in DOMAIN rx'[c],
               NEW x \in Got(c, i)', NEW y \in BytesOf(frame'[rx'[c][i].by])
        PROVE  x < y
    <3>1. CASE IsNew(c, i)
      BY <1>2, <1>4, <3>1
    <3>2. CASE IsOld(c, i)
      <4>1. rx[c][i].by \in Threads
        BY <3>2, ByteTypes
      <4> QED
        BY <1>2, <1>6, <3>2, <4>1 DEF ByteInv, OrderInv
    <3> QED
      BY <1>5, <3>1, <3>2
  <2> QED
    BY <2>1, <2>2 DEF OrderInv, OrderPerFlusher
<1> QED
  BY <1>7, <1>8, <1>9, <1>10 DEF ByteInv

LEMMA SendFailBytes ==
  ASSUME OutputType, ByteInv, NEW t \in Threads, SendFail(t)
  PROVE  ByteInv'
<1>1. /\ ring' = ring /\ stamp' = stamp /\ rx' = rx
      /\ frame' = [frame EXCEPT ![t] = <<>>]
  BY DEF SendFail
<1>2. \A u \in Threads : BytesOf(frame'[u]) = IF u = t THEN {} ELSE BytesOf(frame[u])
  BY <1>1 DEF OutputType, BytesOf
<1>3. \A c, i : Got(c, i)' = Got(c, i)
  BY <1>1 DEF Got
<1>4. RingInv'
  BY <1>1 DEF ByteInv, RingInv
<1>5. DrainedInv'
  BY <1>1, <1>2, <1>3 DEF ByteInv, DrainedInv
<1>6. DisjointInv'
  <2>1. ASSUME NEW u \in Threads, NEW v \in Threads, u # v
        PROVE  BytesOf(frame'[u]) \cap BytesOf(frame'[v]) = {}
    BY <1>2, <2>1 DEF ByteInv, DisjointInv
  <2>2. ASSUME NEW c \in Clients, NEW i \in DOMAIN rx[c], NEW u \in Threads
        PROVE  Got(c, i) \cap BytesOf(frame'[u]) = {}
    BY <1>2 DEF ByteInv, DisjointInv
  <2>3. ASSUME NEW c \in Clients, NEW i \in DOMAIN rx[c],
               NEW d \in Clients, NEW j \in DOMAIN rx[d], <<c, i>> # <<d, j>>
        PROVE  Got(c, i) \cap Got(d, j) = {}
    BY <2>3 DEF ByteInv, DisjointInv
  <2> QED
    BY <1>1, <1>3, <2>1, <2>2, <2>3 DEF DisjointInv
<1>7. OrderInv'
  <2>1. \A c \in Clients : \A i \in DOMAIN rx[c] : rx[c][i].by \in Threads
    BY ByteTypes
  <2> QED
    BY <1>1, <1>2, <1>3, <2>1 DEF ByteInv, OrderInv, OrderPerFlusher
<1> QED
  BY <1>4, <1>5, <1>6, <1>7 DEF ByteInv

LEMMA ByteInvCorrect == Spec => []ByteInv
<1>1. Init => ByteInv
  BY DEF Init, ByteInv, RingInv, DrainedInv, DisjointInv, OrderInv, OrderPerFlusher,
     BytesOf
<1>2. TypeInv /\ ByteInv /\ [Next]_vars => ByteInv'
  <2> SUFFICES ASSUME TypeInv, ByteInv, [Next]_vars PROVE ByteInv'
    OBVIOUS
  <2>1. OutputType /\ HoldsClient
    BY DEF TypeInv, TypeOK
  <2>2. CASE UNCHANGED output
    BY <2>2, SameFrames DEF output, ByteInv, RingInv
  <2> QED
    BY <2>1, <2>2, OutputSteps, EnqueueBytes, DrainBytes, SendOkBytes, SendFailBytes
<1> QED
  BY <1>1, <1>2, TypeInvCorrect, PTL DEF Spec

\* No byte of the terminal is sent twice or is in two places, whatever the threads
\* that flush do (flush_terminal_output_buffer, web_console.c:224-268).
THEOREM ByteOnce == Spec => []NoByteTwice
<1>1. TypeInv /\ ByteInv => NoByteTwice
  <2> SUFFICES ASSUME TypeInv, ByteInv PROVE NoByteTwice
    OBVIOUS
  <2>1. OutputType /\ RingInv /\ DrainedInv /\ DisjointInv
    BY DEF TypeInv, TypeOK, ByteInv
  <2>2. ASSUME NEW t \in Threads PROVE BytesOf(ring) \cap BytesOf(frame[t]) = {}
    <3>1. \A x \in BytesOf(frame[t]) : x \in Nat /\ x <= stamp - Len(ring)
      BY <2>1, ByteTypes DEF DrainedInv
    <3>2. \A x \in BytesOf(ring) : x \in Nat /\ stamp - Len(ring) < x
      BY <2>1, RingBytes
    <3> QED
      BY <2>1, <3>1, <3>2, ByteTypes
  <2>3. ASSUME NEW c \in Clients, NEW i \in DOMAIN rx[c]
        PROVE  Got(c, i) \cap BytesOf(ring) = {}
    <3>1. \A x \in Got(c, i) : x \in Nat /\ x <= stamp - Len(ring)
      BY <2>1, ByteTypes DEF DrainedInv
    <3>2. \A x \in BytesOf(ring) : x \in Nat /\ stamp - Len(ring) < x
      BY <2>1, RingBytes
    <3> QED
      BY <2>1, <3>1, <3>2, ByteTypes
  <2> QED
    BY <2>1, <2>2, <2>3 DEF NoByteTwice, DisjointInv
<1> QED
  BY <1>1, TypeInvCorrect, ByteInvCorrect, PTL

\* Each flushing thread delivers what it took in the order it was produced: frames
\* of different threads are the only ones that can overtake one another.
THEOREM FlusherOrder == Spec => []OrderPerFlusher
BY ByteInvCorrect, PTL DEF ByteInv, OrderInv

-----------------------------------------------------------------------------
(* A closed client is never current *)

SessionInv ==
  \A c \in Clients : /\ conn[c] = "closed" => pc[c] = "end"
                     /\ pc[c] \in {"slow", "end"} => current # c

\* A step of thread t that neither closes a client nor makes one current.
Calm(t) ==
  /\ pc[t] \notin {"slow", "end"}
  /\ \E l \in Labels \ {"slow", "end"} : pc' = [pc EXCEPT ![t] = l]
  /\ \A c \in Clients : conn'[c] = "closed" => conn[c] = "closed"
  /\ current' \in {current, NoClient}

LEMMA CalmKeeps ==
  ASSUME TypeInv, SessionInv, NEW t \in Threads, Calm(t)
  PROVE  SessionInv'
BY ConsoleAssumption DEF SessionInv, Calm, TypeInv, TypeOK, ThreadType, Threads

LEMMA CalmSteps ==
  ASSUME TypeInv, SessionInv, [Next]_vars
  PROVE  \/ UNCHANGED <<session, pc>>
         \/ \E t \in Threads : Calm(t)
         \/ \E c \in Clients : \/ PeerGone(c) \/ OnMessage(c)
                               \/ OnOpenStore(c) \/ OnClose(c) \/ DisconnectCb(c)
<1> USE DEF Calm, Goto, session
<1>1. /\ pc \in [Threads -> Labels]
      /\ ret \in [Threads -> {"idle", "burst", "banner"}]
      /\ conn \in [Clients -> ConnStates]
  BY DEF TypeInv, TypeOK, SessionType, ThreadType
<1>2. \A t \in Threads : ret[t] \in Labels \ {"slow", "end"}
  BY <1>1 DEF Labels
<1>3. /\ {"idle", "burst", "store", "enqueue", "drain", "send", "error", "flush",
          "banner", "run", "accept"} \subseteq Labels \ {"slow", "end"}
      /\ Cpu \in Threads /\ Timer \in Threads /\ \A c \in Clients : c \in Threads
  BY DEF Labels, Threads
<1>4. ASSUME NEW t \in Threads, Enqueue(t) PROVE Calm(t)
  BY <1>2, <1>3, <1>4 DEF Enqueue
<1>5. ASSUME NEW t \in Threads, FlushLoad(t), pc[t] \in {"flush", "idle"} PROVE Calm(t)
  BY <1>2, <1>3, <1>5 DEF FlushLoad
<1>6. ASSUME NEW t \in Threads, Drain(t) PROVE Calm(t)
  BY <1>2, <1>3, <1>6 DEF Drain, NothingToSend, Take
<1>7. ASSUME NEW t \in Threads, SendOk(t) \/ SendFail(t) PROVE Calm(t)
  BY <1>2, <1>3, <1>7 DEF SendOk, SendFail
<1>8. ASSUME NEW t \in Threads, HandleError(t) PROVE Calm(t)
  BY <1>1, <1>2, <1>3, <1>8 DEF HandleError, Closing
<1>9. ASSUME NEW t \in Threads, Publish(t), UNCHANGED session,
             pc[t] \in {"burst", "banner"}
      PROVE  Calm(t)
  BY <1>2, <1>3, <1>9 DEF Publish
<1>10. CASE CpuReadMode \/ CpuBurstEnds
  BY <1>3, <1>10 DEF CpuReadMode, CpuBurstEnds
<1>11. ASSUME NEW c \in Clients, Connect(c) PROVE Calm(c)
  BY <1>1, <1>3, <1>11 DEF Connect
<1>12. ASSUME NEW c \in Clients, OnOpenEvict(c) \/ ConnectedCb(c) PROVE Calm(c)
  BY <1>1, <1>3, <1>12 DEF OnOpenEvict, ConnectedCb, Closing
<1>13. ASSUME NEW c \in Clients, Banner(c) PROVE Calm(c)
  BY <1>2, <1>3, <1>13 DEF Banner, Publish
<1>14. CASE UNCHANGED vars
  BY <1>14 DEF vars
<1> HIDE DEF Calm
<1> QED
  BY <1>3, <1>4, <1>5, <1>6, <1>7, <1>8, <1>9, <1>10, <1>11, <1>12, <1>13, <1>14
  DEF Next, CpuThread, TerminalWrite, TimerThread, Handlers, PublishSteps,
      ProducerFlush, TimerFlush

LEMMA SessionInvStep ==
  ASSUME TypeInv, SessionInv, [Next]_vars
  PROVE  SessionInv'
<1> USE DEF SessionInv
<1>1. /\ pc \in [Threads -> Labels] /\ conn \in [Clients -> ConnStates]
      /\ \A c \in Clients : c \in Threads
  BY DEF TypeInv, TypeOK, SessionType, ThreadType, Threads
<1>2. CASE UNCHANGED <<session, pc>>
  BY <1>2 DEF session
<1>3. ASSUME NEW t \in Threads, Calm(t) PROVE SessionInv'
  BY <1>3, CalmKeeps
<1>4. ASSUME NEW c \in Clients, PeerGone(c) PROVE SessionInv'
  BY <1>1, <1>4 DEF PeerGone, Closing
<1>5. ASSUME NEW c \in Clients, OnMessage(c) PROVE SessionInv'
  <2>1. /\ pc' = pc \/ \E l \in {"idle", "burst", "banner", "enqueue"} :
                          pc' = [pc EXCEPT ![c] = l]
        /\ pc[c] = "idle" /\ conn' = conn /\ current' = current
    BY <1>1, <1>5 DEF OnMessage, Publish, Goto, TypeInv, TypeOK, ThreadType
  <2> QED
    BY <1>1, <2>1
<1>6. ASSUME NEW c \in Clients, OnOpenStore(c) PROVE SessionInv'
  BY <1>1, <1>6 DEF OnOpenStore, Goto
<1>7. ASSUME NEW c \in Clients, OnClose(c) PROVE SessionInv'
  BY <1>1, <1>7, ConsoleAssumption DEF OnClose, Goto
<1>8. ASSUME NEW c \in Clients, DisconnectCb(c) PROVE SessionInv'
  BY <1>1, <1>8 DEF DisconnectCb, Goto
<1> QED
  BY <1>2, <1>3, <1>4, <1>5, <1>6, <1>7, <1>8, CalmSteps

\* A client whose onclose has run is never the current client again, however the
\* handlers of other clients interleave (onopen and onclose, web_console.c:458-504).
THEOREM DeadNeverCurrent == Spec => []NoDeadCurrent
<1>1. Init => SessionInv
  BY DEF Init, SessionInv, Threads
<1>2. SessionInv => NoDeadCurrent
  BY DEF SessionInv, NoDeadCurrent
<1> QED
  BY <1>1, <1>2, SessionInvStep, TypeInvCorrect, PTL DEF Spec

-----------------------------------------------------------------------------
(* Nothing is lost while every session stays *)

AllStay == \A c \in Clients : conn[c] \in {"absent", "open"}

\* Who may be sent to, or become current, has connected.
Known ==
  /\ current # NoClient => conn[current] # "absent"
  /\ \A t \in Threads : cli[t] # NoClient => conn[cli[t]] # "absent"
  /\ \A c \in Clients : pc[c] \in {"accept", "store"} => conn[c] # "absent"

\* Only a thread about to send has a frame.
FramesInSend == \A t \in Threads : pc[t] # "send" => BytesOf(frame[t]) = {}

\* The byte x is in the ring, in a flush or with a client.
IsKept(x) ==
  \/ x \in BytesOf(ring)
  \/ \E t \in Threads : x \in BytesOf(frame[t])
  \/ \E c \in Clients : \E i \in DOMAIN rx[c] : x \in Got(c, i)

StayInv == Known /\ FramesInSend /\ (AllStay => \A x \in 1..stamp : IsKept(x))

\* A connection that was absent or is open has never been anything else.
LEMMA StaysBefore ==
  ASSUME TypeInv, [Next]_vars
  PROVE  /\ AllStay' => AllStay
         /\ \A c \in Clients : conn[c] # "absent" => conn'[c] # "absent"
<1>1. conn \in [Clients -> ConnStates]
  BY DEF TypeInv, TypeOK, SessionType
<1>2. CASE UNCHANGED session
  BY <1>2 DEF session, AllStay
<1>3. ASSUME NEW t \in Threads, HandleError(t)
      PROVE  \A c \in Clients : /\ conn'[c] \in {"absent", "open"} => conn'[c] = conn[c]
                                /\ conn[c] # "absent" => conn'[c] # "absent"
  BY <1>1, <1>3 DEF HandleError, Closing
<1>4. ASSUME NEW d \in Clients, OnOpenEvict(d) \/ PeerGone(d) \/ DisconnectCb(d)
      PROVE  \A c \in Clients : /\ conn'[c] \in {"absent", "open"} => conn'[c] = conn[c]
                                /\ conn[c] # "absent" => conn'[c] # "absent"
  BY <1>1, <1>4 DEF OnOpenEvict, PeerGone, DisconnectCb, Closing
<1>5. ASSUME NEW d \in Clients, Connect(d)
      PROVE  /\ AllStay' => AllStay
             /\ \A c \in Clients : conn[c] # "absent" => conn'[c] # "absent"
  BY <1>1, <1>5 DEF Connect, AllStay
<1>6. ASSUME NEW d \in Clients,
             OnMessage(d) \/ OnOpenStore(d) \/ ConnectedCb(d) \/ OnClose(d)
      PROVE  conn' = conn
  BY <1>6 DEF OnMessage, OnOpenStore, ConnectedCb, OnClose
<1> QED
  BY <1>2, <1>3, <1>4, <1>5, <1>6, SessionSteps DEF AllStay

\* The steps that load, forget or make a client current, or let one in.
LEMMA KnownStep ==
  ASSUME TypeInv, Known, [Next]_vars
  PROVE  Known'
<1> DEFINE Fresh(c) == conn[c] # "absent"
<1>1. /\ pc \in [Threads -> Labels] /\ conn \in [Clients -> ConnStates]
      /\ current \in Clients \union {NoClient}
      /\ ret \in [Threads -> {"idle", "burst", "banner"}]
      /\ cli \in [Threads -> Clients \union {NoClient}]
  BY DEF TypeInv, TypeOK, SessionType, ThreadType
<1>2. \A c \in Clients : c \in Threads
  BY DEF Threads
<1>3. \A c \in Clients : conn[c] # "absent" => conn'[c] # "absent"
  BY StaysBefore
\* Whoever is known stays known while nobody new is named.
<1>4. ASSUME \A t \in Threads : cli'[t] \in {cli[t], NoClient},
             current' \in {current, NoClient},
             \A c \in Clients : pc'[c] \in {"accept", "store"} => pc[c] \in {"accept", "store"}
      PROVE  Known'
  BY <1>1, <1>3, <1>4 DEF Known
<1> DEFINE Quiet(t) == /\ \A u \in Threads : cli'[u] \in {cli[u], NoClient}
                       /\ current' \in {current, NoClient}
                       /\ \E l \in Labels \ {"accept", "store"} : pc' = [pc EXCEPT ![t] = l]
<1>5. ASSUME NEW t \in Threads, Quiet(t) PROVE Known'
  BY <1>1, <1>2, <1>4, <1>5
<1>6. \A t \in Threads : ret[t] \in Labels \ {"accept", "store"}
  BY <1>1 DEF Labels
<1>7. /\ {"idle", "burst", "enqueue", "drain", "send", "error", "flush",
          "banner", "run", "slow", "end"} \subseteq Labels \ {"accept", "store"}
      /\ Cpu \in Threads /\ Timer \in Threads
  BY DEF Labels, Threads
<1>8. ASSUME NEW t \in Threads, Enqueue(t) PROVE Quiet(t)
  BY <1>6, <1>7, <1>8 DEF Enqueue, Goto, session
<1>9. ASSUME NEW t \in Threads, Drain(t) PROVE Quiet(t)
  BY <1>1, <1>6, <1>7, <1>9 DEF Drain, NothingToSend, Take, Goto, session
<1>10. ASSUME NEW t \in Threads, SendOk(t) \/ SendFail(t) \/ HandleError(t) PROVE Quiet(t)
  BY <1>1, <1>6, <1>7, <1>10 DEF SendOk, SendFail, HandleError, Goto, session
<1>11. ASSUME NEW t \in Threads, FlushLoad(t) PROVE Known'
  <2>1. CASE current = NoClient
    BY <1>5, <1>6, <1>11, <2>1 DEF FlushLoad, Goto, session
  <2>2. CASE current # NoClient
    <3>1. /\ cli' = [cli EXCEPT ![t] = current] /\ pc' = [pc EXCEPT ![t] = "drain"]
          /\ conn' = conn /\ current' = current
      BY <1>11, <2>2 DEF FlushLoad, Goto, session
    <3> QED
      BY <1>1, <1>2, <2>2, <3>1 DEF Known
  <2> QED
    BY <2>1, <2>2
<1>12. ASSUME NEW t \in Threads, Publish(t), current' = current PROVE Quiet(t)
  BY <1>6, <1>7, <1>12 DEF Publish, Goto
<1>13. CASE CpuReadMode \/ CpuBurstEnds
  BY <1>5, <1>7, <1>13 DEF CpuReadMode, CpuBurstEnds, Goto, session
<1>14. CASE TerminalWrite
  BY <1>5, <1>7, <1>12, <1>14 DEF TerminalWrite, session
<1>15. ASSUME NEW c \in Clients, Connect(c) PROVE Known'
  <2>1. /\ conn' = [conn EXCEPT ![c] = "open"] /\ pc' = [pc EXCEPT ![c] = "accept"]
        /\ current' = current /\ cli' = cli
    BY <1>15 DEF Connect, Goto
  <2>2. conn'[c] # "absent"
    BY <1>1, <2>1
  <2> QED
    BY <1>1, <1>2, <1>3, <2>1, <2>2 DEF Known
<1>16. ASSUME NEW c \in Clients, PeerGone(c) PROVE Known'
  BY <1>4, <1>16 DEF PeerGone
<1>17. ASSUME NEW c \in Clients, OnOpenEvict(c) PROVE Known'
  <2>1. /\ pc[c] = "accept" /\ pc' = [pc EXCEPT ![c] = "store"]
        /\ current' = current /\ cli' = cli
    BY <1>17 DEF OnOpenEvict, Goto
  <2> QED
    BY <1>1, <1>2, <1>4, <2>1
<1>18. ASSUME NEW c \in Clients, OnOpenStore(c) PROVE Known'
  <2>1. /\ pc[c] = "store" /\ current' = c /\ cli' = cli /\ conn' = conn
        /\ \E l \in {"banner", "run"} : pc' = [pc EXCEPT ![c] = l]
    BY <1>18 DEF OnOpenStore, Goto
  <2>2. conn[c] # "absent"
    BY <2>1 DEF Known
  <2> QED
    BY <1>1, <1>2, <2>1, <2>2 DEF Known
<1>19. ASSUME NEW c \in Clients, Banner(c) PROVE Known'
  BY <1>2, <1>5, <1>7, <1>12, <1>19 DEF Banner, Goto, session
<1>20. ASSUME NEW c \in Clients, OnMessage(c) PROVE Known'
  BY <1>2, <1>4, <1>5, <1>12, <1>20 DEF OnMessage
<1>21. ASSUME NEW c \in Clients, ConnectedCb(c) \/ OnClose(c) \/ DisconnectCb(c)
       PROVE  Quiet(c)
  BY <1>2, <1>7, <1>21 DEF ConnectedCb, OnClose, DisconnectCb, Goto, session
<1>22. CASE UNCHANGED vars
  BY <1>4, <1>22 DEF vars
<1> HIDE DEF Quiet
<1>23. ASSUME NEW t \in Threads, PublishSteps(t) PROVE Known'
  BY <1>5, <1>8, <1>9, <1>10, <1>11, <1>23 DEF PublishSteps, ProducerFlush
<1> QED
  BY <1>2, <1>5, <1>7, <1>11, <1>13, <1>14, <1>15, <1>16, <1>17, <1>18, <1>19, <1>20, <1>21, <1>22, <1>23
  DEF Next, CpuThread, TimerThread, Handlers, TimerFlush

LEMMA FramesStep ==
  ASSUME TypeInv, FramesInSend, [Next]_vars
  PROVE  FramesInSend'
<1> USE DEF FramesInSend
<1>1. /\ pc \in [Threads -> Labels] /\ frame \in [Threads -> Seq(Nat)]
  BY DEF TypeInv, TypeOK, ThreadType, OutputType
<1>2. BytesOf(<<>>) = {}
  BY DEF BytesOf
\* A thread that is not sending has no frame, wherever it goes.
<1>3. ASSUME frame' = frame, NEW t \in Threads, pc[t] # "send",
             \A u \in Threads \ {t} : pc'[u] = pc[u]
      PROVE  FramesInSend'
  BY <1>3
<1>4. ASSUME NEW t \in Threads, SendOk(t) \/ SendFail(t) PROVE FramesInSend'
  <2>1. /\ frame' = [frame EXCEPT ![t] = <<>>]
        /\ \A u \in Threads \ {t} : pc'[u] = pc[u]
    BY <1>1, <1>4 DEF SendOk, SendFail, Goto
  <2> QED
    BY <1>1, <1>2, <2>1
<1>5. ASSUME NEW t \in Threads, Drain(t) PROVE FramesInSend'
  <2>1. CASE NothingToSend(t)
    BY <1>1, <1>3, <1>5, <2>1 DEF Drain, NothingToSend, Goto
  <2>2. CASE Take(t, ring, <<>>)
    BY <1>1, <2>2 DEF Take, Goto
  <2> QED
    BY <1>5, <2>1, <2>2 DEF Drain
<1>6. ASSUME NEW t \in Threads, Enqueue(t) \/ HandleError(t) PROVE FramesInSend'
  BY <1>1, <1>3, <1>6 DEF Enqueue, HandleError, Goto, output
<1>7. ASSUME NEW t \in Threads, FlushLoad(t), pc[t] # "send" PROVE FramesInSend'
  BY <1>1, <1>3, <1>7 DEF FlushLoad, Goto, output
<1>8. ASSUME NEW t \in Threads, Publish(t), pc[t] # "send" PROVE FramesInSend'
  BY <1>1, <1>3, <1>8 DEF Publish, Goto, output
<1>9. Cpu \in Threads /\ Timer \in Threads /\ \A c \in Clients : c \in Threads
  BY DEF Threads
<1>10. CASE CpuReadMode \/ TerminalWrite \/ CpuBurstEnds
  BY <1>1, <1>3, <1>8, <1>9, <1>10 DEF CpuReadMode, TerminalWrite, CpuBurstEnds, Goto, output
<1>11. ASSUME NEW c \in Clients,
              Connect(c) \/ OnOpenEvict(c) \/ OnOpenStore(c) \/ ConnectedCb(c)
       PROVE  FramesInSend'
  BY <1>1, <1>3, <1>9, <1>11 DEF Connect, OnOpenEvict, OnOpenStore, ConnectedCb, Goto, output
<1>12. ASSUME NEW c \in Clients, OnClose(c) \/ DisconnectCb(c) PROVE FramesInSend'
  BY <1>1, <1>3, <1>9, <1>12 DEF OnClose, DisconnectCb, Goto, output
<1>13. ASSUME NEW c \in Clients, Banner(c) PROVE FramesInSend'
  BY <1>1, <1>3, <1>8, <1>9, <1>13 DEF Banner, Goto, output
<1>14. ASSUME NEW c \in Clients, PeerGone(c) \/ OnMessage(c) PROVE FramesInSend'
  BY <1>8, <1>9, <1>14 DEF PeerGone, OnMessage, output
<1>15. CASE UNCHANGED vars
  BY <1>15 DEF vars
<1> HIDE DEF FramesInSend
<1>16. ASSUME NEW t \in Threads, PublishSteps(t) PROVE FramesInSend'
  BY <1>4, <1>5, <1>6, <1>7, <1>16 DEF PublishSteps, ProducerFlush
<1> QED
  BY <1>7, <1>9, <1>10, <1>11, <1>12, <1>13, <1>14, <1>15, <1>16
  DEF Next, CpuThread, TimerThread, Handlers, TimerFlush

\* Each step of the output path keeps every byte: it moves it on, or leaves it.
LEMMA KeptStep ==
  ASSUME TypeInv, Known, FramesInSend, AllStay, \A x \in 1..stamp : IsKept(x),
         [Next]_vars
  PROVE  \A x \in 1..stamp' : IsKept(x)'
<1>1. /\ ring \in Seq(Nat) /\ Len(ring) \in Nat /\ Len(ring) <= RingSize /\ stamp \in Nat
      /\ frame \in [Threads -> Seq(Nat)]
  BY DEF TypeInv, TypeOK, OutputType
<1>2. CASE UNCHANGED output
  BY <1>2 DEF output, IsKept, Got
<1>3. ASSUME NEW t \in Threads, Enqueue(t) PROVE \A x \in 1..stamp' : IsKept(x)'
  <2>1. PICK n \in Lengths(t) :
          LET room == RingSize - Len(ring)
              k == IF n <= room THEN n ELSE room
          IN /\ ring' = ring \o [i \in 1..k |-> stamp + i]
             /\ stamp' = stamp + k
    BY <1>3 DEF Enqueue
  <2> DEFINE room == RingSize - Len(ring)
             k == IF n <= room THEN n ELSE room
             new == [i \in 1..k |-> stamp + i]
  <2>2. k \in Nat
    BY <1>1, ConsoleAssumption DEF Lengths
  <2> HIDE DEF k
  <2>3. new \in Seq(Nat) /\ Len(new) = k /\ \A i \in 1..k : new[i] = stamp + i
    BY <1>1, <2>2
  <2> HIDE DEF new
  <2>4. ring' = ring \o new /\ stamp' = stamp + k
    BY <2>1 DEF k, new
  <2>5. /\ ring' \in Seq(Nat) /\ Len(ring') = Len(ring) + k
        /\ \A i \in 1..(Len(ring) + k) :
             ring'[i] = IF i <= Len(ring) THEN ring[i] ELSE new[i - Len(ring)]
    BY <1>1, <2>3, <2>4, ConcatProperties
  <2>6. frame' = frame /\ rx' = rx
    BY <1>3 DEF Enqueue
  <2> SUFFICES ASSUME NEW x \in 1..stamp' PROVE IsKept(x)'
    OBVIOUS
  <2>7. CASE x \in 1..stamp
    <3>1. IsKept(x)
      BY <2>7
    <3>2. ASSUME x \in BytesOf(ring) PROVE x \in BytesOf(ring')
      <4> DOMAIN ring = 1..Len(ring) /\ DOMAIN ring' = 1..Len(ring')
        BY <1>1, <2>5
      <4>1. PICK i \in 1..Len(ring) : x = ring[i]
        BY <3>2 DEF BytesOf
      <4>2. i \in 1..Len(ring') /\ ring'[i] = x
        BY <1>1, <2>2, <2>5, <4>1
      <4> QED
        BY <4>2 DEF BytesOf
    <3> QED
      BY <2>6, <3>1, <3>2 DEF IsKept, Got
  <2>8. CASE x \notin 1..stamp
    <3>1. x - stamp \in 1..k /\ x = stamp + (x - stamp)
      BY <1>1, <2>2, <2>4, <2>8
    <3> DEFINE i == Len(ring) + (x - stamp)
    <3>2. i \in 1..Len(ring') /\ ~(i <= Len(ring)) /\ i - Len(ring) = x - stamp
      BY <1>1, <2>2, <2>5, <3>1
    <3>3. ring'[i] = new[x - stamp]
      BY <2>5, <3>2
    <3>4. ring'[i] = x
      BY <2>3, <3>1, <3>3
    <3> HIDE DEF i
    <3>5. DOMAIN ring' = 1..Len(ring')
      BY <2>5
    <3>6. x \in BytesOf(ring')
      BY <3>2, <3>4, <3>5 DEF BytesOf
    <3> QED
      BY <3>6 DEF IsKept
  <2> QED
    BY <2>7, <2>8
<1>4. ASSUME NEW t \in Threads, Drain(t) PROVE \A x \in 1..stamp' : IsKept(x)'
  <2>1. CASE NothingToSend(t)
    BY <1>4, <2>1 DEF Drain, NothingToSend, IsKept, Got
  <2>2. CASE Take(t, ring, <<>>)
    <3>1. /\ stamp' = stamp /\ rx' = rx /\ frame' = [frame EXCEPT ![t] = ring]
          /\ pc[t] # "send"
      BY <1>4, <2>2 DEF Drain, Take
    <3>2. BytesOf(frame[t]) = {} /\ BytesOf(frame'[t]) = BytesOf(ring)
      BY <1>1, <3>1 DEF FramesInSend
    <3>3. \A u \in Threads \ {t} : frame'[u] = frame[u]
      BY <1>1, <3>1
    <3> SUFFICES ASSUME NEW x \in 1..stamp PROVE IsKept(x)'
      BY <3>1
    <3>4. IsKept(x)
      OBVIOUS
    <3>5. CASE x \in BytesOf(ring)
      BY <3>2, <3>5 DEF IsKept
    <3>6. ASSUME NEW u \in Threads, x \in BytesOf(frame[u]) PROVE IsKept(x)'
      BY <3>2, <3>3, <3>6 DEF IsKept
    <3>7. ASSUME NEW c \in Clients, NEW i \in DOMAIN rx[c], x \in Got(c, i) PROVE IsKept(x)'
      BY <3>1, <3>7 DEF IsKept, Got
    <3> QED
      BY <3>4, <3>5, <3>6, <3>7 DEF IsKept
  <2> QED
    BY <1>4, <2>1, <2>2 DEF Drain
<1>5. ASSUME NEW t \in Threads, SendOk(t) \/ SendFail(t) PROVE \A x \in 1..stamp' : IsKept(x)'
  <2> DEFINE K == cli[t]
             sent == [by |-> t, data |-> frame[t]]
             Frames == [by : Threads, data : Seq(Nat)]
  \* The client that the frame is for has connected and stays: the frame arrives.
  <2>1. K \in Clients /\ conn[K] = "open"
    BY <1>5, ConsoleAssumption DEF SendOk, SendFail, TypeInv, HoldsClient, Known, AllStay
  <2>2. /\ ring' = ring /\ stamp' = stamp /\ frame' = [frame EXCEPT ![t] = <<>>]
        /\ rx' = [rx EXCEPT ![K] = Append(@, sent)]
    BY <1>5, <2>1 DEF SendOk, SendFail
  <2>3. rx \in [Clients -> Seq(Frames)] /\ sent \in Frames
    BY <1>1 DEF TypeInv, TypeOK, OutputType
  <2>4. sent.data = frame[t]
    OBVIOUS
  <2> HIDE DEF Frames, sent
  <2>5. rx[K] \in Seq(Frames) /\ rx'[K] = Append(rx[K], sent)
    BY <2>1, <2>2, <2>3
  <2>6. /\ Len(rx[K]) + 1 \in DOMAIN rx'[K] /\ rx'[K][Len(rx[K]) + 1] = sent
        /\ \A i \in DOMAIN rx[K] : i \in DOMAIN rx'[K] /\ rx'[K][i] = rx[K][i]
    BY <2>3, <2>5, AppendProperties
  <2>7. \A c \in Clients : \A i \in DOMAIN rx[c] : i \in DOMAIN rx'[c] /\ rx'[c][i] = rx[c][i]
    BY <2>2, <2>3, <2>6
  <2> SUFFICES ASSUME NEW x \in 1..stamp PROVE IsKept(x)'
    BY <2>2
  <2>8. IsKept(x)
    OBVIOUS
  <2>9. CASE x \in BytesOf(ring)
    BY <2>2, <2>9 DEF IsKept
  <2>10. CASE x \in BytesOf(frame[t])
    <3>1. \E i \in DOMAIN rx'[K] : rx'[K][i].data = frame[t]
      BY <2>4, <2>6
    <3>2. \E c \in Clients : \E i \in DOMAIN rx'[c] : x \in BytesOf(rx'[c][i].data)
      BY <2>1, <2>10, <3>1
    <3> QED
      BY <3>2 DEF IsKept, Got
  <2>11. ASSUME NEW u \in Threads \ {t}, x \in BytesOf(frame[u]) PROVE IsKept(x)'
    <3>1. frame'[u] = frame[u]
      BY <1>1, <2>2
    <3> QED
      BY <2>11, <3>1 DEF IsKept
  <2>12. ASSUME NEW c \in Clients, NEW i \in DOMAIN rx[c], x \in Got(c, i) PROVE IsKept(x)'
    <3>1. x \in Got(c, i)' /\ i \in DOMAIN rx'[c]
      BY <2>7, <2>12 DEF Got
    <3> QED
      BY <3>1 DEF IsKept
  <2> QED
    BY <2>8, <2>9, <2>10, <2>11, <2>12 DEF IsKept
<1> QED
  BY <1>2, <1>3, <1>4, <1>5, OutputSteps

\* What the ring accepted is in the ring, in a flush or with a client, as long as no
\* session ends or is evicted (enqueue_terminal_output, flush_terminal_output_buffer,
\* web_console.c:188-268).
THEOREM NothingLost == Spec => []NothingLostWhileAllStay
<1>1. Init => StayInv
  BY ConsoleAssumption DEF Init, StayInv, Known, FramesInSend, BytesOf, Threads
<1>2. TypeInv /\ StayInv /\ [Next]_vars => StayInv'
  <2> SUFFICES ASSUME TypeInv, StayInv, [Next]_vars PROVE StayInv'
    OBVIOUS
  <2>1. Known' /\ FramesInSend'
    BY KnownStep, FramesStep DEF StayInv
  <2>2. ASSUME AllStay' PROVE \A x \in 1..stamp' : IsKept(x)'
    BY <2>2, StaysBefore, KeptStep DEF StayInv
  <2> QED
    BY <2>1, <2>2 DEF StayInv
<1>3. StayInv => NothingLostWhileAllStay
  <2> SUFFICES ASSUME StayInv, AllStay, NEW x \in 1..stamp
               PROVE  x \in BytesOf(ring)
                        \cup (UNION {BytesOf(frame[t]) : t \in Threads})
                        \cup (UNION {UNION {Got(c, i) : i \in DOMAIN rx[c]} : c \in Clients})
    BY DEF NothingLostWhileAllStay, AllStay
  <2>1. IsKept(x)
    BY DEF StayInv
  <2>2. ASSUME NEW t \in Threads, x \in BytesOf(frame[t])
        PROVE  x \in UNION {BytesOf(frame[u]) : u \in Threads}
    BY <2>2
  <2>3. ASSUME NEW c \in Clients, NEW i \in DOMAIN rx[c], x \in Got(c, i)
        PROVE  x \in UNION {UNION {Got(d, j) : j \in DOMAIN rx[d]} : d \in Clients}
    <3>1. x \in UNION {Got(c, j) : j \in DOMAIN rx[c]}
      BY <2>3
    <3> QED
      BY <3>1
  <2> QED
    BY <2>1, <2>2, <2>3 DEF IsKept
<1> QED
  BY <1>1, <1>2, <1>3, TypeInvCorrect, PTL DEF Spec

=============================================================================
