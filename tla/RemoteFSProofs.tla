--------------------------- MODULE RemoteFSProofs ---------------------------
(***************************************************************************)
(* Proofs about RemoteFS: what a client wrote is on its disks, and what it *)
(* reads is what it wrote, for any number of clients, connections and      *)
(* restarts, while nobody else has its directory.                          *)
(***************************************************************************)
EXTENDS RemoteFS, TLAPS

Requests == [op : {"write", "read"}, disk : Disks, value : Values]

\* A thread that does not exist, or not any more.
Unused(s) == session[s].at \in {"none", "gone"}

\* Threads belong to clients that connected; a client sends to a thread of its own.
IdsOK ==
  /\ \A s \in Sessions : Unused(s) => session[s].id = NoClient /\ queue[s] = <<>>
  /\ \A s \in Sessions : ~Unused(s) => session[s].id \in known
  /\ \A c \in Clients : current[c] # 0 => session[current[c]].id = c
  /\ \A c \in Clients \ known : current[c] = 0 /\ last[c] = [d \in Disks |-> Fresh(d)]

\* A directory is made for a client, and is empty before.
DirsOK ==
  /\ \A r \in made : \E c \in known : DirOf[c] = r
  /\ \A r \in Dirs \ made : \A d \in Disks : image[r][d] = Missing
  /\ \A s \in Sessions : ~Unused(s) /\ session[s].at # "dir" => Dir(s) \in made

\* The lock is held over several steps only to fill a new directory, and whoever else
\* needs it has not got beyond asking for it.
LockOK ==
  /\ \A s \in Sessions : session[s].at # "copy again" /\ (lock = s <=> session[s].at = "copy")
  /\ lock # 0 =>
       /\ \A d \in session[lock].todo : image[Dir(lock)][d] \in {Missing, Short}
       /\ \A d \in Disks \ session[lock].todo : image[Dir(lock)][d] \in Values
       /\ \A t \in Sessions \ {lock} : ~Unused(t) /\ Dir(t) = Dir(lock) => session[t].at = "dir"

\* A directory that nobody fills is full, unless the server was killed over it.
Filled(r) == \A d \in Disks : image[r][d] \in Values
FilledOK ==
  \A r \in made : Filled(r) \/ Sharing(r) \subseteq excused \/ (lock # 0 /\ Dir(lock) = r)

\* Clients with the same directory are excused.
Apart == \A c, e \in known : c # e /\ DirOf[c] = DirOf[e] => c \in excused

AllMapped(list) == \A d \in Disks : list[d] = "mapped"

ListsOK ==
  \A c \in Clients \ excused :
    /\ opened[c] = NoList \/ AllMapped(opened[c])
    /\ \A s \in Sessions : session[s].id = c =>
         /\ session[s].at # "create"
         /\ session[s].at = "open" => \A d \in Disks \ session[s].todo : session[s].list[d] = "mapped"
         /\ session[s].at = "ready" => AllMapped(session[s].list)

\* Only the newest connection has something on its way.
NewestOK ==
  \A c \in Clients \ excused : \A s \in Sessions :
    session[s].id = c /\ Pending(s) => s = current[c]

Waiting(c) == IF current[c] = 0 THEN <<>> ELSE queue[current[c]]

\* What a disk holds, or will when it is filled.
Holds(c, d) == IF image[DirOf[c]][d] \in Values THEN image[DirOf[c]][d] ELSE Fresh(d)

\* The requests q about disk d lead from content old to content new: h[i] is its content
\* after the first i of them.
Leads(q, d, old, new) ==
  \E h \in [0..Len(q) -> Values] :
    /\ h[0] = old /\ h[Len(q)] = new
    /\ \A i \in 1..Len(q) : q[i].disk = d => h[i] = q[i].value
    /\ \A i \in 1..Len(q) : ~(q[i].disk = d /\ q[i].op = "write") => h[i] = h[i - 1]

WrittenOK ==
  \A c \in known \ excused : \A d \in Disks : Leads(Waiting(c), d, Holds(c, d), last[c][d])

IInv ==
  /\ TypeOK /\ IdsOK /\ DirsOK /\ LockOK /\ FilledOK /\ Apart
  /\ ListsOK /\ NewestOK /\ WrittenOK /\ ReadBack

-----------------------------------------------------------------------------
(* Requests on their way *)

LEMMA FreshValue == \A d \in Disks : Fresh(d) \in Values
  BY RemoteAssumption DEF Fresh

LEMMA NothingWaits ==
  ASSUME NEW d, NEW v \in Values
  PROVE  Leads(<<>>, d, v, v)
<1> DEFINE h == [i \in 0..0 |-> v]
<1>1. h \in [0..Len(<<>>) -> Values] /\ h[0] = v /\ h[Len(<<>>)] = v
  OBVIOUS
<1>2. \A i \in 1..Len(<<>>) : FALSE
  OBVIOUS
<1> HIDE DEF h
<1> QED
  BY <1>1, <1>2 DEF Leads

LEMMA NothingWaited ==
  ASSUME NEW d, NEW old, NEW new, Leads(<<>>, d, old, new)
  PROVE  old = new
BY DEF Leads

\* Another request is sent.
LEMMA OneMoreWaits ==
  ASSUME NEW q \in Seq(Requests), NEW r \in Requests, NEW d, NEW old, NEW new, NEW next \in Values,
         Leads(q, d, old, new),
         r.disk = d => next = r.value,
         ~(r.disk = d /\ r.op = "write") => next = new
  PROVE  Leads(Append(q, r), d, old, next)
<1> DEFINE n == Len(q)
           p == Append(q, r)
<1>1. PICK h \in [0..n -> Values] :
        /\ h[0] = old /\ h[n] = new
        /\ \A i \in 1..n : q[i].disk = d => h[i] = q[i].value
        /\ \A i \in 1..n : ~(q[i].disk = d /\ q[i].op = "write") => h[i] = h[i - 1]
  BY DEF Leads
<1> DEFINE g == [i \in 0..(n + 1) |-> IF i = n + 1 THEN next ELSE h[i]]
<1>2. n \in Nat /\ Len(p) = n + 1 /\ p[n + 1] = r /\ \A i \in 1..n : p[i] = q[i]
  OBVIOUS
<1>3. g \in [0..(n + 1) -> Values] /\ g[n + 1] = next /\ \A i \in 0..n : g[i] = h[i]
  BY <1>2
<1>4. g[0] = old
  BY <1>1, <1>2, <1>3
<1> HIDE DEF g, n, p
<1>5. ASSUME NEW i \in 1..(n + 1)
      PROVE  /\ p[i].disk = d => g[i] = p[i].value
             /\ ~(p[i].disk = d /\ p[i].op = "write") => g[i] = g[i - 1]
  <2>1. CASE i = n + 1
    <3>1. g[i] = next /\ g[i - 1] = new /\ p[i] = r
      BY <1>1, <1>2, <1>3, <2>1
    <3> QED
      BY <3>1
  <2>2. CASE i \in 1..n
    <3>1. g[i] = h[i] /\ g[i - 1] = h[i - 1] /\ p[i] = q[i]
      BY <1>2, <1>3, <2>2
    <3> QED
      BY <1>1, <2>2, <3>1
  <2> QED
    BY <1>2, <2>1, <2>2
<1>6. Leads(p, d, old, next)
  BY <1>2, <1>3, <1>4, <1>5, SMTT(30) DEF Leads
<1> QED
  BY <1>6 DEF p

\* The first request is dealt with.
LEMMA OneLessWaits ==
  ASSUME NEW q \in Seq(Requests), q # <<>>, NEW d, NEW old, NEW new, Leads(q, d, old, new)
  PROVE  \E next \in Values :
           /\ Leads(Tail(q), d, next, new)
           /\ Head(q).disk = d => next = Head(q).value
           /\ ~(Head(q).disk = d /\ Head(q).op = "write") => next = old
<1> DEFINE n == Len(q)
           p == Tail(q)
<1>1. PICK h \in [0..n -> Values] :
        /\ h[0] = old /\ h[n] = new
        /\ \A i \in 1..n : q[i].disk = d => h[i] = q[i].value
        /\ \A i \in 1..n : ~(q[i].disk = d /\ q[i].op = "write") => h[i] = h[i - 1]
  BY DEF Leads
<1>2. n \in Nat \ {0} /\ Len(p) = n - 1 /\ q[1] = Head(q) /\ \A i \in 1..(n - 1) : p[i] = q[i + 1]
  OBVIOUS
<1> DEFINE g == [i \in 0..(n - 1) |-> h[i + 1]]
<1>3. g \in [0..(n - 1) -> Values] /\ g[0] = h[1] /\ g[n - 1] = new
  BY <1>1, <1>2
<1>4. p = Tail(q) /\ \A i \in 0..(n - 1) : g[i] = h[i + 1]
  OBVIOUS
<1> HIDE DEF g, n, p
<1>5. ASSUME NEW i \in 1..(n - 1)
      PROVE  /\ p[i].disk = d => g[i] = p[i].value
             /\ ~(p[i].disk = d /\ p[i].op = "write") => g[i] = g[i - 1]
  <2>1. /\ g[i] = h[i + 1] /\ g[i - 1] = h[(i + 1) - 1] /\ p[i] = q[i + 1]
        /\ i + 1 \in 1..n /\ (i + 1) - 1 \in 0..n
    <3>1. i \in 0..(n - 1) /\ i - 1 \in 0..(n - 1) /\ (i - 1) + 1 = (i + 1) - 1 /\ i + 1 \in 1..n
      BY <1>2
    <3> QED
      BY <1>2, <1>4, <3>1
  <2> QED
    BY <1>1, <2>1
<1>6. /\ h[1] \in Values
      /\ Head(q).disk = d => h[1] = Head(q).value
      /\ ~(Head(q).disk = d /\ Head(q).op = "write") => h[1] = old
  <2>1. 1 \in 1..n /\ 1 \in 0..n /\ 1 - 1 = 0
    BY <1>2
  <2>2. h[1] \in Values
    BY <1>1, <2>1
  <2>3. /\ q[1].disk = d => h[1] = q[1].value
        /\ ~(q[1].disk = d /\ q[1].op = "write") => h[1] = h[0]
    BY <1>1, <2>1
  <2> QED
    BY <1>1, <1>2, <2>2, <2>3
<1>7. Leads(p, d, h[1], new)
  BY <1>2, <1>3, <1>5 DEF Leads
<1>8. h[1] \in Values /\ Leads(Tail(q), d, h[1], new)
  BY <1>4, <1>6, <1>7
<1> QED
  BY <1>6, <1>8

-----------------------------------------------------------------------------
(* Types *)

Steps == {"none", "dir", "copy", "list", "dir again", "copy again", "open", "create",
          "ready", "gone"}
Ids == Clients \union {NoClient}
Marks == {"none", "mapped", "unmapped"}
Threads == [at : Steps, id : Ids, todo : SUBSET Disks, list : [Disks -> Marks]]

LEMMA StepNames ==
  /\ "none" \in Steps /\ "dir" \in Steps /\ "copy" \in Steps /\ "list" \in Steps
  /\ "dir again" \in Steps /\ "copy again" \in Steps /\ "open" \in Steps
  /\ "create" \in Steps /\ "ready" \in Steps /\ "gone" \in Steps
BY DEF Steps

LEMMA MarkNames == "none" \in Marks /\ "mapped" \in Marks /\ "unmapped" \in Marks
BY DEF Marks

LEMMA NoThread == 0 \notin Sessions
  BY RemoteAssumption DEF Sessions

LEMMA TypesInit == Init => TypeOK
<1> SUFFICES ASSUME Init PROVE TypeOK
  OBVIOUS
<1>1. \A d \in Disks : Fresh(d) \in Values
  BY FreshValue
<1>2. Missing \in Images /\ NoList \in Lists /\ Idle \in Threads
  BY DEF Images, NoList, Lists, Idle, Threads, Steps, Ids, Marks
<1>3. session \in [Sessions -> Threads] /\ opened \in [Clients -> Lists]
  BY <1>2 DEF Init
<1>4. /\ last \in [Clients -> [Disks -> Values]] /\ image \in [Dirs -> [Disks -> Images]]
      /\ current \in [Clients -> {0} \union Sessions]
  BY <1>1, <1>2 DEF Init
<1>5. queue \in [Sessions -> Seq(Requests)]
  BY DEF Init
<1> QED
  BY <1>3, <1>4, <1>5 DEF Init, TypeOK, Threads, Steps, Requests, Ids, Marks, Lists

LEMMA ImageChanges ==
  ASSUME NEW f \in [Dirs -> [Disks -> Images]], NEW r, NEW d, NEW v \in Images
  PROVE  [f EXCEPT ![r][d] = v] \in [Dirs -> [Disks -> Images]]
OBVIOUS

LEMMA SessionType == TypeOK => session \in [Sessions -> Threads]
BY DEF TypeOK, Threads, Steps, Ids, Marks, Lists

LEMMA TypesThread ==
  ASSUME TypeOK, IdsOK, NEW s \in Sessions, Thread(s)
  PROVE  TypeOK'
<1>1. /\ session \in [Sessions -> Threads] /\ queue \in [Sessions -> Seq(Requests)]
      /\ image \in [Dirs -> [Disks -> Images]] /\ opened \in [Clients -> [Disks -> Marks]]
      /\ made \subseteq Dirs /\ lock \in {0} \union Sessions
  BY DEF TypeOK, Threads, Steps, Requests, Ids, Marks, Lists
<1>2. ASSUME session' \in [Sessions -> Threads], queue' \in [Sessions -> Seq(Requests)],
             image' \in [Dirs -> [Disks -> Images]], opened' \in [Clients -> [Disks -> Marks]],
             made' \subseteq Dirs, lock' \in {0} \union Sessions,
             UNCHANGED <<current, last, known, excused>>
      PROVE  TypeOK'
  BY <1>2 DEF TypeOK, Threads, Steps, Requests, Ids, Marks, Lists
<1>3. /\ session[s].at \in Steps /\ session[s].todo \subseteq Disks /\ session[s].list \in [Disks -> Marks]
      /\ session[s].todo \in SUBSET Disks
  BY <1>1 DEF Threads
<1>4. ~Unused(s) => session[s].id \in Clients /\ Dir(s) \in Dirs
  BY RemoteAssumption DEF Dir, IdsOK, TypeOK
<1>5. CASE GetDir(s)
  <2>1. /\ Dir(s) \in Dirs
        /\ UNCHANGED <<image, opened, queue, current, last, known, excused>>
        /\ made' \in {made, made \union {Dir(s)}} /\ lock' \in {lock, s}
    BY <1>4, <1>5 DEF GetDir, Unused, history
  <2>2. session' \in [Sessions -> Threads]
    <3>1. \/ session' = [session EXCEPT ![s].at = IF @ = "dir" THEN "list" ELSE "open",
                                       ![s].todo = Disks]
          \/ session' = [session EXCEPT ![s].at = IF @ = "dir" THEN "copy" ELSE "copy again",
                                       ![s].todo = Disks]
      BY <1>5 DEF GetDir
    <3>2. CASE session' = [session EXCEPT ![s].at = IF @ = "dir" THEN "list" ELSE "open",
                                          ![s].todo = Disks]
      BY <3>2, SessionType, StepNames DEF Threads
    <3>3. CASE session' = [session EXCEPT ![s].at = IF @ = "dir" THEN "copy" ELSE "copy again",
                                          ![s].todo = Disks]
      BY <3>3, SessionType, StepNames DEF Threads
    <3> QED
      BY <3>1, <3>2, <3>3
  <2> QED
    BY <1>1, <1>2, <2>1, <2>2
<1>6. ASSUME NEW d \in Disks, Copy(s, d)
      PROVE  TypeOK'
  <2>1. /\ UNCHANGED <<made, lock, opened, queue, current, last, known, excused>>
        /\ \E v \in Images : image' = [image EXCEPT ![Dir(s)][d] = v]
    BY <1>6, FreshValue DEF Copy, history, Images
  <2>2. session' \in [Sessions -> Threads]
    <3>1. UNCHANGED session \/ session' = [session EXCEPT ![s].todo = @ \ {d}]
      BY <1>6 DEF Copy
    <3> QED
      BY <3>1, SessionType DEF Threads
  <2>3. image' \in [Dirs -> [Disks -> Images]]
    <3>1. PICK v \in Images : image' = [image EXCEPT ![Dir(s)][d] = v]
      BY <2>1
    <3>2. image \in [Dirs -> [Disks -> Images]]
      BY <1>1
    <3> QED
      BY <3>1, <3>2, ImageChanges
  <2> QED
    BY <1>1, <1>2, <2>1, <2>2, <2>3
<1>7. CASE Copied(s)
  <2>1. session' \in [Sessions -> Threads]
    BY <1>7, SessionType, StepNames DEF Copied, Threads
  <2>2. /\ UNCHANGED <<made, image, opened, queue, current, last, known, excused>>
        /\ lock' \in {0} \union Sessions
    BY <1>7 DEF Copied, files, history
  <2> QED
    BY <1>1, <1>2, <2>1, <2>2
<1>8. CASE GetList(s)
  <2>1. opened[session[s].id] \in [Disks -> Marks]
    BY <1>1, <1>4, <1>8 DEF GetList, At, Unused
  <2>2. session' \in [Sessions -> Threads]
    BY <1>8, <2>1, SessionType, StepNames, ZenonT(60) DEF GetList, Threads
  <2>3. UNCHANGED <<made, image, lock, opened, queue, current, last, known, excused>>
    BY <1>8 DEF GetList, files, history
  <2> QED
    BY <1>1, <1>2, <2>2, <2>3
<1>9. ASSUME NEW d \in Disks, Open(s, d)
      PROVE  TypeOK'
  <2>1. session' \in [Sessions -> Threads]
    <3>1. \/ session' = [session EXCEPT ![s].at = "create", ![s].todo = @ \ {d}]
          \/ \E mark \in Marks :
               session' = [session EXCEPT ![s].todo = @ \ {d}, ![s].list[d] = mark]
      BY <1>9, MarkNames DEF Open
    <3>2. CASE session' = [session EXCEPT ![s].at = "create", ![s].todo = @ \ {d}]
      BY <3>2, SessionType, StepNames DEF Threads
    <3>3. ASSUME NEW mark \in Marks,
                 session' = [session EXCEPT ![s].todo = @ \ {d}, ![s].list[d] = mark]
          PROVE  session' \in [Sessions -> Threads]
      BY <3>3, SessionType DEF Threads
    <3> QED
      BY <3>1, <3>2, <3>3
  <2>2. UNCHANGED <<made, image, lock, opened, queue, current, last, known, excused>>
    BY <1>9 DEF Open, files, history
  <2> QED
    BY <1>1, <1>2, <2>1, <2>2
<1>10. ASSUME NEW d \in Disks, Create(s, d)
       PROVE  TypeOK'
  <2>1. session' \in [Sessions -> Threads]
    BY <1>10, SessionType, StepNames, MarkNames DEF Create, Threads
  <2>2. 0 \in Images /\ image' = [image EXCEPT ![Dir(s)][d] = 0]
    BY <1>10, RemoteAssumption DEF Images, Create
  <2>3. image' \in [Dirs -> [Disks -> Images]]
    BY <1>1, <2>2
  <2>4. UNCHANGED <<made, lock, opened, queue, current, last, known, excused>>
    BY <1>10 DEF Create, history
  <2> QED
    BY <1>1, <1>2, <2>1, <2>3, <2>4
<1>11. CASE Store(s)
  <2>1. session' \in [Sessions -> Threads]
    BY <1>11, SessionType, StepNames DEF Store, To, Threads
  <2>2. /\ opened' = [opened EXCEPT ![session[s].id] = session[s].list]
        /\ UNCHANGED <<made, image, lock, queue, current, last, known, excused>>
    BY <1>11 DEF Store, files, history
  <2>3. opened' \in [Clients -> [Disks -> Marks]]
    BY <1>1, <1>3, <2>2
  <2> QED
    BY <1>1, <1>2, <2>1, <2>2, <2>3
<1>12. ASSUME NEW op, Handles(s, op)
       PROVE  queue' \in [Sessions -> Seq(Requests)] /\ Head(queue[s]) \in Requests
  <2>1. queue[s] \in Seq(Requests) /\ queue[s] # <<>> /\ queue' = [queue EXCEPT ![s] = Tail(@)]
    BY <1>1, <1>12 DEF Handles, Pending
  <2>2. Tail(queue[s]) \in Seq(Requests) /\ Head(queue[s]) \in Requests
    BY <2>1
  <2> QED
    BY <1>1, <2>1, <2>2
<1>13. CASE Write(s)
  <2>1. queue' \in [Sessions -> Seq(Requests)] /\ Head(queue[s]).value \in Images
    BY <1>12, <1>13 DEF Write, Requests, Images
  <2>2. image' = image \/ \E d : \E v \in Images : image' = [image EXCEPT ![Dir(s)][d] = v]
    BY <1>13, <2>1 DEF Write
  <2>3. image' \in [Dirs -> [Disks -> Images]]
    <3>1. image \in [Dirs -> [Disks -> Images]]
      BY <1>1
    <3>2. ASSUME NEW d, NEW v \in Images, image' = [image EXCEPT ![Dir(s)][d] = v]
          PROVE  image' \in [Dirs -> [Disks -> Images]]
      BY <3>1, <3>2, ImageChanges
    <3> QED
      BY <2>2, <3>1, <3>2
  <2>4. UNCHANGED <<made, lock, opened, session, current, last, known, excused>>
    BY <1>13 DEF Write, history
  <2> QED
    BY <1>1, <1>2, <2>1, <2>3, <2>4
<1>14. CASE Read(s)
  <2>1. UNCHANGED <<made, image, lock, opened, session, current, last, known, excused>>
    BY <1>14 DEF Read, files
  <2>2. queue' \in [Sessions -> Seq(Requests)]
    BY <1>12, <1>14 DEF Read
  <2> QED
    BY <1>1, <1>2, <2>1, <2>2
<1> QED
  BY <1>5, <1>6, <1>7, <1>8, <1>9, <1>10, <1>11, <1>13, <1>14 DEF Thread

-----------------------------------------------------------------------------
(* What the steps of a thread do *)

\* A thread's step changes itself, its directory and its own requests.
LEMMA ThreadLocal ==
  ASSUME TypeOK, LockOK, NEW s \in Sessions, Thread(s)
  PROVE  /\ \A t \in Sessions \ {s} : session'[t] = session[t] /\ queue'[t] = queue[t]
         /\ session'[s].id = session[s].id
         /\ ~Unused(s) /\ ~Unused(s)'
         /\ UNCHANGED <<current, last, known, excused>>
<1>1. session \in [Sessions -> Threads]
  BY SessionType
<1>2. queue \in [Sessions -> Seq(Requests)]
  BY DEF TypeOK, Requests
<1>3. lock = s => session[s].at = "copy"
  BY DEF LockOK
<1>4. CASE GetDir(s)
  <2>1. /\ session[s].at \in {"dir", "dir again"} /\ queue' = queue
        /\ UNCHANGED <<current, last, known, excused>>
    BY <1>4 DEF GetDir, history
  <2>2. \/ session' = [session EXCEPT ![s].at = IF @ = "dir" THEN "list" ELSE "open",
                                     ![s].todo = Disks]
        \/ session' = [session EXCEPT ![s].at = IF @ = "dir" THEN "copy" ELSE "copy again",
                                     ![s].todo = Disks]
    BY <1>4 DEF GetDir
  <2>3. /\ \A t \in Sessions \ {s} : session'[t] = session[t]
        /\ session'[s].id = session[s].id /\ session'[s].at \in {"list", "open", "copy", "copy again"}
    BY <1>1, <2>2, ZenonT(60) DEF Threads
  <2> QED
    BY <2>1, <2>3 DEF Unused
<1>5. ASSUME NEW d \in Disks, Copy(s, d)
      PROVE  session[s].at = "copy" /\ UNCHANGED <<queue, current, last, known, excused>>
             /\ (\A t \in Sessions \ {s} : session'[t] = session[t])
             /\ session'[s].id = session[s].id /\ session'[s].at = session[s].at
  <2>1. session' = session \/ session' = [session EXCEPT ![s].todo = @ \ {d}]
    BY <1>5 DEF Copy
  <2> QED
    BY <1>1, <1>3, <1>5, <2>1 DEF Copy, Threads, history
<1>6. CASE Copied(s)
  <2>1. session' = [session EXCEPT ![s].at = IF @ = "copy" THEN "list" ELSE "open", ![s].todo = Disks]
    BY <1>6 DEF Copied
  <2>2. /\ \A t \in Sessions \ {s} : session'[t] = session[t]
        /\ session'[s].id = session[s].id /\ session'[s].at \in {"list", "open"}
    BY <1>1, <2>1 DEF Threads
  <2> QED
    BY <1>3, <1>6, <2>2 DEF Copied, Unused, history
<1>7. CASE GetList(s)
  <2> DEFINE list == opened[session[s].id]
             step == IF list = NoList THEN "dir again" ELSE "ready"
  <2>1. session' = [session EXCEPT ![s].at = step, ![s].list = list]
    BY <1>7 DEF GetList
  <2>2. step \in {"dir again", "ready"}
    OBVIOUS
  <2> HIDE DEF list, step
  <2>3. /\ \A t \in Sessions \ {s} : session'[t] = session[t]
        /\ session'[s].id = session[s].id /\ session'[s].at \in {"dir again", "ready"}
    BY <1>1, <2>1, <2>2 DEF Threads
  <2> QED
    BY <1>7, <2>3 DEF GetList, At, Unused, history
<1>8. ASSUME NEW d \in Disks, Open(s, d)
      PROVE  session[s].at = "open" /\ UNCHANGED <<queue, current, last, known, excused>>
             /\ (\A t \in Sessions \ {s} : session'[t] = session[t])
             /\ session'[s].id = session[s].id /\ session'[s].at \in {"open", "create"}
  <2>1. \/ session' = [session EXCEPT ![s].at = "create", ![s].todo = @ \ {d}]
        \/ \E mark \in Marks :
             session' = [session EXCEPT ![s].todo = @ \ {d}, ![s].list[d] = mark]
    BY <1>8, MarkNames DEF Open
  <2>2. session[s].at = "open" /\ UNCHANGED <<queue, current, last, known, excused>>
    BY <1>8 DEF Open, At, history
  <2>3. CASE session' = [session EXCEPT ![s].at = "create", ![s].todo = @ \ {d}]
    BY <1>1, <2>2, <2>3 DEF Threads
  <2>4. ASSUME NEW mark \in Marks,
               session' = [session EXCEPT ![s].todo = @ \ {d}, ![s].list[d] = mark]
        PROVE  /\ \A t \in Sessions \ {s} : session'[t] = session[t]
               /\ session'[s].id = session[s].id /\ session'[s].at = session[s].at
    BY <1>1, <2>4 DEF Threads
  <2> QED
    BY <2>1, <2>2, <2>3, <2>4
<1>9. ASSUME NEW d \in Disks, Create(s, d)
      PROVE  session[s].at = "create" /\ UNCHANGED <<queue, current, last, known, excused>>
             /\ (\A t \in Sessions \ {s} : session'[t] = session[t])
             /\ session'[s].id = session[s].id /\ session'[s].at = "open"
  <2>1. session' = [session EXCEPT ![s].at = "open", ![s].list[d] = "mapped"]
    BY <1>9 DEF Create
  <2> QED
    BY <1>1, <1>9, <2>1 DEF Create, At, Threads, history
<1>10. CASE Store(s)
  BY <1>1, <1>10 DEF Store, At, To, Threads, Unused, history
<1>11. CASE Write(s) \/ Read(s)
  <2>1. /\ session' = session /\ queue' = [queue EXCEPT ![s] = Tail(@)] /\ session[s].at = "ready"
        /\ UNCHANGED <<current, last, known, excused>>
    BY <1>11 DEF Write, Read, Handles, At, history
  <2> QED
    BY <1>2, <2>1 DEF Unused
<1> QED
  BY <1>4, <1>5, <1>6, <1>7, <1>8, <1>9, <1>10, <1>11 DEF Thread, Unused

Makes(s) ==
  /\ lock = 0 /\ lock' = s /\ Dir(s) \notin made /\ made' = made \union {Dir(s)}
  /\ session[s].at = "dir" /\ session'[s].at = "copy" /\ session'[s].todo = Disks
  /\ UNCHANGED <<image, opened, queue>>

\* Steps that are not about filling a directory.
Others(s) ==
  /\ UNCHANGED <<lock, made>>
  /\ session[s].at \notin {"copy", "copy again"} /\ session'[s].at \notin {"copy", "copy again"}
  /\ lock # 0 => session[s].at # "dir"

LEMMA GetDirKinds ==
  ASSUME TypeOK, IdsOK, DirsOK, LockOK, NEW s \in Sessions, GetDir(s)
  PROVE  \/ Makes(s)
         \/ /\ Others(s) /\ UNCHANGED <<image, opened, queue, answer>>
            /\ session'[s].at \in {"list", "open"} /\ session'[s].todo = Disks
            /\ Dir(s) \in made
<1>1. session \in [Sessions -> Threads]
  BY SessionType
<1>2. session[s].at \in {"dir", "dir again"} /\ lock = 0
  BY DEF GetDir
<1>3. image' = image /\ opened' = opened /\ queue' = queue /\ answer' = answer
  BY DEF GetDir, history
<1>4. CASE Dir(s) \in made
  <2>1. /\ session' = [session EXCEPT ![s].at = IF @ = "dir" THEN "list" ELSE "open", ![s].todo = Disks]
        /\ UNCHANGED <<lock, made>>
    BY <1>4 DEF GetDir
  <2>2. session'[s].at \in {"list", "open"} /\ session'[s].todo = Disks
    BY <1>1, <2>1 DEF Threads
  <2> QED
    BY <1>2, <1>3, <1>4, <2>1, <2>2 DEF Others
<1>5. CASE Dir(s) \notin made
  <2>1. session[s].at = "dir"
    BY <1>2, <1>5 DEF DirsOK, Unused
  <2>2. /\ session' = [session EXCEPT ![s].at = IF @ = "dir" THEN "copy" ELSE "copy again", ![s].todo = Disks]
        /\ lock' = s /\ made' = made \union {Dir(s)}
    BY <1>5 DEF GetDir
  <2>3. session'[s].at = "copy" /\ session'[s].todo = Disks
    BY <1>1, <2>1, <2>2 DEF Threads
  <2>4. Makes(s)
    BY <1>2, <1>3, <1>5, <2>1, <2>2, <2>3 DEF Makes
  <2> QED
    BY <2>4
<1> QED
  BY <1>4, <1>5

LEMMA ThreadKinds ==
  ASSUME TypeOK, IdsOK, DirsOK, LockOK, NEW s \in Sessions, Thread(s)
  PROVE  Makes(s) \/ Copied(s) \/ Others(s) \/ \E d \in Disks : Copy(s, d)
<1>1. session \in [Sessions -> Threads]
  BY SessionType
<1>2. CASE GetDir(s)
  BY <1>2, GetDirKinds
<1>3. CASE GetList(s)
  <2>1. PICK to, list : /\ to = IF opened[session[s].id] = NoList THEN "dir again" ELSE "ready"
                        /\ session' = [session EXCEPT ![s].at = to, ![s].list = list]
    BY <1>3 DEF GetList
  <2>2. session'[s].at = to
    BY <1>1, <2>1 DEF Threads
  <2>3. to \in {"dir again", "ready"}
    BY <2>1
  <2> QED
    BY <1>3, <2>2, <2>3 DEF GetList, At, Others, files
<1>4. ASSUME NEW d \in Disks, Open(s, d)
      PROVE  Others(s)
  <2>1. \/ session' = [session EXCEPT ![s].at = "create", ![s].todo = @ \ {d}]
        \/ \E mark \in Marks :
             session' = [session EXCEPT ![s].todo = @ \ {d}, ![s].list[d] = mark]
    BY <1>4, MarkNames DEF Open
  <2>2. session[s].at = "open" /\ UNCHANGED <<lock, made>>
    BY <1>4 DEF Open, At, files
  <2>3. CASE session' = [session EXCEPT ![s].at = "create", ![s].todo = @ \ {d}]
    BY <1>1, <2>2, <2>3 DEF Others, Threads
  <2>4. ASSUME NEW mark \in Marks,
               session' = [session EXCEPT ![s].todo = @ \ {d}, ![s].list[d] = mark]
        PROVE  session'[s].at = session[s].at
    BY <1>1, <2>4 DEF Threads
  <2> QED
    BY <2>1, <2>2, <2>3, <2>4 DEF Others
<1>5. ASSUME NEW d \in Disks, Create(s, d)
      PROVE  Others(s)
  <2>1. session' = [session EXCEPT ![s].at = "open", ![s].list[d] = "mapped"]
    BY <1>5 DEF Create
  <2>2. session'[s].at = "open"
    BY <1>1, <2>1 DEF Threads
  <2> QED
    BY <1>5, <2>2 DEF Create, At, Others
<1>6. CASE Store(s)
  BY <1>1, <1>6 DEF Store, At, To, Others, Threads, files
<1>7. CASE Write(s) \/ Read(s)
  BY <1>7 DEF Write, Read, Handles, At, Others, files
<1> QED
  BY <1>2, <1>3, <1>4, <1>5, <1>6, <1>7 DEF Thread

\* What a step does to images: at most one of the thread's directory changes, and one
\* that is full stays full.
LEMMA ThreadImages ==
  ASSUME TypeOK, IdsOK, DirsOK, LockOK, NEW s \in Sessions, Thread(s)
  PROVE  /\ Dir(s) \in Dirs /\ Dir(s)' = Dir(s)
         /\ image' # image => Dir(s) \in made /\ session[s].at \in {"copy", "create", "ready"}
         /\ \A r \in Dirs \ {Dir(s)} : image'[r] = image[r]
         /\ \A r \in Dirs, d \in Disks : image[r][d] \in Values => image'[r][d] \in Values
<1>1. image \in [Dirs -> [Disks -> Images]] /\ queue \in [Sessions -> Seq(Requests)]
  BY DEF TypeOK, Requests
<1>2. /\ session'[s].id = session[s].id /\ ~Unused(s) /\ session[s].id \in Clients
  BY ThreadLocal DEF IdsOK, TypeOK
<1>3. Dir(s) \in Dirs /\ Dir(s)' = Dir(s)
  BY <1>2, RemoteAssumption DEF Dir
<1>4. session[s].at # "dir" => Dir(s) \in made
  BY <1>2 DEF DirsOK
<1>5. \/ image' = image
      \/ /\ session[s].at \in {"copy", "create", "ready"}
         /\ \E d \in Disks : \E v \in Images :
              /\ image' = [image EXCEPT ![Dir(s)][d] = v]
              /\ image[Dir(s)][d] \in Values => v \in Values
  <2>1. ASSUME NEW d \in Disks, Copy(s, d)
        PROVE  /\ session[s].at = "copy"
               /\ \E v \in Values \union {Short} :
                    /\ image' = [image EXCEPT ![Dir(s)][d] = v]
                    /\ image[Dir(s)][d] \in Values => v \in Values
    BY <2>1, FreshValue, RemoteAssumption DEF Copy, LockOK
  <2>2. ASSUME NEW d \in Disks, Create(s, d)
        PROVE  session[s].at = "create" /\ image' = [image EXCEPT ![Dir(s)][d] = 0] /\ 0 \in Values
    BY <2>2, RemoteAssumption DEF Create, At
  <2>3. CASE Write(s)
    <3>1. Head(queue[s]) \in Requests /\ session[s].at = "ready"
      <4>1. queue[s] \in Seq(Requests) /\ queue[s] # <<>>
        BY <1>1, <2>3 DEF Write, Handles, Pending
      <4> QED
        BY <2>3, <4>1 DEF Write, Handles, At
    <3>2. \/ image' = image
          \/ \E d \in Disks : \E v \in Values : image' = [image EXCEPT ![Dir(s)][d] = v]
      BY <2>3, <3>1 DEF Write, Requests
    <3> QED
      BY <3>1, <3>2 DEF Images
  <2>4. CASE GetDir(s) \/ Copied(s) \/ GetList(s) \/ Store(s) \/ Read(s) \/ \E d \in Disks : Open(s, d)
    BY <2>4 DEF GetDir, Copied, GetList, Store, Read, Open, files
  <2> QED
    BY <2>1, <2>2, <2>3, <2>4 DEF Thread, Images
<1>6. CASE image' = image
  BY <1>3, <1>6
<1>7. ASSUME NEW d \in Disks, NEW v \in Images, image' = [image EXCEPT ![Dir(s)][d] = v],
             image[Dir(s)][d] \in Values => v \in Values
      PROVE  /\ \A r \in Dirs \ {Dir(s)} : image'[r] = image[r]
             /\ \A r \in Dirs, e \in Disks : image[r][e] \in Values => image'[r][e] \in Values
  <2>1. PICK x : x = Dir(s)
    OBVIOUS
  <2>2. image' = [image EXCEPT ![x][d] = v] /\ (image[x][d] \in Values => v \in Values)
    BY <1>7, <2>1
  <2> QED
    BY <1>1, <2>1, <2>2
<1> QED
  BY <1>3, <1>4, <1>5, <1>6, <1>7

-----------------------------------------------------------------------------
(* A thread's steps and the invariant *)

LEMMA IdsThread ==
  ASSUME TypeOK, IdsOK, LockOK, NEW s \in Sessions, Thread(s)
  PROVE  IdsOK'
<1>1. /\ \A t \in Sessions \ {s} : session'[t] = session[t] /\ queue'[t] = queue[t]
      /\ session'[s].id = session[s].id /\ ~Unused(s) /\ ~Unused(s)'
      /\ current' = current /\ last' = last /\ known' = known
  BY ThreadLocal
<1>2. \A t \in Sessions : session'[t].id = session[t].id /\ (Unused(t)' <=> Unused(t))
  BY <1>1 DEF Unused
<1>3. \A c \in Clients : current[c] \in {0} \union Sessions
  BY DEF TypeOK
<1>4. \A t \in Sessions : Unused(t)' => queue'[t] = <<>>
  BY <1>1, <1>2 DEF IdsOK
<1> QED
  BY <1>1, <1>2, <1>3, <1>4 DEF IdsOK

LEMMA DirsThread ==
  ASSUME TypeOK, IdsOK, DirsOK, LockOK, NEW s \in Sessions, Thread(s)
  PROVE  DirsOK'
<1>1. /\ \A t \in Sessions \ {s} : session'[t] = session[t]
      /\ session'[s].id = session[s].id /\ ~Unused(s) /\ known' = known
  BY ThreadLocal
<1>2. session[s].id \in known /\ made \subseteq Dirs
  BY <1>1 DEF IdsOK, TypeOK
<1>3. /\ Dir(s) \in Dirs /\ Dir(s)' = Dir(s) /\ (image' # image => Dir(s) \in made)
      /\ \A r \in Dirs \ {Dir(s)} : image'[r] = image[r]
  BY ThreadImages
<1>4. made' = made \/ made' = made \union {Dir(s)}
  BY ThreadKinds DEF Makes, Others, Copy, Copied, files
<1>5. session[s].at # "dir" => Dir(s) \in made
  BY <1>1 DEF DirsOK
<1>6. session'[s].at # "dir" => Dir(s) \in made'
  <2>1. CASE GetDir(s)
    BY <2>1, GetDirKinds DEF Makes, Others
  <2>2. CASE ~GetDir(s)
    <3>1. session[s].at # "dir"
      BY <2>2, <1>1 DEF Thread, Copied, GetList, Store, Write, Read, Copy, Open, Create, Handles, At, LockOK
    <3> QED
      BY <1>4, <1>5, <3>1
  <2> QED
    BY <2>1, <2>2
<1>7. \A r \in made' : \E c \in known' : DirOf[c] = r
  BY <1>1, <1>2, <1>4 DEF DirsOK, Dir
<1>8. \A r \in Dirs \ made' : \A d \in Disks : image'[r][d] = Missing
  <2> SUFFICES ASSUME NEW r \in Dirs, r \notin made' PROVE \A d \in Disks : image'[r][d] = Missing
    OBVIOUS
  <2>1. r \notin made /\ image'[r] = image[r]
    BY <1>3, <1>4
  <2> QED
    BY <2>1 DEF DirsOK
<1>9. \A t \in Sessions : ~Unused(t)' /\ session'[t].at # "dir" => Dir(t)' \in made'
  <2> SUFFICES ASSUME NEW t \in Sessions, ~Unused(t)', session'[t].at # "dir" PROVE Dir(t)' \in made'
    OBVIOUS
  <2>1. CASE t = s
    BY <1>3, <1>6, <2>1
  <2>2. CASE t # s
    <3>1. session'[t] = session[t] /\ ~Unused(t) /\ Dir(t)' = Dir(t)
      BY <1>1, <2>2 DEF Unused, Dir
    <3> QED
      BY <1>4, <3>1 DEF DirsOK
  <2> QED
    BY <2>1, <2>2
<1> QED
  BY <1>7, <1>8, <1>9 DEF DirsOK

LEMMA CopyChanges ==
  ASSUME TypeOK, LockOK, NEW s \in Sessions, NEW d \in Disks, Copy(s, d)
  PROVE  /\ lock = s /\ lock' = s /\ made' = made /\ opened' = opened /\ queue' = queue
         /\ session[s].at = "copy" /\ session'[s].at = "copy"
         /\ image[Dir(s)][d] \in {Missing, Short}
         /\ \/ /\ image' = [image EXCEPT ![Dir(s)][d] = Short]
               /\ session' = session
            \/ /\ image' = [image EXCEPT ![Dir(s)][d] = Fresh(d)]
               /\ session'[s].todo = session[s].todo \ {d}
<1>1. session \in [Sessions -> Threads]
  BY SessionType
<1>2. lock = s /\ lock' = s /\ made' = made /\ opened' = opened /\ queue' = queue /\ d \in session[s].todo
  BY DEF Copy
<1>3. session[s].at = "copy" /\ image[Dir(s)][d] \in {Missing, Short}
  BY <1>2, NoThread DEF LockOK
<1>4. CASE image[Dir(s)][d] = Missing
  BY <1>2, <1>3, <1>4 DEF Copy
<1>5. CASE image[Dir(s)][d] # Missing
  <2>1. /\ image' = [image EXCEPT ![Dir(s)][d] = Fresh(d)]
        /\ session' = [session EXCEPT ![s].todo = @ \ {d}]
    BY <1>5 DEF Copy
  <2>2. session'[s].todo = session[s].todo \ {d} /\ session'[s].at = session[s].at
    BY <1>1, <2>1 DEF Threads
  <2> QED
    BY <1>2, <1>3, <2>1, <2>2
<1> QED
  BY <1>4, <1>5

LEMMA LockThread ==
  ASSUME TypeOK, IdsOK, DirsOK, LockOK, NEW s \in Sessions, Thread(s)
  PROVE  LockOK'
<1>1. /\ \A t \in Sessions \ {s} : session'[t] = session[t]
      /\ session'[s].id = session[s].id /\ ~Unused(s)
  BY ThreadLocal
<1>2. /\ Dir(s) \in Dirs /\ Dir(s)' = Dir(s)
      /\ \A r \in Dirs \ {Dir(s)} : image'[r] = image[r]
  BY ThreadImages
<1>3. \A t \in Sessions : /\ session'[t].id = session[t].id /\ Dir(t)' = Dir(t)
                          /\ ~Unused(t)' => ~Unused(t)
  BY <1>1 DEF Dir, Unused
<1>4. s # 0
  BY NoThread
<1>5. /\ lock \in {0} \union Sessions /\ image \in [Dirs -> [Disks -> Images]]
  BY DEF TypeOK
<1>6. CASE Makes(s)
  <2>1. /\ lock = 0 /\ lock' = s /\ session'[s].at = "copy" /\ session'[s].todo = Disks
        /\ image' = image /\ Dir(s) \notin made
    BY <1>6 DEF Makes
  <2>2. \A t \in Sessions : session'[t].at # "copy again" /\ (lock' = t <=> session'[t].at = "copy")
    BY <1>1, <1>4, <2>1, NoThread DEF LockOK
  <2>3. \A d \in Disks : image'[Dir(s)][d] \in {Missing, Short}
    BY <1>2, <2>1 DEF DirsOK
  <2>4. \A t \in Sessions \ {s} : ~Unused(t)' /\ Dir(t)' = Dir(s) => session'[t].at = "dir"
    BY <1>1, <1>3, <2>1 DEF DirsOK
  <2> QED
    BY <1>3, <2>1, <2>2, <2>3, <2>4 DEF LockOK
<1>7. CASE Copied(s)
  <2>1. lock = s /\ lock' = 0 /\ session[s].at = "copy"
    BY <1>7, NoThread DEF Copied, LockOK
  <2>2. session'[s].at = "list"
    <3>1. session \in [Sessions -> Threads]
      BY SessionType
    <3>2. session' = [session EXCEPT ![s].at = IF @ = "copy" THEN "list" ELSE "open", ![s].todo = Disks]
      BY <1>7 DEF Copied
    <3> QED
      BY <2>1, <3>1, <3>2 DEF Threads
  <2>3. \A t \in Sessions : session'[t].at # "copy again" /\ (lock' = t <=> session'[t].at = "copy")
    BY <1>1, <2>1, <2>2, NoThread DEF LockOK
  <2> QED
    BY <2>1, <2>3 DEF LockOK
<1>8. CASE Others(s)
  <2>1. /\ lock' = lock /\ (lock # 0 => session[s].at # "dir")
        /\ session[s].at \notin {"copy", "copy again"} /\ session'[s].at \notin {"copy", "copy again"}
    BY <1>8 DEF Others
  <2>2. lock # s
    BY <2>1 DEF LockOK
  <2>3. \A t \in Sessions : session'[t].at # "copy again" /\ (lock' = t <=> session'[t].at = "copy")
    BY <1>1, <2>1, <2>2 DEF LockOK
  <2>4. ASSUME lock # 0
        PROVE  /\ lock \in Sessions /\ session'[lock] = session[lock] /\ Dir(s) # Dir(lock)
               /\ Dir(lock) \in Dirs
    <3>1. lock \in Sessions /\ session'[lock] = session[lock] /\ session[lock].at = "copy"
      BY <1>1, <1>5, <2>2, <2>4 DEF LockOK
    <3>2. Dir(lock) \in Dirs
      BY <3>1, RemoteAssumption DEF Dir, IdsOK, Unused, TypeOK
    <3> QED
      BY <1>1, <2>1, <2>2, <2>4, <3>1, <3>2 DEF LockOK
  <2>5. ASSUME lock' # 0
        PROVE  /\ \A d \in session'[lock].todo : image'[Dir(lock)][d] \in {Missing, Short}
               /\ \A d \in Disks \ session'[lock].todo : image'[Dir(lock)][d] \in Values
               /\ \A t \in Sessions \ {lock} :
                    ~Unused(t)' /\ Dir(t)' = Dir(lock) => session'[t].at = "dir"
    <3>1. lock # 0 /\ image'[Dir(lock)] = image[Dir(lock)]
      BY <1>2, <2>1, <2>4, <2>5
    <3>2. \A t \in Sessions \ {lock} : ~Unused(t)' /\ Dir(t)' = Dir(lock) => session'[t].at = "dir"
      BY <1>1, <1>2, <1>3, <2>4, <3>1 DEF LockOK
    <3> QED
      BY <2>4, <3>1, <3>2 DEF LockOK
  <2>6. lock # 0 => Dir(lock)' = Dir(lock)
    BY <2>1, <2>4 DEF Dir
  <2> QED
    BY <2>1, <2>3, <2>5, <2>6 DEF LockOK
<1>9. ASSUME NEW d \in Disks, Copy(s, d)
      PROVE  LockOK'
  <2>1. /\ lock = s /\ lock' = s /\ session[s].at = "copy" /\ session'[s].at = "copy"
        /\ \/ /\ image' = [image EXCEPT ![Dir(s)][d] = Short]
              /\ session' = session
           \/ /\ image' = [image EXCEPT ![Dir(s)][d] = Fresh(d)]
              /\ session'[s].todo = session[s].todo \ {d}
    BY <1>9, CopyChanges
  <2>2. \A t \in Sessions : session'[t].at # "copy again" /\ (lock' = t <=> session'[t].at = "copy")
    BY <1>1, <2>1 DEF LockOK
  <2>3. \A t \in Sessions \ {s} : ~Unused(t)' /\ Dir(t)' = Dir(s) => session'[t].at = "dir"
    BY <1>1, <1>3, <1>4, <2>1 DEF LockOK
  <2>4. /\ \A e \in session[s].todo : image[Dir(s)][e] \in {Missing, Short}
        /\ \A e \in Disks \ session[s].todo : image[Dir(s)][e] \in Values
    BY <1>4, <2>1 DEF LockOK
  <2>5. d \in session[s].todo /\ session[s].todo \subseteq Disks
    <3>1. session \in [Sessions -> Threads]
      BY SessionType
    <3> QED
      BY <1>9, <3>1 DEF Copy, Threads
  <2>6. /\ \A e \in session'[s].todo : image'[Dir(s)][e] \in {Missing, Short}
        /\ \A e \in Disks \ session'[s].todo : image'[Dir(s)][e] \in Values
    <3>1. CASE image' = [image EXCEPT ![Dir(s)][d] = Short] /\ session' = session
      <4>1. image'[Dir(s)][d] = Short /\ \A e \in Disks \ {d} : image'[Dir(s)][e] = image[Dir(s)][e]
        BY <1>2, <1>5, <3>1
      <4> QED
        BY <2>4, <2>5, <3>1, <4>1
    <3>2. CASE image' = [image EXCEPT ![Dir(s)][d] = Fresh(d)] /\ session'[s].todo = session[s].todo \ {d}
      <4>1. image'[Dir(s)][d] = Fresh(d) /\ \A e \in Disks \ {d} : image'[Dir(s)][e] = image[Dir(s)][e]
        BY <1>2, <1>5, <3>2
      <4> QED
        BY <2>4, <2>5, <3>2, <4>1, FreshValue
    <3> QED
      BY <2>1, <3>1, <3>2
  <2> QED
    BY <1>2, <2>1, <2>2, <2>3, <2>6 DEF LockOK
<1> QED
  BY <1>6, <1>7, <1>8, <1>9, ThreadKinds

LEMMA FilledThread ==
  ASSUME TypeOK, IdsOK, DirsOK, LockOK, FilledOK, NEW s \in Sessions, Thread(s)
  PROVE  FilledOK'
<1>1. /\ Dir(s)' = Dir(s)
      /\ \A r \in Dirs, d \in Disks : image[r][d] \in Values => image'[r][d] \in Values
  BY ThreadImages
<1>2. \A r \in Dirs : Filled(r) => Filled(r)'
  BY <1>1 DEF Filled
<1>3. made \subseteq Dirs /\ (excused' = excused) /\ \A r : Sharing(r)' = Sharing(r)
  BY ThreadLocal DEF TypeOK, Sharing
<1>4. CASE Makes(s)
  <2>1. lock = 0 /\ lock' = s /\ made' = made \union {Dir(s)} /\ s # 0
    BY <1>4, NoThread DEF Makes
  <2>2. \A r \in made : Filled(r)' \/ Sharing(r)' \subseteq excused'
    BY <1>2, <1>3, <2>1 DEF FilledOK
  <2>3. Dir(lock)' = Dir(s)
    BY <1>1, <2>1
  <2> QED
    BY <2>1, <2>2, <2>3 DEF FilledOK
<1>5. CASE Copied(s)
  <2>1. lock = s /\ made' = made /\ session[s].todo = {}
    BY <1>5 DEF Copied, files
  <2>2. Filled(Dir(s))
    BY <2>1, NoThread DEF LockOK, Filled
  <2>3. \A r \in made : Filled(r) \/ Sharing(r) \subseteq excused
    BY <2>1, <2>2 DEF FilledOK
  <2> QED
    BY <1>2, <1>3, <2>1, <2>3 DEF FilledOK
<1>6. CASE Others(s) \/ \E d \in Disks : Copy(s, d)
  <2>1. lock' = lock /\ made' = made
    BY <1>6 DEF Others, Copy
  <2>2. lock # 0 => Dir(lock)' = Dir(lock)
    <3>1. \A t \in Sessions : session'[t].id = session[t].id
      BY ThreadLocal
    <3> QED
      BY <2>1, <3>1 DEF Dir, TypeOK
  <2> QED
    BY <1>2, <1>3, <2>1, <2>2 DEF FilledOK
<1> QED
  BY <1>4, <1>5, <1>6, ThreadKinds

\* The directory of a thread that is beyond asking for it is full.
LEMMA Served ==
  ASSUME TypeOK, IdsOK, DirsOK, LockOK, FilledOK, NEW s \in Sessions,
         ~Unused(s), session[s].at \notin {"dir", "copy"}, session[s].id \notin excused
  PROVE  session[s].id \in Clients /\ Dir(s) \in made /\ Filled(Dir(s))
<1>1. session[s].id \in Clients /\ Dir(s) \in made
  BY DEF IdsOK, DirsOK, TypeOK
<1>2. session[s].id \in Sharing(Dir(s))
  BY <1>1 DEF Sharing, Dir
<1>3. lock # 0 => Dir(lock) # Dir(s)
  <2>1. lock # s
    BY DEF LockOK
  <2> QED
    BY <2>1 DEF LockOK, TypeOK
<1> QED
  BY <1>1, <1>2, <1>3 DEF FilledOK

LEMMA ListsThread ==
  ASSUME TypeOK, IdsOK, DirsOK, LockOK, FilledOK, ListsOK, NEW s \in Sessions, Thread(s)
  PROVE  ListsOK'
<1>1. /\ \A t \in Sessions \ {s} : session'[t] = session[t]
      /\ session'[s].id = session[s].id /\ ~Unused(s) /\ excused' = excused
  BY ThreadLocal
<1>2. session \in [Sessions -> Threads] /\ session[s].id \in Clients
  BY <1>1, SessionType DEF IdsOK, TypeOK
<1> DEFINE Sound(t) ==
      /\ session[t].at # "create"
      /\ session[t].at = "open" => \A d \in Disks \ session[t].todo : session[t].list[d] = "mapped"
      /\ session[t].at = "ready" => AllMapped(session[t].list)
<1>3. \A t \in Sessions : session[t].id \in Clients \ excused => Sound(t)
  BY DEF ListsOK
<1>4. \A t \in Sessions \ {s} : session'[t].id \in Clients \ excused => Sound(t)'
  BY <1>1, <1>3
<1>5. ASSUME opened' = opened, session[s].id \notin excused => Sound(s)'
      PROVE  ListsOK'
  BY <1>1, <1>4, <1>5 DEF ListsOK
<1> HIDE DEF Sound
<1>6. CASE GetDir(s)
  <2>1. opened' = opened
    BY <1>6 DEF GetDir
  <2>2. \/ session'[s].at \in {"copy", "list"}
        \/ session'[s].at = "open" /\ session'[s].todo = Disks
    BY <1>6, GetDirKinds DEF Makes
  <2>3. Sound(s)'
    BY <2>2 DEF Sound
  <2> QED
    BY <1>5, <2>1, <2>3
<1>7. ASSUME NEW d \in Disks, Copy(s, d)
      PROVE  ListsOK'
  <2>1. opened' = opened /\ session'[s].at = "copy"
    BY <1>7, CopyChanges
  <2>2. Sound(s)'
    BY <2>1 DEF Sound
  <2> QED
    BY <1>5, <2>1, <2>2
<1>8. CASE Copied(s)
  <2>1. lock = s /\ opened' = opened
        /\ session' = [session EXCEPT ![s].at = IF @ = "copy" THEN "list" ELSE "open", ![s].todo = Disks]
    BY <1>8 DEF Copied
  <2>2. session'[s].at \in {"list", "open"} /\ session'[s].todo = Disks
    BY <1>2, <2>1 DEF Threads
  <2>3. Sound(s)'
    BY <2>2 DEF Sound
  <2> QED
    BY <1>5, <2>1, <2>3
<1>9. CASE GetList(s)
  <2>1. opened' = opened
    BY <1>9 DEF GetList
  <2>2. PICK to, list : /\ to = IF opened[session[s].id] = NoList THEN "dir again" ELSE "ready"
                        /\ list = opened[session[s].id]
                        /\ session' = [session EXCEPT ![s].at = to, ![s].list = list]
    BY <1>9 DEF GetList
  <2>3. session'[s].at = to /\ session'[s].list = list
    BY <1>2, <2>2 DEF Threads
  <2>4. CASE list = NoList
    <3>1. to = "dir again"
      BY <2>2, <2>4
    <3>2. Sound(s)'
      BY <2>3, <3>1 DEF Sound
    <3> QED
      BY <1>5, <2>1, <3>2
  <2>5. CASE list # NoList
    <3>1. session[s].id \notin excused => AllMapped(list)
      BY <1>2, <2>2, <2>5 DEF ListsOK
    <3>2. to = "ready"
      BY <2>2, <2>5
    <3>3. session[s].id \notin excused => Sound(s)'
      BY <2>3, <3>1, <3>2 DEF Sound
    <3> QED
      BY <1>5, <2>1, <3>3
  <2> QED
    BY <2>4, <2>5
<1>10. ASSUME NEW d \in Disks, Open(s, d)
       PROVE  ListsOK'
  <2>1. opened' = opened /\ session[s].at = "open"
    BY <1>10 DEF Open, At
  <2>2. ASSUME session[s].id \notin excused
        PROVE  Sound(s)'
    <3>1. image[Dir(s)][d] \in Values /\ image[Dir(s)][d] # Missing /\ image[Dir(s)][d] # Short
      BY <1>1, <2>1, <2>2, Served, RemoteAssumption DEF Filled
    <3>2. session' = [session EXCEPT ![s].todo = @ \ {d}, ![s].list[d] = "mapped"]
      BY <1>10, <3>1 DEF Open
    <3>3. /\ session'[s].at = "open" /\ session'[s].todo = session[s].todo \ {d}
          /\ session'[s].list[d] = "mapped"
          /\ \A e \in Disks \ {d} : session'[s].list[e] = session[s].list[e]
      BY <1>2, <2>1, <3>2 DEF Threads
    <3>4. \A e \in Disks \ session[s].todo : session[s].list[e] = "mapped"
      BY <1>2, <1>3, <2>1, <2>2 DEF Sound
    <3> QED
      BY <3>3, <3>4 DEF Sound
  <2> QED
    BY <1>5, <2>1, <2>2
<1>11. ASSUME NEW d \in Disks, Create(s, d)
       PROVE  ListsOK'
  <2>1. opened' = opened /\ session[s].at = "create"
    BY <1>11 DEF Create, At
  <2>2. session[s].id \in excused
    BY <1>2, <1>3, <2>1 DEF Sound
  <2> QED
    BY <1>5, <2>1, <2>2
<1>12. CASE Store(s)
  <2>1. /\ session' = [session EXCEPT ![s].at = "ready"] /\ session[s].at = "open"
        /\ opened' = [opened EXCEPT ![session[s].id] = session[s].list] /\ session[s].todo = {}
    BY <1>12 DEF Store, To, At
  <2>2. session'[s].at = "ready" /\ session'[s].list = session[s].list
    BY <1>2, <2>1 DEF Threads
  <2>3. session[s].id \notin excused => AllMapped(session[s].list)
    BY <1>2, <1>3, <2>1 DEF Sound, AllMapped
  <2>4. session[s].id \notin excused => Sound(s)'
    BY <2>2, <2>3 DEF Sound
  <2>5. \A c \in Clients \ excused : opened'[c] = NoList \/ AllMapped(opened'[c])
    <3>1. opened \in [Clients -> Lists]
      BY DEF TypeOK
    <3>2. PICK x, list : x = session[s].id /\ list = session[s].list
      OBVIOUS
    <3>3. opened' = [opened EXCEPT ![x] = list]
      BY <2>1, <3>2
    <3> QED
      BY <2>3, <3>1, <3>2, <3>3 DEF ListsOK
  <2>6. \A t \in Sessions : session'[t].id \in Clients \ excused => Sound(t)'
    BY <1>1, <1>4, <2>4
  <2> QED
    BY <1>1, <2>5, <2>6 DEF ListsOK, Sound
<1>13. CASE Write(s) \/ Read(s)
  <2>1. opened' = opened /\ session' = session
    BY <1>13 DEF Write, Read
  <2> QED
    BY <1>1, <2>1 DEF ListsOK
<1> QED
  BY <1>6, <1>7, <1>8, <1>9, <1>10, <1>11, <1>12, <1>13 DEF Thread

LEMMA NewestThread ==
  ASSUME TypeOK, LockOK, NewestOK, NEW s \in Sessions, Thread(s)
  PROVE  NewestOK'
<1>1. /\ \A t \in Sessions \ {s} : session'[t] = session[t] /\ queue'[t] = queue[t]
      /\ session'[s].id = session[s].id /\ excused' = excused /\ current' = current
  BY ThreadLocal
<1>2. Pending(s)' => Pending(s)
  <2>1. queue' = queue \/ Write(s) \/ Read(s)
    BY DEF Thread, GetDir, Copied, GetList, Store, Copy, Open, Create
  <2>2. Write(s) \/ Read(s) => Pending(s)
    BY DEF Write, Read, Handles
  <2> QED
    BY <2>1, <2>2 DEF Pending
<1> QED
  BY <1>1, <1>2 DEF NewestOK, Pending

LEMMA FreshHolds ==
  ASSUME NEW c, NEW d, image[DirOf[c]][d] \notin Values
  PROVE  Holds(c, d) = Fresh(d)
BY DEF Holds

\* A thread whose client is excused, or that is no newer client's, writes to a directory
\* that no other client vouches for.
LEMMA NobodyElse ==
  ASSUME TypeOK, IdsOK, Apart, NEW s \in Sessions, ~Unused(s), NEW c \in known \ excused,
         DirOf[c] = Dir(s)
  PROVE  c = session[s].id
BY DEF IdsOK, Apart, Dir

LEMMA HoldsThread ==
  ASSUME TypeOK, IdsOK, DirsOK, LockOK, Apart, ListsOK, NEW s \in Sessions,
         Thread(s), ~Write(s), NEW c \in known \ excused, NEW d \in Disks
  PROVE  Holds(c, d)' = Holds(c, d)
<1>1. ~Unused(s) /\ c \in Clients /\ DirOf[c] \in Dirs /\ image \in [Dirs -> [Disks -> Images]]
  BY ThreadLocal, RemoteAssumption DEF TypeOK
<1>2. \A r \in Dirs \ {Dir(s)} : image'[r] = image[r]
  BY ThreadImages
<1>3. CASE image' = image \/ DirOf[c] # Dir(s)
  BY <1>1, <1>2, <1>3 DEF Holds
<1>4. ASSUME NEW e \in Disks, Copy(s, e), DirOf[c] = Dir(s)
      PROVE  Holds(c, d)' = Holds(c, d)
  <2>1. /\ image[Dir(s)][e] \in {Missing, Short}
        /\ \/ image' = [image EXCEPT ![Dir(s)][e] = Short]
           \/ image' = [image EXCEPT ![Dir(s)][e] = Fresh(e)]
    BY <1>4, CopyChanges
  <2>2. /\ image'[Dir(s)][e] \in {Short, Fresh(e)}
        /\ \A f \in Disks \ {e} : image'[Dir(s)][f] = image[Dir(s)][f]
    BY <1>1, <1>4, <2>1
  <2>3. CASE d # e
    BY <1>4, <2>2, <2>3 DEF Holds
  <2>4. CASE d = e
    <3>1. Holds(c, d) = Fresh(d)
      BY <1>4, <2>1, <2>4, RemoteAssumption DEF Holds
    <3>2. Holds(c, d)' = Fresh(d)
      BY <1>4, <2>2, <2>4, RemoteAssumption DEF Holds
    <3> QED
      BY <3>1, <3>2
  <2> QED
    BY <2>3, <2>4
<1>5. ASSUME NEW e \in Disks, Create(s, e), DirOf[c] = Dir(s)
      PROVE  FALSE
  <2>1. c = session[s].id /\ session[s].at = "create"
    BY <1>1, <1>5, NobodyElse DEF Create, At
  <2> QED
    BY <1>1, <2>1 DEF ListsOK
<1>6. ASSUME \A e \in Disks : ~Copy(s, e) /\ ~Create(s, e)
      PROVE  image' = image
  BY <1>6 DEF Thread, GetDir, Copied, GetList, Store, Read, Open, files
<1> QED
  BY <1>3, <1>4, <1>5, <1>6

\* What a client that has not gone wrong finds on its disks when a request is handled.
LEMMA Handled ==
  ASSUME IInv, NEW s \in Sessions, ~Unused(s), session[s].at = "ready", Pending(s),
         session[s].id \notin excused, NEW d \in Disks
  PROVE  /\ s = current[session[s].id] /\ Waiting(session[s].id) = queue[s]
         /\ session[s].id \in known \ excused
         /\ queue[s] \in Seq(Requests) /\ queue[s] # <<>>
         /\ Mapped(s, d) /\ image[Dir(s)][d] \in Values
         /\ Holds(session[s].id, d) = image[Dir(s)][d]
         /\ Leads(queue[s], d, image[Dir(s)][d], last[session[s].id][d])
<1>1. session[s].id \in Clients /\ Filled(Dir(s)) /\ session[s].id \in known
  BY Served DEF IInv, IdsOK
<1>2. s = current[session[s].id] /\ s # 0
  BY <1>1, NoThread DEF IInv, NewestOK
<1>3. Waiting(session[s].id) = queue[s]
  BY <1>2 DEF Waiting
<1>4. queue[s] \in Seq(Requests) /\ queue[s] # <<>>
  BY DEF IInv, TypeOK, Pending, Requests
<1>5. Mapped(s, d)
  BY <1>1 DEF IInv, ListsOK, AllMapped, Mapped
<1>6. image[Dir(s)][d] \in Values /\ Holds(session[s].id, d) = image[Dir(s)][d]
  BY <1>1 DEF Filled, Holds, Dir
<1>7. Leads(queue[s], d, image[Dir(s)][d], last[session[s].id][d])
  BY <1>1, <1>3, <1>6 DEF IInv, WrittenOK
<1> QED
  BY <1>1, <1>2, <1>3, <1>4, <1>5, <1>6, <1>7

LEMMA WrittenThread ==
  ASSUME IInv, NEW s \in Sessions, Thread(s)
  PROVE  WrittenOK'
<1>1. /\ \A t \in Sessions \ {s} : queue'[t] = queue[t]
      /\ ~Unused(s) /\ current' = current /\ last' = last /\ known' = known /\ excused' = excused
  BY ThreadLocal DEF IInv
<1>2. known \subseteq Clients /\ \A c \in Clients : current[c] \in {0} \union Sessions
  BY DEF IInv, TypeOK
<1> SUFFICES ASSUME NEW c \in known \ excused, NEW d \in Disks
             PROVE  Leads(Waiting(c)', d, Holds(c, d)', last[c][d])
  BY <1>1 DEF WrittenOK
<1>3. Leads(Waiting(c), d, Holds(c, d), last[c][d])
  BY DEF IInv, WrittenOK
<1>4. CASE ~Write(s) /\ ~Read(s)
  <2>1. queue' = queue
    BY <1>4 DEF Thread, GetDir, Copied, GetList, Store, Copy, Open, Create
  <2>2. Waiting(c)' = Waiting(c)
    BY <1>1, <2>1 DEF Waiting
  <2> QED
    BY <1>3, <1>4, <2>2, HoldsThread DEF IInv
<1>5. CASE Write(s) \/ Read(s)
  <2>1. session[s].at = "ready" /\ Pending(s) /\ queue' = [queue EXCEPT ![s] = Tail(@)]
    BY <1>5 DEF Write, Read, Handles, At
  <2>2. CASE c # session[s].id
    <3>1. current[c] # s
      BY <1>2, <2>2, NoThread DEF IInv, IdsOK
    <3>2. Waiting(c)' = Waiting(c)
      BY <1>1, <1>2, <3>1 DEF Waiting
    <3>3. DirOf[c] # Dir(s)
      BY <1>1, <2>2, NobodyElse DEF IInv
    <3>4. image'[DirOf[c]] = image[DirOf[c]]
      BY <1>2, <3>3, ThreadImages, RemoteAssumption DEF IInv
    <3>5. Holds(c, d)' = Holds(c, d)
      BY <3>4 DEF Holds
    <3> QED
      BY <1>3, <3>2, <3>5
  <2>3. CASE c = session[s].id
    <3>1. /\ s = current[c] /\ queue[s] \in Seq(Requests) /\ queue[s] # <<>>
          /\ \A e \in Disks : Mapped(s, e)
          /\ image[Dir(s)][d] \in Values /\ Holds(c, d) = image[Dir(s)][d]
          /\ Leads(queue[s], d, image[Dir(s)][d], last[c][d])
      BY <1>1, <2>1, <2>3, Handled
    <3>2. PICK next \in Values :
            /\ Leads(Tail(queue[s]), d, next, last[c][d])
            /\ Head(queue[s]).disk = d => next = Head(queue[s]).value
            /\ ~(Head(queue[s]).disk = d /\ Head(queue[s]).op = "write") => next = image[Dir(s)][d]
      BY <3>1, OneLessWaits
    <3>3. Waiting(c)' = Tail(queue[s])
      <4>1. queue'[s] = Tail(queue[s])
        BY <2>1 DEF IInv, TypeOK
      <4> QED
        BY <1>1, <3>1, <4>1, NoThread DEF Waiting
    <3>4. Holds(c, d)' = next
      <4>1. CASE Read(s)
        <5>1. image' = image /\ Head(queue[s]).op = "read"
          BY <4>1 DEF Read, Handles, files
        <5> QED
          BY <3>1, <3>2, <5>1 DEF Holds
      <4>2. CASE Write(s)
        <5>1. Head(queue[s]) \in Requests /\ Head(queue[s]).op = "write"
          BY <3>1, <4>2 DEF Write, Handles
        <5>2. PICK e \in Disks, v \in Values : e = Head(queue[s]).disk /\ v = Head(queue[s]).value
          BY <5>1 DEF Requests
        <5>3. image' = [image EXCEPT ![Dir(s)][e] = v]
          BY <3>1, <4>2, <5>2 DEF Write
        <5>4. Dir(s) \in Dirs /\ image \in [Dirs -> [Disks -> Images]] /\ DirOf[c] = Dir(s)
          BY <2>3, ThreadImages DEF IInv, TypeOK, Dir
        <5>5. image'[Dir(s)][e] = v /\ \A f \in Disks \ {e} : image'[Dir(s)][f] = image[Dir(s)][f]
          BY <5>3, <5>4
        <5>6. image'[Dir(s)][d] = next
          BY <3>2, <5>1, <5>2, <5>5
        <5> QED
          BY <5>4, <5>6 DEF Holds
      <4> QED
        BY <1>5, <4>1, <4>2
    <3> QED
      BY <3>2, <3>3, <3>4
  <2> QED
    BY <2>2, <2>3
<1> QED
  BY <1>4, <1>5

LEMMA ReadThread ==
  ASSUME IInv, NEW s \in Sessions, Thread(s)
  PROVE  ReadBack'
<1>1. ~Unused(s) /\ excused' = excused
  BY ThreadLocal DEF IInv
<1>2. CASE ~Read(s)
  <2>1. answer' = answer
    BY <1>2 DEF Thread, GetDir, Copied, GetList, Store, Copy, Open, Create, Write, history
  <2> QED
    BY <1>1, <2>1 DEF IInv, ReadBack
<1>3. CASE Read(s)
  <2>1. session[s].at = "ready" /\ Pending(s) /\ Head(queue[s]).op = "read"
    BY <1>3 DEF Read, Handles, At
  <2>2. PICK d, v : d = Head(queue[s]).disk /\ v = Head(queue[s]).value
    OBVIOUS
  <2>3. answer' = [id |-> session[s].id, expected |-> v,
                   value |-> IF Mapped(s, d) THEN image[Dir(s)][d] ELSE 0]
    BY <1>3, <2>2 DEF Read
  <2>4. ASSUME session[s].id \notin excused
        PROVE  Mapped(s, d) /\ image[Dir(s)][d] = v
    <3>1. d \in Disks
      <4>1. queue[s] \in Seq(Requests) /\ queue[s] # <<>>
        BY <2>1 DEF IInv, TypeOK, Requests, Pending
      <4>2. Head(queue[s]) \in Requests
        BY <4>1
      <4> QED
        BY <2>2, <4>2 DEF Requests
    <3>2. /\ queue[s] \in Seq(Requests) /\ queue[s] # <<>> /\ Mapped(s, d)
          /\ Leads(queue[s], d, image[Dir(s)][d], last[session[s].id][d])
      BY <1>1, <2>1, <2>4, <3>1, Handled
    <3>3. \E next \in Values : next = v /\ next = image[Dir(s)][d]
      BY <2>1, <2>2, <3>2, OneLessWaits
    <3> QED
      BY <3>2, <3>3
  <2> QED
    BY <1>1, <2>3, <2>4 DEF ReadBack
<1> QED
  BY <1>2, <1>3

-----------------------------------------------------------------------------
(* The other steps *)

LEMMA ConnectStep ==
  ASSUME IInv, NEW s \in Sessions, NEW c \in Clients, Connect(s, c)
  PROVE  IInv'
<1> USE DEF IInv
<1>1. /\ session \in [Sessions -> Threads] /\ current \in [Clients -> {0} \union Sessions]
      /\ image \in [Dirs -> [Disks -> Images]] /\ queue \in [Sessions -> Seq(Requests)]
      /\ lock \in {0} \union Sessions /\ known \subseteq Clients
  BY SessionType DEF TypeOK, Requests
<1>2. /\ session[s].at = "none"
      /\ session' = [session EXCEPT ![s].at = "dir", ![s].id = c]
      /\ current' = [current EXCEPT ![c] = s] /\ known' = known \union {c}
      /\ made' = made /\ image' = image /\ lock' = lock /\ opened' = opened /\ queue' = queue
      /\ last' = last /\ answer' = answer
  BY DEF Connect, files
<1>3. /\ excused \subseteq excused'
      /\ \A t \in Sessions : session[t].id = c /\ Pending(t) => c \in excused'
      /\ \A e \in known : e # c /\ DirOf[e] = DirOf[c] => e \in excused' /\ c \in excused'
  <2>1. excused' = excused
       \union (IF \E t \in Sessions : session[t].id = c /\ Pending(t) THEN {c} ELSE {})
       \union (IF known \intersect Sharing(DirOf[c]) \subseteq {c} THEN {}
               ELSE Sharing(DirOf[c]))
    BY DEF Connect
  <2> QED
    BY <1>1, <2>1 DEF Sharing
<1>4. excused' \subseteq Clients
  BY DEF Connect, TypeOK, Sharing
<1>5. /\ session'[s].at = "dir" /\ session'[s].id = c /\ c # NoClient
      /\ \A t \in Sessions \ {s} : session'[t] = session[t]
      /\ session' \in [Sessions -> Threads]
  <2>1. c \in Ids /\ c # NoClient
    BY RemoteAssumption DEF Ids
  <2> QED
    BY <1>1, <1>2, <2>1, StepNames, ZenonT(60) DEF Threads
<1>6. Unused(s) /\ session[s].id = NoClient /\ queue[s] = <<>>
  BY <1>2 DEF Unused, IdsOK
<1>7. \A e \in Clients : current[e] # s
  BY <1>6, NoThread, RemoteAssumption DEF IdsOK
<1>8. current'[c] = s /\ \A e \in Clients \ {c} : current'[e] = current[e]
  BY <1>1, <1>2
<1>9. TypeOK'
  <2>1. current' \in [Clients -> {0} \union Sessions] /\ known' \subseteq Clients
    BY <1>1, <1>2
  <2> QED
    BY <1>2, <1>4, <1>5, <2>1 DEF TypeOK, Threads, Steps, Ids, Marks, Lists
<1>10. IdsOK'
  <2>1. ~Unused(s)'
    BY <1>5 DEF Unused
  <2>2. \A t \in Sessions : Unused(t)' => session'[t].id = NoClient /\ queue'[t] = <<>>
    BY <1>2, <1>5, <2>1 DEF IdsOK, Unused
  <2>3. \A t \in Sessions : ~Unused(t)' => session'[t].id \in known'
    BY <1>2, <1>5 DEF IdsOK, Unused
  <2>4. \A e \in Clients : current'[e] # 0 => session'[current'[e]].id = e
    BY <1>1, <1>5, <1>7, <1>8 DEF IdsOK
  <2>5. \A e \in Clients \ known' : current'[e] = 0 /\ last'[e] = [d \in Disks |-> Fresh(d)]
    BY <1>2, <1>8 DEF IdsOK
  <2> QED
    BY <2>2, <2>3, <2>4, <2>5 DEF IdsOK
<1>11. DirsOK'
  <2>1. \A t \in Sessions : ~Unused(t)' /\ session'[t].at # "dir" => t # s /\ ~Unused(t) /\ Dir(t)' = Dir(t)
    BY <1>5 DEF Unused, Dir
  <2> QED
    BY <1>2, <1>5, <2>1 DEF DirsOK
<1>12. lock # s /\ (lock # 0 => lock \in Sessions /\ session'[lock] = session[lock] /\ Dir(lock)' = Dir(lock))
  <2>1. lock # s
    BY <1>2 DEF LockOK
  <2> QED
    BY <1>1, <1>2, <1>5, <2>1 DEF Dir
<1>13. LockOK'
  <2>1. \A t \in Sessions : session'[t].at # "copy again" /\ (lock' = t <=> session'[t].at = "copy")
    BY <1>2, <1>5, <1>12 DEF LockOK
  <2>2. lock # 0 => \A t \in Sessions \ {lock} : ~Unused(t)' /\ Dir(t)' = Dir(lock) => session'[t].at = "dir"
    BY <1>5 DEF LockOK, Unused, Dir
  <2> QED
    BY <1>2, <1>12, <2>1, <2>2 DEF LockOK
<1>14. FilledOK'
  <2>1. \A r \in made : Filled(r)' = Filled(r) /\ Sharing(r)' = Sharing(r)
    BY <1>2 DEF Filled, Sharing
  <2> QED
    BY <1>2, <1>3, <1>12, <2>1 DEF FilledOK
<1>15. Apart'
  BY <1>2, <1>3 DEF Apart
<1>16. ListsOK'
  BY <1>2, <1>3, <1>5 DEF ListsOK
<1>17. NewestOK'
  <2> SUFFICES ASSUME NEW e \in Clients, e \notin excused', NEW t \in Sessions,
                      session'[t].id = e, queue[t] # <<>>
               PROVE  t = current'[e]
    BY <1>2 DEF NewestOK, Pending
  <2>1. t # s /\ session[t].id = e /\ Pending(t)
    BY <1>5, <1>6 DEF Pending
  <2>2. e # c
    BY <1>3, <2>1
  <2> QED
    BY <1>3, <1>8, <2>1, <2>2 DEF NewestOK
<1>18. WrittenOK'
  <2> SUFFICES ASSUME NEW e \in known \union {c}, e \notin excused', NEW d \in Disks
               PROVE  Leads(Waiting(e)', d, Holds(e, d)', last'[e][d])
    BY <1>2 DEF WrittenOK
  <2>1. Holds(e, d)' = Holds(e, d) /\ last' = last
    BY <1>2 DEF Holds
  <2>2. CASE e # c
    <3>1. Waiting(e)' = Waiting(e)
      BY <1>1, <1>2, <1>8, <2>2 DEF Waiting
    <3> QED
      BY <1>3, <2>1, <2>2, <3>1 DEF WrittenOK
  <2>3. CASE e = c
    <3>1. Waiting(c)' = <<>>
      BY <1>2, <1>6, <1>8, NoThread DEF Waiting
    <3>2. Holds(c, d) = last[c][d]
      <4>1. CASE c \in known
        <5>1. Waiting(c) = <<>>
          BY <1>1, <1>3, <2>3, <4>1 DEF Waiting, IdsOK, Pending
        <5>2. Leads(<<>>, d, Holds(c, d), last[c][d])
          BY <1>3, <2>3, <4>1, <5>1 DEF WrittenOK
        <5> QED
          BY <5>2, NothingWaited
      <4>2. CASE c \notin known
        <5>1. last[c][d] = Fresh(d)
          BY <4>2 DEF IdsOK
        <5>2. DirOf[c] \notin made
          BY <1>3, <2>3, <4>2 DEF DirsOK
        <5>3. image[DirOf[c]][d] = Missing
          BY <5>2, RemoteAssumption DEF DirsOK
        <5> QED
          BY <5>1, <5>3, FreshHolds, RemoteAssumption
      <4> QED
        BY <4>1, <4>2
    <3>3. last[c][d] \in Values
      BY DEF TypeOK
    <3> QED
      BY <2>1, <2>3, <3>1, <3>2, <3>3, NothingWaits
  <2> QED
    BY <2>2, <2>3
<1>19. ReadBack'
  BY <1>2, <1>3 DEF ReadBack
<1> QED
  BY <1>9, <1>10, <1>11, <1>13, <1>14, <1>15, <1>16, <1>17, <1>18, <1>19

LEMMA SendStep ==
  ASSUME IInv, NEW c \in Clients, NEW d \in Disks, NEW r \in Requests, Send(c, r), r.disk = d,
         last' = [last EXCEPT ![c][d] = r.value], r.op = "read" => r.value = last[c][d],
         UNCHANGED <<files, lock, opened, session, current, known, excused, answer, restarts>>
  PROVE  IInv'
<1> USE DEF IInv
<1>1. /\ session \in [Sessions -> Threads] /\ current \in [Clients -> {0} \union Sessions]
      /\ queue \in [Sessions -> Seq(Requests)] /\ last \in [Clients -> [Disks -> Values]]
      /\ known \subseteq Clients
  BY SessionType DEF TypeOK, Requests
<1>2. PICK s \in Sessions : s = current[c]
  BY <1>1 DEF Send
<1>3. /\ session[s].id = c /\ ~Unused(s) /\ c \in known
  BY <1>1, <1>2, NoThread, RemoteAssumption DEF IdsOK
<1>4. queue' = [queue EXCEPT ![s] = Append(@, r)]
  BY <1>2 DEF Send
<1>5. /\ queue'[s] = Append(queue[s], r) /\ queue' \in [Sessions -> Seq(Requests)]
      /\ \A t \in Sessions \ {s} : queue'[t] = queue[t]
  BY <1>1, <1>4
<1>6. /\ last' \in [Clients -> [Disks -> Values]] /\ last'[c][d] = r.value
      /\ \A e \in Disks \ {d} : last'[c][e] = last[c][e]
      /\ \A b \in Clients \ {c} : last'[b] = last[b]
  <2>1. PICK v \in Values : v = r.value
    BY DEF Requests
  <2>2. last' = [last EXCEPT ![c][d] = v]
    BY <2>1
  <2> QED
    BY <1>1, <2>1, <2>2
<1>7. /\ made' = made /\ image' = image /\ lock' = lock /\ opened' = opened /\ session' = session
      /\ current' = current /\ known' = known /\ excused' = excused /\ answer' = answer
  BY DEF files
<1>8. TypeOK'
  BY <1>5, <1>6, <1>7 DEF TypeOK, Requests
<1>9. IdsOK'
  BY <1>3, <1>5, <1>6, <1>7, SMTT(30) DEF IdsOK, Unused
<1>10. DirsOK' /\ LockOK' /\ FilledOK' /\ Apart' /\ ListsOK' /\ ReadBack'
  <2>1. DirsOK'
    BY <1>7 DEF DirsOK, Unused, Dir
  <2>2. LockOK'
    BY <1>7 DEF LockOK, Unused, Dir
  <2>3. FilledOK'
    BY <1>7 DEF FilledOK, Filled, Sharing, Dir
  <2>4. Apart' /\ ReadBack'
    BY <1>7 DEF Apart, ReadBack
  <2>5. ListsOK'
    BY <1>7 DEF ListsOK
  <2> QED
    BY <2>1, <2>2, <2>3, <2>4, <2>5
<1>11. NewestOK'
  BY <1>2, <1>3, <1>5, <1>7 DEF NewestOK, Pending
<1>12. WrittenOK'
  <2> SUFFICES ASSUME NEW b \in known \ excused, NEW e \in Disks
               PROVE  Leads(Waiting(b)', e, Holds(b, e)', last'[b][e])
    BY <1>7 DEF WrittenOK
  <2>1. Holds(b, e)' = Holds(b, e) /\ Leads(Waiting(b), e, Holds(b, e), last[b][e])
    BY <1>7 DEF Holds, WrittenOK
  <2>2. CASE b # c
    <3>1. current[b] # s
      BY <1>1, <1>3, <2>2, NoThread DEF IdsOK
    <3>2. Waiting(b)' = Waiting(b) /\ last'[b] = last[b]
      BY <1>1, <1>5, <1>6, <1>7, <2>2, <3>1 DEF Waiting
    <3> QED
      BY <2>1, <3>2
  <2>3. CASE b = c
    <3>1. Waiting(c) = queue[s] /\ Waiting(c)' = Append(queue[s], r)
      BY <1>2, <1>5, <1>7, NoThread DEF Waiting
    <3>2. /\ r.disk = e => last'[c][e] = r.value
          /\ ~(r.disk = e /\ r.op = "write") => last'[c][e] = last[c][e]
      BY <1>6 DEF Requests
    <3>3. /\ Leads(queue[s], e, Holds(c, e), last[c][e]) /\ queue[s] \in Seq(Requests)
          /\ last'[c][e] \in Values
      BY <1>1, <1>6, <2>1, <2>3, <3>1
    <3>4. PICK old, new, next : old = Holds(c, e) /\ new = last[c][e] /\ next = last'[c][e]
      BY <3>3
    <3>5. Leads(Append(queue[s], r), e, old, next)
      BY <3>2, <3>3, <3>4, OneMoreWaits
    <3> QED
      BY <2>1, <2>3, <3>1, <3>4, <3>5
  <2> QED
    BY <2>2, <2>3
<1> QED
  BY <1>8, <1>9, <1>10, <1>11, <1>12

LEMMA RestartStep ==
  ASSUME IInv, Restart
  PROVE  IInv'
<1> USE DEF IInv
<1>1. /\ session \in [Sessions -> Threads] /\ lock \in {0} \union Sessions /\ known \subseteq Clients
      /\ made \subseteq Dirs
  BY SessionType DEF TypeOK
<1>2. /\ lock' = 0 /\ opened' = [c \in Clients |-> NoList]
      /\ session' = [s \in Sessions |-> IF At(s, "none") THEN Idle ELSE [Idle EXCEPT !.at = "gone"]]
      /\ queue' = [s \in Sessions |-> <<>>] /\ current' = [c \in Clients |-> 0]
      /\ made' = made /\ image' = image /\ last' = last /\ known' = known /\ answer' = answer
  BY DEF Restart, files
<1>3. /\ excused' = excused
       \union {session[s].id : s \in {t \in Sessions : Pending(t)}}
       \union (IF lock = 0 THEN {} ELSE Sharing(Dir(lock)))
  BY DEF Restart
<1>4. /\ excused \subseteq excused' /\ (lock # 0 => Sharing(Dir(lock)) \subseteq excused')
      /\ \A s \in Sessions : Pending(s) => session[s].id \in excused'
  BY <1>3
<1>5. excused' \subseteq Clients
  <2>1. \A s \in Sessions : Pending(s) => session[s].id \in Clients
    BY <1>1 DEF IdsOK, Pending
  <2>2. {session[s].id : s \in {t \in Sessions : Pending(t)}} \subseteq Clients
    BY <2>1
  <2>3. excused \subseteq Clients /\ \A r : Sharing(r) \subseteq Clients
    BY DEF TypeOK, Sharing
  <2> QED
    BY <1>3, <2>2, <2>3
<1>6. \A s \in Sessions : /\ session'[s].at \in {"none", "gone"} /\ session'[s].id = NoClient
                          /\ session'[s] \in Threads
  <2>1. Idle \in Threads /\ [Idle EXCEPT !.at = "gone"] \in Threads
    <3>1. NoList \in [Disks -> Marks] /\ NoClient \in Ids
      BY DEF NoList, Marks, Ids
    <3> QED
      BY <3>1, StepNames DEF Idle, Threads
  <2> QED
    BY <1>2, <2>1 DEF Idle
<1>7. TypeOK'
  <2>1. session' \in [Sessions -> Threads]
    BY <1>2, <1>6
  <2>2. opened' \in [Clients -> Lists] /\ current' \in [Clients -> {0} \union Sessions]
    BY <1>2 DEF NoList, Lists
  <2>3. queue' \in [Sessions -> Seq(Requests)]
    BY <1>2
  <2> QED
    BY <1>2, <1>5, <2>1, <2>2, <2>3 DEF TypeOK, Threads, Steps, Ids, Marks, Lists, Requests
<1>8. IdsOK'
  BY <1>2, <1>6 DEF IdsOK, Unused
<1>9. DirsOK'
  BY <1>2, <1>6 DEF DirsOK, Unused
<1>10. LockOK'
  BY <1>2, <1>6, NoThread DEF LockOK
<1>11. FilledOK'
  <2>1. \A r \in made : Filled(r)' = Filled(r) /\ Sharing(r)' = Sharing(r)
    BY <1>2 DEF Filled, Sharing
  <2> QED
    BY <1>2, <1>4, <2>1 DEF FilledOK
<1>12. Apart'
  BY <1>2, <1>4 DEF Apart
<1>13. ListsOK'
  BY <1>2, <1>6, RemoteAssumption DEF ListsOK
<1>14. NewestOK'
  BY <1>6, RemoteAssumption DEF NewestOK
<1>15. WrittenOK'
  <2> SUFFICES ASSUME NEW c \in known, c \notin excused', NEW d \in Disks
               PROVE  Leads(Waiting(c)', d, Holds(c, d)', last'[c][d])
    BY <1>2 DEF WrittenOK
  <2>1. Holds(c, d)' = Holds(c, d) /\ last' = last /\ Waiting(c)' = <<>>
    BY <1>1, <1>2 DEF Holds, Waiting
  <2>2. Waiting(c) = <<>>
    <3>1. CASE current[c] = 0
      BY <3>1 DEF Waiting
    <3>2. CASE current[c] # 0
      <4>1. current[c] \in Sessions /\ session[current[c]].id = c
        BY <1>1, <3>2 DEF TypeOK, IdsOK
      <4> QED
        BY <1>4, <3>2, <4>1 DEF Waiting, Pending
    <3> QED
      BY <3>1, <3>2
  <2>3. Leads(<<>>, d, Holds(c, d), last[c][d])
    BY <1>4, <2>2 DEF WrittenOK
  <2>4. Holds(c, d) = last[c][d]
    BY <2>3, NothingWaited
  <2>5. last[c][d] \in Values
    BY <1>1 DEF TypeOK
  <2> QED
    BY <2>1, <2>4, <2>5, NothingWaits
<1>16. ReadBack'
  BY <1>2, <1>4 DEF ReadBack
<1> QED
  BY <1>7, <1>8, <1>9, <1>10, <1>11, <1>12, <1>13, <1>14, <1>15, <1>16

-----------------------------------------------------------------------------
(* The theorems *)

LEMMA InitIInv == Init => IInv
<1> SUFFICES ASSUME Init PROVE IInv
  OBVIOUS
<1>1. TypeOK
  BY TypesInit
<1>2. /\ made = {} /\ known = {} /\ lock = 0
      /\ \A s \in Sessions : session[s] = Idle /\ queue[s] = <<>>
      /\ \A c \in Clients : /\ current[c] = 0 /\ opened[c] = NoList
                           /\ last[c] = [d \in Disks |-> Fresh(d)]
      /\ \A r \in Dirs : image[r] = [d \in Disks |-> Missing]
  BY DEF Init
<1>3. Idle.at = "none" /\ Idle.id = NoClient
  BY DEF Idle
<1>4. IdsOK /\ DirsOK
  BY <1>2, <1>3 DEF IdsOK, DirsOK, Unused
<1>5. LockOK
  BY <1>2, <1>3, NoThread DEF LockOK
<1>6. FilledOK /\ Apart /\ WrittenOK
  BY <1>2 DEF FilledOK, Apart, WrittenOK
<1>7. ListsOK /\ NewestOK
  BY <1>2, <1>3, RemoteAssumption DEF ListsOK, NewestOK, Pending
<1>8. ReadBack
  BY DEF Init, ReadBack
<1> QED
  BY <1>1, <1>4, <1>5, <1>6, <1>7, <1>8 DEF IInv

LEMMA StepIInv == IInv /\ [Next]_vars => IInv'
<1> SUFFICES ASSUME IInv, [Next]_vars PROVE IInv'
  OBVIOUS
<1>1. ASSUME NEW s \in Sessions, Thread(s)
      PROVE  IInv'
  <2>1. TypeOK /\ IdsOK /\ DirsOK /\ LockOK /\ FilledOK /\ Apart /\ ListsOK /\ NewestOK
    BY DEF IInv
  <2>2. TypeOK' /\ IdsOK' /\ DirsOK' /\ LockOK' /\ FilledOK' /\ ListsOK' /\ NewestOK'
    BY <1>1, <2>1, TypesThread, IdsThread, DirsThread, LockThread, FilledThread, ListsThread,
       NewestThread
  <2>3. Apart'
    BY <1>1, <2>1, ThreadLocal DEF Apart
  <2>4. WrittenOK' /\ ReadBack'
    BY <1>1, WrittenThread, ReadThread
  <2> QED
    BY <2>2, <2>3, <2>4 DEF IInv
<1>2. ASSUME NEW c \in Clients, NEW d \in Disks, SendRead(c, d)
      PROVE  IInv'
  <2>1. PICK v \in Values : v = last[c][d]
    BY DEF IInv, TypeOK
  <2>2. PICK r \in Requests : r = [op |-> "read", disk |-> d, value |-> v]
    BY DEF Requests
  <2>3. Send(c, r)
    BY <1>2, <2>1, <2>2 DEF SendRead
  <2>4. UNCHANGED <<files, lock, opened, session, current, history, restarts>>
    BY <1>2 DEF SendRead
  <2>5. last' = [last EXCEPT ![c][d] = r.value]
    BY <2>1, <2>2, <2>4 DEF history, IInv, TypeOK
  <2>6. r.disk = d /\ r.value = last[c][d]
    BY <2>1, <2>2
  <2> QED
    BY <2>3, <2>4, <2>5, <2>6, SendStep DEF history
<1>3. ASSUME NEW c \in Clients, NEW d \in Disks, NEW v \in Values, SendWrite(c, d, v)
      PROVE  IInv'
  <2>1. PICK r \in Requests : r = [op |-> "write", disk |-> d, value |-> v]
    BY DEF Requests
  <2>2. /\ Send(c, r) /\ r.disk = d /\ r.op # "read" /\ last' = [last EXCEPT ![c][d] = r.value]
        /\ UNCHANGED <<files, lock, opened, session, current, known, excused, answer, restarts>>
    BY <1>3, <2>1 DEF SendWrite
  <2> QED
    BY <2>2, SendStep
<1>4. CASE UNCHANGED vars
  <2>1. /\ made' = made /\ image' = image /\ lock' = lock /\ opened' = opened /\ session' = session
        /\ queue' = queue /\ current' = current /\ last' = last /\ known' = known
        /\ excused' = excused /\ answer' = answer
    BY <1>4 DEF vars, files, history
  <2>2. TypeOK' /\ IdsOK' /\ DirsOK' /\ Apart' /\ ReadBack'
    BY <2>1 DEF IInv, TypeOK, IdsOK, DirsOK, Apart, ReadBack, Unused, Dir
  <2>3. LockOK' /\ FilledOK'
    BY <2>1 DEF IInv, LockOK, FilledOK, Filled, Sharing, Unused, Dir
  <2>4. ListsOK' /\ NewestOK'
    BY <2>1 DEF IInv, ListsOK, NewestOK, Pending
  <2>5. \A c, d : Holds(c, d)' = Holds(c, d) /\ Waiting(c)' = Waiting(c)
    BY <2>1 DEF Holds, Waiting
  <2>6. WrittenOK'
    BY <2>1, <2>5 DEF IInv, WrittenOK
  <2> QED
    BY <2>2, <2>3, <2>4, <2>6 DEF IInv
<1> QED
  BY <1>1, <1>2, <1>3, <1>4, ConnectStep, RestartStep DEF Next

LEMMA Invariant == Spec => []IInv
  BY InitIInv, StepIInv, PTL DEF Spec

\* Every variable keeps its type: the lock is held by a thread there is, and a disk has one
\* of its contents, is missing or too short (remote_fs_server.py:40-330).
THEOREM TypeCorrect == Spec => []TypeOK
<1>1. IInv => TypeOK
  BY DEF IInv
<1> QED
  BY <1>1, Invariant, PTL

\* What a client wrote is what is on its disks, over any number of reconnections and
\* restarts, and whoever else sets up the same disks (remote_fs_server.py:225-330).
THEOREM Stays == Spec => []Durable
<1>1. ASSUME IInv, NEW c \in Clients \ excused, Settled(c)
      PROVE  image[DirOf[c]] = last[c]
  <2>1. PICK s \in Sessions : session[s].id = c /\ session[s].at = "ready"
    BY <1>1 DEF Settled, At
  <2>2. ~Unused(s) /\ c \in known /\ DirOf[c] = Dir(s)
    BY <1>1, <2>1 DEF IInv, IdsOK, Unused, Dir
  <2>3. Filled(DirOf[c])
    BY <1>1, <2>1, <2>2, Served DEF IInv
  <2>4. Waiting(c) = <<>>
    <3>1. CASE current[c] = 0
      BY <3>1 DEF Waiting
    <3>2. CASE current[c] # 0
      <4>1. current[c] \in Sessions /\ session[current[c]].id = c
        BY <1>1, <3>2 DEF IInv, TypeOK, IdsOK
      <4> QED
        BY <1>1, <3>2, <4>1 DEF Settled, Waiting, Pending
    <3> QED
      BY <3>1, <3>2
  <2>5. ASSUME NEW d \in Disks
        PROVE  image[DirOf[c]][d] = last[c][d]
    <3>1. Leads(<<>>, d, Holds(c, d), last[c][d])
      BY <1>1, <2>2, <2>4 DEF IInv, WrittenOK
    <3>2. Holds(c, d) = image[DirOf[c]][d]
      BY <2>3 DEF Filled, Holds
    <3> QED
      BY <3>1, <3>2, NothingWaited
  <2>6. image[DirOf[c]] \in [Disks -> Images] /\ last[c] \in [Disks -> Values]
    BY <1>1, RemoteAssumption DEF IInv, TypeOK
  <2> QED
    BY <2>5, <2>6
<1>2. IInv => Durable
  BY <1>1 DEF Durable
<1> QED
  BY <1>2, Invariant, PTL

\* What is read is what the client wrote last (_handle_read_sector, remote_fs_server.py).
THEOREM ReadsBack == Spec => []ReadBack
<1>1. IInv => ReadBack
  BY DEF IInv
<1> QED
  BY <1>1, Invariant, PTL
=============================================================================
