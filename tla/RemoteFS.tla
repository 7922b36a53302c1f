------------------------------ MODULE RemoteFS ------------------------------
(***************************************************************************)
(* The remote file system server, RemoteFS/remote_fs_server.py: a thread   *)
(* per connection, a directory of disk images per client, copied from the  *)
(* templates when the client appears for the first time, and a list of     *)
(* opened images per client id that all its sessions share.                *)
(*                                                                         *)
(* A client sends writes without waiting for an answer.  It may drop its   *)
(* connection and open another one at any time; the thread of the old one  *)
(* goes on with what was sent to it.  The server may be killed and started *)
(* again: the files stay, with what was written to their mappings.         *)
(*                                                                         *)
(* The content of a disk is that of one sector, which stands for any: the  *)
(* interpreter's lock makes a sector's read and write single steps.        *)
(***************************************************************************)
EXTENDS Naturals, Sequences, FiniteSets

CONSTANTS Clients,      \* client ids
          Dirs,         \* directories
          DirOf,        \* the directory of an id: ':' and '.' become '_'
          Disks,        \* DISK_NAMES
          Values,       \* contents of a sector; 0 is the empty one
          Template,     \* content of each template, or Missing
          MaxSessions,  \* bound: connections in a behaviour
          MaxPending,   \* bound: requests on their way
          MaxRestarts,  \* bound: times the server is killed
          Missing, Short, NoClient

Images == Values \union {Missing, Short}

ASSUME RemoteAssumption ==
  /\ DirOf \in [Clients -> Dirs]
  /\ 0 \in Values /\ Missing \notin Values /\ Short \notin Values /\ Missing # Short
  /\ Template \in [Disks -> Values \union {Missing}]
  /\ NoClient \notin Clients
  /\ {MaxSessions, MaxPending, MaxRestarts} \subseteq Nat

Sessions == 1..MaxSessions
NoList == [d \in Disks |-> "none"]
ASSUME RemoteSets == IsFiniteSet(Disks)

VARIABLES
  made,      \* directories that exist
  image,     \* the files; Short is a file that is not of full size
  lock,      \* server.lock
  opened,    \* client_disks: per id, whether each image has a mapping, or NoList
  session,   \* the threads: step, client id, the disks they still have to do, their list
  queue,     \* requests on their way to each session
  current,   \* the connection each client uses
  last,      \* history: what each client wrote last to each disk
  known,     \* history: ids that connected
  excused,   \* history: clients whose disks nobody vouches for
  answer,    \* history: the last answer to a read
  restarts   \* number of restarts

files == <<made, image>>
history == <<last, known, excused, answer>>
vars == <<files, lock, opened, session, queue, current, history, restarts>>

Idle == [at |-> "none", id |-> NoClient, todo |-> {}, list |-> NoList]

\* What a new disk holds: its template, or nothing.
Fresh(d) == IF Template[d] = Missing THEN 0 ELSE Template[d]

Init ==
  /\ made = {} /\ image = [r \in Dirs |-> [d \in Disks |-> Missing]]
  /\ lock = 0
  /\ opened = [c \in Clients |-> NoList]
  /\ session = [s \in Sessions |-> Idle]
  /\ queue = [s \in Sessions |-> <<>>]
  /\ current = [c \in Clients |-> 0]
  /\ last = [c \in Clients |-> [d \in Disks |-> Fresh(d)]]
  /\ known = {} /\ excused = {}
  /\ answer = [id |-> NoClient, value |-> 0, expected |-> 0]
  /\ restarts = 0

-----------------------------------------------------------------------------
(* Clients *)

Sharing(r) == {c \in Clients : DirOf[c] = r}
Pending(s) == queue[s] # <<>>

\* A client connects and sends INIT with its id.  Requests that its old connection still
\* has to deliver may be overtaken; an id that shares a directory shares its disks.
Connect(s, c) ==
  /\ session[s].at = "none"
  /\ \A t \in 1..(s - 1) : session[t].at # "none"
  /\ session' = [session EXCEPT ![s].at = "dir", ![s].id = c]
  /\ current' = [current EXCEPT ![c] = s]
  /\ excused' = excused
       \union (IF \E t \in Sessions : session[t].id = c /\ Pending(t) THEN {c} ELSE {})
       \union (IF known \intersect Sharing(DirOf[c]) \subseteq {c} THEN {}
               ELSE Sharing(DirOf[c]))
  /\ known' = known \union {c}
  /\ UNCHANGED <<files, lock, opened, queue, last, answer, restarts>>

Send(c, request) ==
  /\ current[c] # 0 /\ Len(queue[current[c]]) < MaxPending
  /\ queue' = [queue EXCEPT ![current[c]] = Append(@, request)]

SendWrite(c, d, v) ==
  /\ Send(c, [op |-> "write", disk |-> d, value |-> v])
  /\ last' = [last EXCEPT ![c][d] = v]
  /\ UNCHANGED <<files, lock, opened, session, current, known, excused, answer, restarts>>

SendRead(c, d) ==
  /\ Send(c, [op |-> "read", disk |-> d, value |-> last[c][d]])
  /\ UNCHANGED <<files, lock, opened, session, current, history, restarts>>

-----------------------------------------------------------------------------
(* The thread of session s *)

At(s, step) == session[s].at = step
To(s, step) == session' = [session EXCEPT ![s].at = step]
Dir(s) == DirOf[session[s].id]

\* get_client_dir, called for INIT itself and again before the images are opened: the
\* lock is taken, and given back if the directory is there.
GetDir(s) ==
  /\ session[s].at \in {"dir", "dir again"} /\ lock = 0
  /\ IF Dir(s) \in made
     THEN /\ session' = [session EXCEPT ![s].at = IF @ = "dir" THEN "list" ELSE "open",
                                        ![s].todo = Disks]
          /\ UNCHANGED <<lock, made>>
     ELSE /\ made' = made \union {Dir(s)}
          /\ lock' = s
          /\ session' = [session EXCEPT ![s].at = IF @ = "dir" THEN "copy" ELSE "copy again",
                                        ![s].todo = Disks]
  /\ UNCHANGED <<image, opened, queue, current, history, restarts>>

\* Copying a template, or filling an empty disk: first there is a file, then its content.
Copy(s, d) ==
  /\ lock = s /\ d \in session[s].todo
  /\ IF image[Dir(s)][d] = Missing
     THEN /\ image' = [image EXCEPT ![Dir(s)][d] = Short]
          /\ UNCHANGED session
     ELSE /\ image' = [image EXCEPT ![Dir(s)][d] = Fresh(d)]
          /\ session' = [session EXCEPT ![s].todo = @ \ {d}]
  /\ UNCHANGED <<made, lock, opened, queue, current, history, restarts>>

\* Variant of Copied: the lock is kept.
CopiedLocked(s) ==
  /\ lock = s /\ session[s].todo = {}
  /\ session' = [session EXCEPT ![s].at = IF @ = "copy" THEN "list" ELSE "open",
                                ![s].todo = Disks]
  /\ UNCHANGED <<files, lock, opened, queue, current, history, restarts>>

Copied(s) ==
  /\ lock = s /\ session[s].todo = {}
  /\ lock' = 0
  /\ session' = [session EXCEPT ![s].at = IF @ = "copy" THEN "list" ELSE "open",
                                ![s].todo = Disks]
  /\ UNCHANGED <<files, opened, queue, current, history, restarts>>

\* get_client_disks: the list another session of the id stored, or a new one.
GetList(s) ==
  /\ At(s, "list") /\ lock = 0
  /\ session' = [session EXCEPT
       ![s].at = IF opened[session[s].id] = NoList THEN "dir again" ELSE "ready",
       ![s].list = opened[session[s].id]]
  /\ UNCHANGED <<files, lock, opened, queue, current, history, restarts>>

\* Variant of Open: an image that is there is filled as well.
OpenOver(s, d) ==
  /\ At(s, "open") /\ d \in session[s].todo
  /\ image' = [image EXCEPT ![Dir(s)][d] = 0]
  /\ session' = [session EXCEPT ![s].todo = @ \ {d}, ![s].list[d] = "mapped"]
  /\ UNCHANGED <<made, lock, opened, queue, current, history, restarts>>

\* DiskImage._open, outside the lock: a missing image is created empty, in a further
\* step; one that is too short cannot be mapped.
Open(s, d) ==
  /\ At(s, "open") /\ d \in session[s].todo
  /\ IF image[Dir(s)][d] = Missing
     THEN session' = [session EXCEPT ![s].at = "create", ![s].todo = (@ \ {d})]
     ELSE session' = [session EXCEPT ![s].todo = @ \ {d},
            ![s].list[d] = IF image[Dir(s)][d] = Short THEN "unmapped" ELSE "mapped"]
  /\ UNCHANGED <<files, lock, opened, queue, current, history, restarts>>

Create(s, d) ==
  /\ At(s, "create") /\ d \notin session[s].todo /\ session[s].list[d] = "none"
  /\ image' = [image EXCEPT ![Dir(s)][d] = 0]
  /\ session' = [session EXCEPT ![s].at = "open", ![s].list[d] = "mapped"]
  /\ UNCHANGED <<made, lock, opened, queue, current, history, restarts>>

\* The list is stored, over that of another session that was faster.
Store(s) ==
  /\ At(s, "open") /\ session[s].todo = {} /\ lock = 0
  /\ opened' = [opened EXCEPT ![session[s].id] = session[s].list]
  /\ To(s, "ready")
  /\ UNCHANGED <<files, lock, queue, current, history, restarts>>

Mapped(s, d) == session[s].list[d] = "mapped"

Handles(s, op) ==
  /\ At(s, "ready") /\ Pending(s) /\ Head(queue[s]).op = op
  /\ queue' = [queue EXCEPT ![s] = Tail(@)]

\* _handle_write_sector: a disk without a mapping drops it; nobody is told.
Write(s) ==
  /\ Handles(s, "write")
  /\ LET request == Head(queue[s])
     IN image' = IF Mapped(s, request.disk)
                 THEN [image EXCEPT ![Dir(s)][request.disk] = request.value] ELSE image
  /\ UNCHANGED <<made, lock, opened, session, current, history, restarts>>

\* Variant of Read: the template is read.
ReadTemplate(s) ==
  /\ Handles(s, "read")
  /\ LET request == Head(queue[s])
     IN answer' = [id |-> session[s].id, expected |-> request.value,
                   value |-> Fresh(request.disk)]
  /\ UNCHANGED <<files, lock, opened, session, current, last, known, excused, restarts>>

\* _handle_read_sector: a disk without a mapping reads as an empty one.
Read(s) ==
  /\ Handles(s, "read")
  /\ LET request == Head(queue[s])
     IN answer' = [id |-> session[s].id, expected |-> request.value,
                   value |-> IF Mapped(s, request.disk) THEN image[Dir(s)][request.disk]
                             ELSE 0]
  /\ UNCHANGED <<files, lock, opened, session, current, last, known, excused, restarts>>

\* The server is killed and started again: its threads, its lists and what was on its way
\* are gone, and nobody remembers a directory that was being filled.
Restart ==
  /\ restarts < MaxRestarts /\ restarts' = restarts + 1
  /\ lock' = 0
  /\ opened' = [c \in Clients |-> NoList]
  /\ session' = [s \in Sessions |-> IF At(s, "none") THEN Idle ELSE [Idle EXCEPT !.at = "gone"]]
  /\ queue' = [s \in Sessions |-> <<>>]
  /\ current' = [c \in Clients |-> 0]
  /\ excused' = excused
       \union {session[s].id : s \in {t \in Sessions : Pending(t)}}
       \union (IF lock = 0 THEN {} ELSE Sharing(Dir(lock)))
  /\ UNCHANGED <<files, last, known, answer>>

-----------------------------------------------------------------------------
Thread(s) ==
  \/ GetDir(s) \/ Copied(s) \/ GetList(s) \/ Store(s) \/ Write(s) \/ Read(s)
  \/ \E d \in Disks : Copy(s, d) \/ Open(s, d) \/ Create(s, d)

Next ==
  \/ Restart
  \/ \E s \in Sessions : Thread(s) \/ \E c \in Clients : Connect(s, c)
  \/ \E c \in Clients, d \in Disks : SendRead(c, d) \/ \E v \in Values : SendWrite(c, d, v)

\* Threads are scheduled.  One that waits for the lock gets it at last.
Spec == Init /\ [][Next]_vars /\ \A s \in Sessions : SF_vars(Thread(s))

-----------------------------------------------------------------------------
(* Properties *)

Lists == [Disks -> {"none", "mapped", "unmapped"}]

TypeOK ==
  /\ made \subseteq Dirs /\ image \in [Dirs -> [Disks -> Images]]
  /\ lock \in {0} \union Sessions
  /\ opened \in [Clients -> Lists]
  /\ session \in [Sessions ->
       [at : {"none", "dir", "copy", "list", "dir again", "copy again", "open", "create",
              "ready", "gone"},
        id : Clients \union {NoClient}, todo : SUBSET Disks, list : Lists]]
  /\ current \in [Clients -> {0} \union Sessions]
  /\ queue \in [Sessions -> Seq([op : {"write", "read"}, disk : Disks, value : Values])]
  /\ last \in [Clients -> [Disks -> Values]] /\ known \subseteq Clients
  /\ excused \subseteq Clients

\* A client that was served and has nothing on its way.
Settled(c) ==
  /\ \E s \in Sessions : session[s].id = c /\ At(s, "ready")
  /\ \A s \in Sessions : session[s].id = c => ~Pending(s)

\* What a client wrote is what is on its disks, over reconnections and restarts, and
\* what it did not write is the template: sessions that set up the same disks at the same
\* time do not undo one another.
Durable ==
  \A c \in Clients \ excused : Settled(c) => image[DirOf[c]] = last[c]

\* A read returns what the client wrote before it.
ReadBack == answer.id \notin excused => answer.value = answer.expected

\* A session becomes ready, unless the server is killed.
InitEnds == \A s \in Sessions : At(s, "dir") ~> session[s].at \in {"ready", "gone"}
=============================================================================
