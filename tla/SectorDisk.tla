----------------------------- MODULE SectorDisk -----------------------------
(***************************************************************************)
(* What a floppy drive promises to the program in the machine, without     *)
(* buffers, files or offsets: every drive has its own sectors, the sector  *)
(* number it tells is the sector that is then read or written, a byte read *)
(* is the byte stored there, and a byte written is stored there at once.   *)
(* The rest of a sector whose writing has begun is undefined until it is   *)
(* written too.  DiskController implements this.                           *)
(***************************************************************************)
EXTENDS Naturals

CONSTANTS Drives,           \* the drives
          Byte,             \* values of a byte
          SectorSize,       \* SECTOR_SIZE
          SectorsPerTrack,  \* SECTORS_PER_TRACK
          MaxTracks         \* MAX_TRACKS

Sectors == 0..(MaxTracks * SectorsPerTrack - 1)
Content == [0..(SectorSize - 1) -> Byte]

VARIABLES
  store,   \* content of every sector of every drive
  track,   \* the track a drive's head is on
  turn,    \* the sector number that comes round next
  under,   \* the sector under the head
  moved,   \* bytes moved since the head came to this sector
  mode,    \* whether they were read or written
  answer   \* what the program was last told

vars == <<store, track, turn, under, moved, mode, answer>>

Init ==
  /\ store \in [Drives -> [Sectors -> Content]]
  /\ track = [d \in Drives |-> 0]
  /\ turn = [d \in Drives |-> 0]
  /\ under = [d \in Drives |-> 0]
  /\ moved = [d \in Drives |-> 0]
  /\ mode = [d \in Drives |-> "none"]
  /\ answer = <<"none">>

\* The head comes to sector s of track t, and sector number n is next.
Come(d, t, s, n) ==
  /\ track' = [track EXCEPT ![d] = t]
  /\ under' = [under EXCEPT ![d] = t * SectorsPerTrack + s]
  /\ turn' = [turn EXCEPT ![d] = n % SectorsPerTrack]
  /\ moved' = [moved EXCEPT ![d] = 0]
  /\ mode' = [mode EXCEPT ![d] = "none"]
  /\ UNCHANGED store

StepTo(d, t) == t \in 0..(MaxTracks - 1) /\ Come(d, t, 0, 0) /\ UNCHANGED answer

Sector(d) == Come(d, track[d], turn[d], turn[d] + 1) /\ answer' = <<"sector", turn[d]>>

WriteEnable(d) ==
  /\ moved[d] = 0
  /\ mode' = [mode EXCEPT ![d] = "write"]
  /\ UNCHANGED <<store, track, turn, under, moved, answer>>

Move(d) == /\ moved' = [moved EXCEPT ![d] = @ + 1]
           /\ UNCHANGED <<track, turn, under>>

Read(d) ==
  /\ mode[d] # "write" /\ moved[d] < SectorSize
  /\ mode' = [mode EXCEPT ![d] = "read"]
  /\ answer' = <<"byte", store[d][under[d]][moved[d]]>>
  /\ Move(d)
  /\ UNCHANGED store

Write(d) ==
  /\ mode[d] = "write" /\ moved[d] < SectorSize
  /\ \E c \in Content :
       /\ \A i \in 0..(moved[d] - 1) : c[i] = store[d][under[d]][i]
       /\ store' = [store EXCEPT ![d][under[d]] = c]
       /\ answer' = <<"wrote", c[moved[d]]>>
  /\ Move(d)
  /\ UNCHANGED mode

\* The byte after the last one of a sector is not stored.
Trailer(d) ==
  /\ mode[d] = "write" /\ moved[d] = SectorSize
  /\ Move(d)
  /\ UNCHANGED <<store, mode, answer>>

Next == \E d \in Drives :
  \/ \E t \in {track[d] - 1, track[d], track[d] + 1} : StepTo(d, t)
  \/ Sector(d) \/ WriteEnable(d) \/ Read(d) \/ Write(d) \/ Trailer(d)

Spec == Init /\ [][Next]_vars

=============================================================================
