--------------------------- MODULE DiskController ---------------------------
(***************************************************************************)
(* The MITS 88-DCDD disk controller, src/Altair8800/88dcdd.c, with the     *)
(* differencing disk of src/difference_disk.c for the ALTAIR_CLOUD build.  *)
(*                                                                         *)
(* A drive has one sector buffer, used for reading and for writing, and a  *)
(* file with an offset of its own.  Nothing ties the offset to the sector  *)
(* the controller believes to be under the head: writeSector writes where  *)
(* the offset is.  A buffer that was written to is dirty, and stays so     *)
(* over changes of the drive, until a full sector and one byte were        *)
(* written, or the head moves, or a sector number is asked for.            *)
(*                                                                         *)
(* Several bits in one OUT 9 are the actions of the bits in this order.    *)
(* The machine's program keeps the protocol of the hardware: after a       *)
(* sector number or a step it reads the sector from its start, or enables  *)
(* writing and writes it from its start with at most one byte more; it may *)
(* turn to another drive or step away at any byte.                         *)
(***************************************************************************)
EXTENDS Naturals

CONSTANTS Drives,           \* drive numbers: 0 .. MAX_DRIVES - 1
          Byte,             \* values of a byte
          ImageByte,        \* bound: values of a byte of the images at the start
          SectorSize,       \* SECTOR_SIZE
          SectorsPerTrack,  \* SECTORS_PER_TRACK
          MaxTracks,        \* MAX_TRACKS
          Cloud,            \* the build defines ALTAIR_CLOUD
          KeyStride,        \* distance of two drives' keys in the cache
          NoDrive           \* disk_drive.current before the first select

ASSUME DiskAssumption ==
  /\ Drives \subseteq Nat /\ 0 \in Drives
  /\ NoDrive \notin Drives
  /\ 0 \in Byte /\ ImageByte \subseteq Byte
  /\ SectorSize \in Nat \ {0}
  /\ SectorsPerTrack \in Nat \ {0}
  /\ MaxTracks \in Nat \ {0}
  /\ Cloud \in BOOLEAN
  /\ KeyStride \in Nat

VARIABLES
  current,  \* disk_drive.current
  drive,    \* the disk_t of every drive
  file,     \* the disk images
  cache,    \* the differencing disk
  moved,    \* the program: bytes it moved in the sector under the head
  mode,     \* the program: whether it reads or writes that sector
  answer    \* what the last IN told the program

vars == <<current, drive, file, cache, moved, mode, answer>>
image == <<file, cache>>
program == <<moved, mode>>

Sectors == 0..(MaxTracks * SectorsPerTrack - 1)
Content == [0..(SectorSize - 1) -> Byte]
Buffer == [0..(SectorSize + 1) -> Byte]
Conditions == {"ENWD", "HEAD", "TRACK_0", "NRDA"}

\* diskPointer and the file's offset count in sectors; status is the set of conditions
\* that are true, whose bits are clear.
Disk == [track : 0..(MaxTracks - 1), sector : 0..SectorsPerTrack,
         status : SUBSET Conditions, writeStatus : 0..SectorSize,
         diskPointer : Sectors, sectorPointer : Nat, sectorData : Buffer,
         dirty : BOOLEAN, have : BOOLEAN, offset : Nat]

NewDisk == [track |-> 0, sector |-> 0, status |-> Conditions, writeStatus |-> 0,
            diskPointer |-> 0, sectorPointer |-> 0,
            sectorData |-> [i \in 0..(SectorSize + 1) |-> 0],
            dirty |-> FALSE, have |-> FALSE, offset |-> 0]

Init ==
  /\ current = NoDrive
  /\ drive = [d \in Drives |-> NewDisk]
  /\ file \in [Drives -> [Sectors -> [0..(SectorSize - 1) -> ImageByte]]]
  /\ cache = <<>>
  /\ moved = [d \in Drives |-> 0]
  /\ mode = [d \in Drives |-> "none"]
  /\ answer = <<"none">>

-----------------------------------------------------------------------------
\* difference_disk.c: the key of a sector; every drive but the first passes DRIVE_B.
Key(d, n) == n + (IF d = 0 THEN 0 ELSE 1) * KeyStride

Sector(data) == [i \in 0..(SectorSize - 1) |-> data[i]]

\* writeSector of drive d with buffer r: into the cache, or into the file at its offset.
Save(d, r) ==
  IF Cloud
  THEN /\ LET key == Key(d, r.diskPointer)
          IN cache' = [k \in DOMAIN cache \union {key} |->
                         IF k = key THEN Sector(r.sectorData) ELSE cache[k]]
       /\ UNCHANGED file
  ELSE /\ file' = [file EXCEPT ![d][r.offset] = Sector(r.sectorData)]
       /\ UNCHANGED cache

Saved(r) == [r EXCEPT !.sectorPointer = 0, !.dirty = FALSE,
                      !.offset = IF Cloud THEN @ ELSE @ + 1]

\* What seek_to_track and sector do first: a dirty buffer is written.
SaveIfDirty(d) == IF drive[d].dirty THEN Save(d, drive[d]) ELSE UNCHANGED image

\* Variant of Placed: the index into the buffer is not set.
PlacedIndexKept(r, n) == [r EXCEPT !.offset = n, !.diskPointer = n,
                                   !.have = FALSE, !.dirty = FALSE]

\* lseek and the state that goes with it.
Placed(r, n) == [r EXCEPT !.offset = n, !.diskPointer = n, !.sectorPointer = 0,
                          !.have = FALSE, !.dirty = FALSE]

\* The program starts afresh in a new sector.
Afresh(d) == /\ moved' = [moved EXCEPT ![d] = 0]
             /\ mode' = [mode EXCEPT ![d] = "none"]

On(d) == d \in Drives /\ d = current

-----------------------------------------------------------------------------
\* Variant of Select: the drive starts its buffer over.
SelectOver(b) ==
  LET d == IF b \in Drives THEN b ELSE 0
  IN /\ current' = d
     /\ drive' = [drive EXCEPT ![d].sectorPointer = 0]
     /\ UNCHANGED <<image, program, answer>>

\* OUT 8: a number that is no drive selects the first one.
Select(b) ==
  /\ current' = IF b \in Drives THEN b ELSE 0
  /\ UNCHANGED <<drive, image, program, answer>>

\* seek_to_track, with the status a step leaves.
Seek(d, t, status) ==
  /\ SaveIfDirty(d)
  /\ drive' = [drive EXCEPT ![d] =
                 [Placed(@, t * SectorsPerTrack) EXCEPT
                    !.track = t, !.sector = 0, !.status = status]]
  /\ Afresh(d)
  /\ UNCHANGED <<current, answer>>

StepIn(d) ==
  LET t == IF drive[d].track < MaxTracks - 1 THEN drive[d].track + 1 ELSE drive[d].track
  IN Seek(d, t, IF t # 0 THEN drive[d].status \ {"TRACK_0"} ELSE drive[d].status)

StepOut(d) ==
  LET t == IF drive[d].track > 0 THEN drive[d].track - 1 ELSE 0
  IN Seek(d, t, IF t = 0 THEN drive[d].status \union {"TRACK_0"} ELSE drive[d].status)

Head(d, status) ==
  /\ drive' = [drive EXCEPT ![d].status = status]
  /\ UNCHANGED <<current, image, program, answer>>

HeadLoad(d) == Head(d, drive[d].status \union {"HEAD", "NRDA"})
HeadUnload(d) == Head(d, drive[d].status \ {"HEAD"})

WriteEnable(d) ==
  /\ moved[d] = 0
  /\ drive' = [drive EXCEPT ![d].status = @ \union {"ENWD"}, ![d].writeStatus = 0]
  /\ mode' = [mode EXCEPT ![d] = "write"]
  /\ UNCHANGED <<current, image, moved, answer>>

\* The sector that comes round: after the last one of a track the first.
SectorAfter(n) == IF n = SectorsPerTrack THEN 0 ELSE n

\* IN 9: the next sector number, with the head placed on that sector.
NextSector(d) ==
  LET s == SectorAfter(drive[d].sector)
  IN /\ SaveIfDirty(d)
     /\ drive' = [drive EXCEPT ![d] =
                    [Placed(@, @.track * SectorsPerTrack + s) EXCEPT !.sector = s + 1]]
     /\ answer' = <<"sector", s>>
     /\ Afresh(d)
     /\ UNCHANGED current

\* disk_write: the write after the last one of a sector saves it.  The program writes 0
\* then, which is not stored.
Write(d, b) ==
  LET r == [drive[d] EXCEPT !.sectorData[drive[d].sectorPointer] = b,
                            !.sectorPointer = @ + 1, !.dirty = TRUE]
  IN /\ mode[d] = "write" /\ moved[d] <= SectorSize
     /\ moved[d] = SectorSize => b = 0
     /\ IF r.writeStatus = SectorSize
        THEN /\ Save(d, r)
             /\ drive' = [drive EXCEPT ![d] =
                            [Saved(r) EXCEPT !.writeStatus = 0, !.status = @ \ {"ENWD"}]]
        ELSE /\ UNCHANGED image
             /\ drive' = [drive EXCEPT ![d] = [r EXCEPT !.writeStatus = @ + 1]]
     /\ answer' = IF moved[d] < SectorSize THEN <<"wrote", b>> ELSE answer
     /\ moved' = [moved EXCEPT ![d] = @ + 1]
     /\ UNCHANGED <<current, mode>>

\* The first SECTOR_SIZE bytes of a buffer replaced.
Load(data, c) == [i \in DOMAIN data |-> IF i < SectorSize THEN c[i] ELSE data[i]]

FromFile(d, r) == [r EXCEPT !.sectorPointer = 0, !.have = TRUE, !.offset = @ + 1,
                            !.sectorData = Load(@, file[d][r.offset])]

\* disk_read fills the buffer first: from the cache, or from the file at its offset.
Filled(d, r) ==
  LET key == Key(d, r.diskPointer)
  IN IF r.have THEN r
     ELSE IF Cloud /\ key \in DOMAIN cache
     THEN [r EXCEPT !.sectorPointer = 0, !.have = TRUE, !.sectorData = Load(@, cache[key])]
     ELSE FromFile(d, r)

Read(d) ==
  LET r == Filled(d, drive[d])
  IN /\ mode[d] # "write" /\ moved[d] < SectorSize
     /\ drive' = [drive EXCEPT ![d] = [r EXCEPT !.sectorPointer = @ + 1]]
     /\ answer' = <<"byte", r.sectorData[r.sectorPointer]>>
     /\ moved' = [moved EXCEPT ![d] = @ + 1]
     /\ mode' = [mode EXCEPT ![d] = "read"]
     /\ UNCHANGED <<current, image>>

Next ==
  \/ \E b \in Drives \union {4} : Select(b)
  \/ \E d \in Drives : On(d) /\
       \/ StepIn(d) \/ StepOut(d) \/ HeadLoad(d) \/ HeadUnload(d) \/ WriteEnable(d)
       \/ NextSector(d) \/ Read(d) \/ \E b \in Byte : Write(d, b)

Spec == Init /\ [][Next]_vars

-----------------------------------------------------------------------------
(* Properties *)

TypeOK ==
  /\ current \in Drives \union {NoDrive}
  /\ drive \in [Drives -> Disk]
  /\ file \in [Drives -> [Sectors -> Content]]
  /\ \A k \in DOMAIN cache : cache[k] \in Content
  /\ moved \in [Drives -> 0..(SectorSize + 1)]
  /\ mode \in [Drives -> {"none", "read", "write"}]

\* sectorData has SECTOR_SIZE + 2 bytes and sectorPointer no check: whatever the program
\* does to the drives in between, the index stays in the buffer.
PointerInBuffer == \A d \in Drives : drive[d].sectorPointer <= SectorSize + 1

\* A dirty buffer will be written where the head was when the program wrote it: the
\* file's offset did not drift away from diskPointer, over selects, steps and reads.
DirtyIsUnderHead ==
  \A d \in Drives : drive[d].dirty => drive[d].offset = drive[d].diskPointer

\* The status bit tells track 0 exactly when the head is there, also at the stops.
Track0Told == \A d \in Drives : "TRACK_0" \in drive[d].status <=> drive[d].track = 0

\* What is stored of sector n of drive d: in the cache if it is there, or in the file.
Stored(d, n) == IF Key(d, n) \in DOMAIN cache THEN cache[Key(d, n)] ELSE file[d][n]

\* What a drive holds: its buffer, if that is dirty, in the place of its sector.
Holds(d) == [n \in Sectors |-> IF drive[d].dirty /\ n = drive[d].diskPointer
                               THEN Sector(drive[d].sectorData) ELSE Stored(d, n)]

\* The controller is a set of drives that store what is written to them and read it back,
\* with no trace of the buffer: a sector left half written when the program turned to
\* another drive comes back as it was left, in its own place.
Abstract == INSTANCE SectorDisk WITH
  store <- [d \in Drives |-> Holds(d)],
  track <- [d \in Drives |-> drive[d].track],
  turn <- [d \in Drives |-> drive[d].sector % SectorsPerTrack],
  under <- [d \in Drives |-> drive[d].diskPointer]
Implements == Abstract!Spec
=============================================================================
