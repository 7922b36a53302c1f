------------------------ MODULE DiskControllerProofs ------------------------
(***************************************************************************)
(* Proofs about the floppy disk controller for any set of drives, any      *)
(* geometry and either build.                                              *)
(***************************************************************************)
EXTENDS DiskController, TLAPS

-----------------------------------------------------------------------------
(* The buffer keeps step with the program *)

\* In a sector the program has not touched, the index is at the start and the file is
\* positioned for it; while the program writes, the index and the count of written
\* bytes follow it, and only then is the buffer dirty; the byte after a sector saves
\* it and starts the index over; while it reads, the buffer holds the sector.
InStep(d) ==
  LET r == drive[d]
  IN /\ mode[d] = "none" => /\ moved[d] = 0 /\ r.sectorPointer = 0
                            /\ ~r.dirty /\ ~r.have /\ r.offset = r.diskPointer
     /\ mode[d] = "write" =>
          \/ /\ moved[d] <= SectorSize
             /\ r.sectorPointer = moved[d] /\ r.writeStatus = moved[d]
             /\ ~r.have /\ r.offset = r.diskPointer
          \/ moved[d] = SectorSize + 1 /\ r.sectorPointer = 0 /\ ~r.dirty
     /\ mode[d] = "read" => /\ moved[d] > 0 /\ moved[d] <= SectorSize
                            /\ r.sectorPointer = moved[d] /\ ~r.dirty /\ r.have

DriveType == drive \in [Drives -> Disk]
ProgramType ==
  /\ current \in Drives \union {NoDrive}
  /\ moved \in [Drives -> 0..(SectorSize + 1)]
  /\ mode \in [Drives -> {"none", "read", "write"}]
ImageType ==
  /\ file \in [Drives -> [Sectors -> Content]]
  /\ \A k \in DOMAIN cache : cache[k] \in Content

DiskInv == TypeOK /\ \A d \in Drives : InStep(d)

\* A track and a sector number name a sector of the disk.
LEMMA SectorOfTrack ==
  ASSUME NEW t \in 0..(MaxTracks - 1), NEW s \in 0..(SectorsPerTrack - 1)
  PROVE  t * SectorsPerTrack + s \in Sectors
<1>1. /\ t \in Nat /\ s \in Nat /\ MaxTracks \in Nat /\ SectorsPerTrack \in Nat
      /\ t + 1 <= MaxTracks /\ s < SectorsPerTrack
  BY DiskAssumption
<1>2. t * SectorsPerTrack \in Nat /\ MaxTracks * SectorsPerTrack \in Nat
  BY <1>1
<1>3. (t + 1) * SectorsPerTrack <= MaxTracks * SectorsPerTrack
  BY <1>1
<1>4. (t + 1) * SectorsPerTrack = t * SectorsPerTrack + SectorsPerTrack
  BY <1>1
<1> QED
  BY <1>1, <1>2, <1>3, <1>4 DEF Sectors

\* What a step of drive d does to the state of the drives and of the program.
DriveStep(d) ==
  \/ StepIn(d) \/ StepOut(d) \/ HeadLoad(d) \/ HeadUnload(d) \/ WriteEnable(d)
  \/ NextSector(d) \/ Read(d) \/ \E b \in Byte : Write(d, b)

\* The head of drive d comes to sector n, with nothing of it read or written.
Comes(d, n) ==
  /\ drive'[d] \in Disk
  /\ drive'[d].diskPointer = n /\ drive'[d].offset = n
  /\ drive'[d].sectorPointer = 0 /\ drive'[d].dirty = FALSE /\ drive'[d].have = FALSE
  /\ moved'[d] = 0 /\ mode'[d] = "none"

LEMMA PlacedFields ==
  ASSUME NEW r \in Disk, NEW n \in Sectors
  PROVE  /\ Placed(r, n) \in Disk
         /\ Placed(r, n).diskPointer = n /\ Placed(r, n).offset = n
         /\ Placed(r, n).sectorPointer = 0 /\ Placed(r, n).dirty = FALSE
         /\ Placed(r, n).have = FALSE
         /\ Placed(r, n).track = r.track /\ Placed(r, n).status = r.status
<1>1. n \in Nat
  BY DEF Sectors
<1> QED
  BY <1>1 DEF Placed, Disk

LEMMA SeekComes ==
  ASSUME DiskInv, NEW d \in Drives, NEW t \in 0..(MaxTracks - 1),
         NEW status \in SUBSET Conditions, Seek(d, t, status)
  PROVE  /\ \E n \in Sectors : Comes(d, n)
         /\ drive'[d].track = t /\ drive'[d].status = status
<1>1. drive[d] \in Disk /\ drive \in [Drives -> Disk] /\ moved \in [Drives -> 0..(SectorSize + 1)]
      /\ mode \in [Drives -> {"none", "read", "write"}]
  BY DEF DiskInv, TypeOK
<1>2. t * SectorsPerTrack \in Sectors
  <2>1. t * SectorsPerTrack + 0 \in Sectors
    BY SectorOfTrack, DiskAssumption
  <2> QED
    BY <2>1, DiskAssumption
<1> DEFINE p == Placed(drive[d], t * SectorsPerTrack)
<1>3. drive'[d] = [p EXCEPT !.track = t, !.sector = 0, !.status = status]
  BY <1>1 DEF Seek
<1>4. moved'[d] = 0 /\ mode'[d] = "none"
  BY <1>1 DEF Seek, Afresh
<1>5. /\ p \in Disk /\ p.diskPointer = t * SectorsPerTrack /\ p.offset = t * SectorsPerTrack
      /\ p.sectorPointer = 0 /\ p.dirty = FALSE /\ p.have = FALSE
  BY <1>1, <1>2, PlacedFields
<1> HIDE DEF p
<1>6. 0 \in 0..SectorsPerTrack
  BY DiskAssumption
<1>7. Comes(d, t * SectorsPerTrack)
  BY <1>3, <1>4, <1>5, <1>6 DEF Comes, Disk
<1> QED
  BY <1>2, <1>3, <1>5, <1>7 DEF Disk

LEMMA NextSectorComes ==
  ASSUME DiskInv, NEW d \in Drives, NextSector(d)
  PROVE  /\ \E n \in Sectors : Comes(d, n)
         /\ drive'[d].track = drive[d].track /\ drive'[d].status = drive[d].status
<1> DEFINE s == SectorAfter(drive[d].sector)
           n == drive[d].track * SectorsPerTrack + s
<1>1. drive[d] \in Disk /\ drive \in [Drives -> Disk] /\ moved \in [Drives -> 0..(SectorSize + 1)]
      /\ mode \in [Drives -> {"none", "read", "write"}]
  BY DEF DiskInv, TypeOK
<1>2. s \in 0..(SectorsPerTrack - 1)
  BY <1>1, DiskAssumption DEF SectorAfter, Disk
<1>3. n \in Sectors
  BY <1>1, <1>2, SectorOfTrack DEF Disk
<1>5. drive'[d] = [Placed(drive[d], n) EXCEPT !.sector = s + 1]
  BY <1>1 DEF NextSector, Placed
<1>6. moved'[d] = 0 /\ mode'[d] = "none"
  BY <1>1 DEF NextSector, Afresh
<1>7. s + 1 \in 0..SectorsPerTrack
  BY <1>2, DiskAssumption
<1> HIDE DEF s, n
<1> DEFINE p == Placed(drive[d], n)
<1>8. /\ p \in Disk /\ p.diskPointer = n /\ p.offset = n
      /\ p.sectorPointer = 0 /\ p.dirty = FALSE /\ p.have = FALSE
      /\ p.track = drive[d].track /\ p.status = drive[d].status
  BY <1>1, <1>3, PlacedFields
<1>9. drive'[d] = [p EXCEPT !.sector = s + 1]
  BY <1>5
<1> HIDE DEF p
<1>10. Comes(d, n)
  BY <1>6, <1>7, <1>8, <1>9 DEF Comes, Disk
<1> QED
  BY <1>3, <1>8, <1>9, <1>10 DEF Disk

-----------------------------------------------------------------------------
(* The images *)

LEMMA SaveImage ==
  ASSUME ImageType, NEW d \in Drives, NEW r \in Disk, r.offset \in Sectors, Save(d, r)
  PROVE  ImageType'
<1>1. Sector(r.sectorData) \in Content
  BY DiskAssumption DEF Disk, Buffer, Sector, Content
<1>2. CASE Cloud
  <2>1. file' = file /\ \A k \in DOMAIN cache' :
          cache'[k] = Sector(r.sectorData) \/ (k \in DOMAIN cache /\ cache'[k] = cache[k])
    BY <1>2 DEF Save
  <2> QED
    BY <1>1, <2>1 DEF ImageType
<1>3. CASE ~Cloud
  BY <1>1, <1>3 DEF Save, ImageType
<1> QED
  BY <1>2, <1>3

\* A dirty buffer is saved where the head was when it was written.
LEMMA SaveIfDirtyImage ==
  ASSUME DiskInv, NEW d \in Drives, SaveIfDirty(d)
  PROVE  ImageType'
<1>1. ImageType /\ drive[d] \in Disk /\ mode[d] \in {"none", "read", "write"}
  BY DEF DiskInv, TypeOK, ImageType
<1>2. CASE drive[d].dirty
  <2>1. drive[d].offset = drive[d].diskPointer
    BY <1>1, <1>2 DEF DiskInv, InStep
  <2>2. drive[d].offset \in Sectors
    BY <1>1, <2>1 DEF Disk
  <2> QED
    BY <1>1, <1>2, <2>2, SaveImage DEF SaveIfDirty
<1>3. CASE ~drive[d].dirty
  BY <1>1, <1>3 DEF SaveIfDirty, image, ImageType
<1> QED
  BY <1>2, <1>3

-----------------------------------------------------------------------------
(* Each step of a drive *)

\* After a step of drive d it is well typed and in step with the program, and so are
\* the images.
Kept(d) ==
  /\ drive'[d] \in Disk /\ InStep(d)'
  /\ moved'[d] \in 0..(SectorSize + 1) /\ mode'[d] \in {"none", "read", "write"}
  /\ ImageType'

LEMMA DriveTypes ==
  ASSUME DiskInv, NEW d \in Drives
  PROVE  /\ drive \in [Drives -> Disk] /\ drive[d] \in Disk
         /\ moved \in [Drives -> 0..(SectorSize + 1)]
         /\ mode \in [Drives -> {"none", "read", "write"}]
         /\ moved[d] \in 0..(SectorSize + 1)
         /\ mode[d] \in {"none", "read", "write"} /\ ImageType /\ InStep(d)
BY DEF DiskInv, TypeOK, ImageType

LEMMA ComesKept ==
  ASSUME NEW d \in Drives, NEW n \in Sectors, Comes(d, n), ImageType'
  PROVE  Kept(d)
BY DiskAssumption DEF Comes, Kept, InStep

LEMMA MovesKept ==
  ASSUME DiskInv, NEW d \in Drives, StepIn(d) \/ StepOut(d) \/ NextSector(d)
  PROVE  Kept(d)
<1>1. \A t \in 0..(MaxTracks - 1), status \in SUBSET Conditions :
        Seek(d, t, status) => Kept(d)
  BY SeekComes, SaveIfDirtyImage, ComesKept DEF Seek
<1>2. drive[d].track \in 0..(MaxTracks - 1) /\ drive[d].status \in SUBSET Conditions
  BY DriveTypes DEF Disk
<1>3. CASE StepIn(d)
  <2> DEFINE t == IF drive[d].track < MaxTracks - 1 THEN drive[d].track + 1 ELSE drive[d].track
             status == IF t # 0 THEN drive[d].status \ {"TRACK_0"} ELSE drive[d].status
  <2>1. t \in 0..(MaxTracks - 1) /\ status \in SUBSET Conditions
    BY <1>2, DiskAssumption
  <2>2. Seek(d, t, status)
    BY <1>3 DEF StepIn
  <2> QED
    BY <1>1, <2>1, <2>2
<1>4. CASE StepOut(d)
  <2> DEFINE t == IF drive[d].track > 0 THEN drive[d].track - 1 ELSE 0
             status == IF t = 0 THEN drive[d].status \union {"TRACK_0"} ELSE drive[d].status
  <2>1. t \in 0..(MaxTracks - 1) /\ status \in SUBSET Conditions
    BY <1>2, DiskAssumption DEF Conditions
  <2>2. Seek(d, t, status)
    BY <1>4 DEF StepOut
  <2> QED
    BY <1>1, <2>1, <2>2
<1>5. CASE NextSector(d)
  BY <1>5, NextSectorComes, SaveIfDirtyImage, ComesKept DEF NextSector
<1> QED
  BY <1>3, <1>4, <1>5

LEMMA HeadKept ==
  ASSUME DiskInv, NEW d \in Drives, HeadLoad(d) \/ HeadUnload(d)
  PROVE  Kept(d)
<1>1. PICK status \in SUBSET Conditions : Head(d, status)
  BY DriveTypes DEF HeadLoad, HeadUnload, Conditions, Disk
<1>2. drive'[d] = [drive[d] EXCEPT !.status = status]
  BY <1>1, DriveTypes DEF Head
<1>3. UNCHANGED <<image, program>>
  BY <1>1 DEF Head
<1>4. drive'[d] \in Disk
  BY <1>2, DriveTypes DEF Disk
<1>5. /\ drive'[d].sectorPointer = drive[d].sectorPointer
      /\ drive'[d].dirty = drive[d].dirty /\ drive'[d].have = drive[d].have
      /\ drive'[d].offset = drive[d].offset
      /\ drive'[d].diskPointer = drive[d].diskPointer
      /\ drive'[d].writeStatus = drive[d].writeStatus
  BY <1>2, DriveTypes DEF Disk
<1>6. InStep(d)'
  BY <1>3, <1>5, DriveTypes DEF InStep, program
<1> QED
  BY <1>3, <1>4, <1>6, DriveTypes DEF Kept, ImageType, image, program

LEMMA WriteEnableKept ==
  ASSUME DiskInv, NEW d \in Drives, WriteEnable(d)
  PROVE  Kept(d)
<1> DEFINE status == drive[d].status \union {"ENWD"}
<1>1. drive'[d] = [drive[d] EXCEPT !.status = status, !.writeStatus = 0]
  BY DriveTypes DEF WriteEnable
<1>2. mode'[d] = "write" /\ moved'[d] = moved[d] /\ moved[d] = 0 /\ UNCHANGED image
  BY DriveTypes DEF WriteEnable
<1>3. 0 \in 0..SectorSize
  BY DiskAssumption
<1>4. drive'[d] \in Disk
  <2>1. status \in SUBSET Conditions
    BY DriveTypes DEF Disk, Conditions
  <2> HIDE DEF status
  <2> QED
    BY <1>1, <1>3, <2>1, DriveTypes DEF Disk
<1>5. /\ drive'[d].sectorPointer = drive[d].sectorPointer
      /\ drive'[d].dirty = drive[d].dirty /\ drive'[d].have = drive[d].have
      /\ drive'[d].offset = drive[d].offset
      /\ drive'[d].diskPointer = drive[d].diskPointer /\ drive'[d].writeStatus = 0
  BY <1>1, DriveTypes DEF Disk
<1>6. /\ drive[d].sectorPointer = 0 /\ ~drive[d].have
      /\ drive[d].offset = drive[d].diskPointer
  BY <1>2, DriveTypes, DiskAssumption DEF InStep
<1>7. InStep(d)'
  BY <1>2, <1>3, <1>5, <1>6 DEF InStep
<1> QED
  BY <1>2, <1>4, <1>7, DriveTypes, DiskAssumption DEF Kept, ImageType, image

LEMMA WriteKept ==
  ASSUME DiskInv, NEW d \in Drives, NEW b \in Byte, Write(d, b)
  PROVE  Kept(d)
<1> DEFINE data == [drive[d].sectorData EXCEPT ![drive[d].sectorPointer] = b]
           r == [drive[d] EXCEPT !.sectorData = data,
                                 !.sectorPointer = drive[d].sectorPointer + 1, !.dirty = TRUE]
<1>1. /\ mode[d] = "write" /\ moved[d] \in Nat /\ moved[d] <= SectorSize
      /\ moved'[d] = moved[d] + 1 /\ mode'[d] = "write"
  BY DriveTypes DEF Write
<1>2. /\ drive[d].sectorPointer = moved[d] /\ drive[d].writeStatus = moved[d]
      /\ ~drive[d].have /\ drive[d].offset = drive[d].diskPointer
  BY <1>1, DriveTypes, DiskAssumption DEF InStep
<1>3. data \in Buffer
  BY DriveTypes DEF Disk, Buffer
<1>4. /\ r \in Disk /\ r.sectorPointer = moved[d] + 1 /\ r.writeStatus = moved[d]
      /\ r.have = drive[d].have /\ r.offset = r.diskPointer /\ r.sectorData = data
      /\ r.dirty = TRUE /\ r.diskPointer \in Sectors
  <2>1. drive[d] \in Disk /\ drive[d].sectorPointer + 1 \in Nat
    BY <1>1, <1>2, DriveTypes
  <2> HIDE DEF data
  <2>2. /\ r \in Disk /\ r.sectorPointer = drive[d].sectorPointer + 1
        /\ r.writeStatus = drive[d].writeStatus /\ r.have = drive[d].have
        /\ r.offset = drive[d].offset /\ r.diskPointer = drive[d].diskPointer
        /\ r.sectorData = data /\ r.dirty = TRUE
    BY <1>3, <2>1 DEF Disk
  <2>3. drive[d].diskPointer \in Sectors
    BY <2>1 DEF Disk
  <2> HIDE DEF r
  <2> QED
    BY <1>2, <2>2, <2>3
<1>5. moved'[d] \in 0..(SectorSize + 1)
  BY <1>1, DiskAssumption
<1>6. CASE r.writeStatus = SectorSize
  <2>1. Save(d, r)
    BY <1>6 DEF Write
  <2>2. ImageType'
    <3> HIDE DEF r
    <3> QED
      BY <1>4, <2>1, DriveTypes, SaveImage
  <2> DEFINE p == Saved(r)
             status == p.status \ {"ENWD"}
  <2>3. drive'[d] = [p EXCEPT !.writeStatus = 0, !.status = status]
    BY <1>6, DriveTypes DEF Write
  <2>4. p \in Disk /\ p.sectorPointer = 0 /\ p.dirty = FALSE
    <3>1. r.offset + 1 \in Nat
      BY <1>4 DEF Sectors
    <3> HIDE DEF r
    <3> QED
      BY <1>4, <3>1 DEF Saved, Disk
  <2>5. status \in SUBSET Conditions
    <3> HIDE DEF p
    <3> QED
      BY <2>4 DEF Disk
  <2>6. drive'[d] \in Disk /\ drive'[d].sectorPointer = 0 /\ drive'[d].dirty = FALSE
    <3>1. 0 \in 0..SectorSize
      BY DiskAssumption
    <3> HIDE DEF p, status
    <3> QED
      BY <2>3, <2>4, <2>5, <3>1 DEF Disk
  <2>7. moved'[d] = SectorSize + 1
    BY <1>1, <1>4, <1>6
  <2> QED
    BY <1>1, <1>5, <2>2, <2>6, <2>7 DEF Kept, InStep
<1>7. CASE r.writeStatus # SectorSize
  <2>1. drive'[d] = [r EXCEPT !.writeStatus = r.writeStatus + 1]
    BY <1>7, DriveTypes DEF Write
  <2>2. UNCHANGED image
    BY <1>7 DEF Write
  <2>3. moved[d] + 1 \in 0..SectorSize
    BY <1>1, <1>4, <1>7, DiskAssumption
  <2>4. /\ drive'[d] \in Disk /\ drive'[d].sectorPointer = moved[d] + 1
        /\ drive'[d].writeStatus = moved[d] + 1 /\ drive'[d].have = drive[d].have
        /\ drive'[d].offset = drive'[d].diskPointer
    <3> HIDE DEF r
    <3> QED
      BY <1>4, <2>1, <2>3 DEF Disk
  <2>5. InStep(d)'
    BY <1>1, <1>2, <2>3, <2>4 DEF InStep
  <2> QED
    BY <1>1, <1>5, <2>2, <2>4, <2>5, DriveTypes DEF Kept, ImageType, image
<1> QED
  BY <1>6, <1>7

LEMMA ReadKept ==
  ASSUME DiskInv, NEW d \in Drives, Read(d)
  PROVE  Kept(d)
<1> DEFINE r == Filled(d, drive[d])
<1>1. /\ mode[d] \in {"none", "read"} /\ moved[d] \in Nat /\ moved[d] < SectorSize
      /\ moved'[d] = moved[d] + 1 /\ mode'[d] = "read" /\ UNCHANGED image
  BY DriveTypes DEF Read
<1>2. drive'[d] = [r EXCEPT !.sectorPointer = r.sectorPointer + 1]
  BY DriveTypes DEF Read
<1>3. r \in Disk /\ r.sectorPointer = moved[d] /\ r.dirty = FALSE /\ r.have = TRUE
  <2>1. \A c \in Content : Load(drive[d].sectorData, c) \in Buffer
    BY DriveTypes, DiskAssumption, SMTT(30) DEF Load, Buffer, Content, Disk
  <2>2. CASE drive[d].have
    <3>1. mode[d] = "read"
      BY <1>1, <2>2, DriveTypes DEF InStep
    <3> QED
      BY <2>2, <3>1, DriveTypes DEF InStep, Filled, Disk
  <2>3. CASE ~drive[d].have
    <3>1. mode[d] = "none"
      BY <1>1, <2>3, DriveTypes DEF InStep
    <3>2. /\ moved[d] = 0 /\ drive[d].dirty = FALSE /\ drive[d].offset \in Sectors
          /\ drive[d].offset + 1 \in Nat
      BY <3>1, DriveTypes DEF InStep, Disk, Sectors
    <3>3. CASE Cloud /\ Key(d, drive[d].diskPointer) \in DOMAIN cache
      <4> DEFINE c == Load(drive[d].sectorData, cache[Key(d, drive[d].diskPointer)])
      <4>1. r = [drive[d] EXCEPT !.sectorPointer = 0, !.have = TRUE, !.sectorData = c]
        BY <2>3, <3>3 DEF Filled
      <4>2. c \in Buffer
        BY <2>1, <3>3, DriveTypes DEF ImageType
      <4> HIDE DEF c, r
      <4> QED
        BY <3>2, <4>1, <4>2, DriveTypes, ZenonT(60) DEF Disk
    <3>4. CASE ~(Cloud /\ Key(d, drive[d].diskPointer) \in DOMAIN cache)
      <4> DEFINE c == Load(drive[d].sectorData, file[d][drive[d].offset])
      <4>1. r = [drive[d] EXCEPT !.sectorPointer = 0, !.have = TRUE,
                                 !.offset = drive[d].offset + 1, !.sectorData = c]
        BY <2>3, <3>4 DEF Filled, FromFile
      <4>2. c \in Buffer
        BY <2>1, <3>2, DriveTypes DEF ImageType
      <4> HIDE DEF c, r
      <4> QED
        BY <3>2, <4>1, <4>2, DriveTypes, ZenonT(60) DEF Disk
    <3> QED
      BY <3>3, <3>4
  <2> QED
    BY <2>2, <2>3, DriveTypes DEF Disk
<1>4. /\ drive'[d] \in Disk /\ drive'[d].sectorPointer = moved[d] + 1
      /\ drive'[d].dirty = FALSE /\ drive'[d].have = TRUE
  <2> HIDE DEF r
  <2> QED
    BY <1>1, <1>2, <1>3 DEF Disk
<1>5. moved'[d] \in 0..(SectorSize + 1) /\ moved'[d] <= SectorSize
  BY <1>1, DiskAssumption
<1>6. InStep(d)'
  BY <1>1, <1>4, <1>5 DEF InStep
<1> QED
  BY <1>1, <1>4, <1>5, <1>6, DriveTypes DEF Kept, ImageType, image

-----------------------------------------------------------------------------
(* The theorems *)

\* A drive that is not selected is left alone.
LEMMA OthersKept ==
  ASSUME DiskInv, NEW d \in Drives, DriveStep(d)
  PROVE  /\ current' = current
         /\ \A e \in Drives \ {d} : /\ drive'[e] = drive[e]
                                    /\ moved'[e] = moved[e] /\ mode'[e] = mode[e]
         /\ drive' = [drive EXCEPT ![d] = drive'[d]]
         /\ moved' = [moved EXCEPT ![d] = moved'[d]]
         /\ mode' = [mode EXCEPT ![d] = mode'[d]]
BY DriveTypes DEF DriveStep, StepIn, StepOut, Seek, Afresh, NextSector, Head, HeadLoad,
   HeadUnload, WriteEnable, Read, Write, program

LEMMA DriveKept ==
  ASSUME DiskInv, NEW d \in Drives, DriveStep(d)
  PROVE  Kept(d)
BY MovesKept, HeadKept, WriteEnableKept, ReadKept, WriteKept DEF DriveStep

LEMMA DiskInvInit == Init => DiskInv
<1> SUFFICES ASSUME Init PROVE DiskInv
  OBVIOUS
<1>1. NewDisk \in Disk
  <2>1. 0 \in 0..(MaxTracks - 1) /\ 0 \in 0..(SectorsPerTrack - 1)
    BY DiskAssumption
  <2>2. 0 \in Sectors
    <3>1. 0 * SectorsPerTrack + 0 \in Sectors
      BY <2>1, SectorOfTrack
    <3>2. 0 * SectorsPerTrack + 0 = 0
      BY DiskAssumption
    <3> QED
      BY <3>1, <3>2
  <2>3. [i \in 0..(SectorSize + 1) |-> 0] \in Buffer
    BY DiskAssumption DEF Buffer
  <2> QED
    BY <2>2, <2>3, DiskAssumption DEF NewDisk, Disk
<1>2. file \in [Drives -> [Sectors -> Content]]
  BY DiskAssumption DEF Init, Content
<1>3. 0 \in 0..(SectorSize + 1)
  BY DiskAssumption
<1>4. DOMAIN cache = {}
  BY DEF Init
<1>5. TypeOK
  BY <1>1, <1>2, <1>3, <1>4 DEF Init, TypeOK
<1>6. \A d \in Drives : InStep(d)
  BY DEF Init, InStep, NewDisk
<1> QED
  BY <1>5, <1>6 DEF DiskInv

LEMMA DiskInvStep == DiskInv /\ [Next]_vars => DiskInv'
<1> SUFFICES ASSUME DiskInv, [Next]_vars PROVE DiskInv'
  OBVIOUS
<1>1. CASE UNCHANGED vars
  BY <1>1 DEF vars, DiskInv, TypeOK, InStep
<1>2. ASSUME NEW b \in Drives \union {4}, Select(b) PROVE DiskInv'
  BY <1>2, DiskAssumption DEF Select, DiskInv, TypeOK, InStep, image, program
<1>3. ASSUME NEW d \in Drives, DriveStep(d) PROVE DiskInv'
  <2>1. Kept(d)
    BY <1>3, DriveKept
  <2>2. TypeOK'
    BY <1>3, <2>1, OthersKept DEF Kept, DiskInv, TypeOK, ImageType
  <2>3. \A e \in Drives : InStep(e)'
    BY <1>3, <2>1, OthersKept DEF Kept, DiskInv, InStep
  <2> QED
    BY <2>2, <2>3 DEF DiskInv
<1> QED
  BY <1>1, <1>2, <1>3 DEF Next, DriveStep, On

LEMMA DiskInvCorrect == Spec => []DiskInv
BY DiskInvInit, DiskInvStep, PTL DEF Spec

\* Every field of a drive keeps its type; the sector the head is on is one of the disk's,
\* and the images and the differencing disk hold whole sectors (disk_t, 88dcdd.h:51-64).
THEOREM TypeCorrect == Spec => []TypeOK
BY DiskInvCorrect, PTL DEF DiskInv

\* sectorData has two bytes more than a sector, and sectorPointer no check: for a program
\* that keeps the protocol of the hardware, whatever it does with the other drives in
\* between, disk_write and disk_read stay in the buffer (88dcdd.c:141-192).
THEOREM BufferNotOverrun == Spec => []PointerInBuffer
<1>1. ASSUME DiskInv, NEW d \in Drives
      PROVE  drive[d].sectorPointer <= SectorSize + 1
  <2>1. /\ InStep(d) /\ moved[d] \in Nat /\ moved[d] <= SectorSize + 1
        /\ mode[d] \in {"none", "read", "write"}
    BY <1>1, DriveTypes, DiskAssumption
  <2> QED
    BY <2>1, DiskAssumption DEF InStep
<1>2. DiskInv => PointerInBuffer
  BY <1>1 DEF PointerInBuffer
<1> QED
  BY <1>2, DiskInvCorrect, PTL

\* writeSector writes at the file's offset and not at diskPointer: when a buffer is dirty
\* they are the same sector (88dcdd.c:194-215).
THEOREM SavedUnderHead == Spec => []DirtyIsUnderHead
<1>1. DiskInv => DirtyIsUnderHead
  BY DriveTypes, DiskAssumption DEF DirtyIsUnderHead, InStep
<1> QED
  BY <1>1, DiskInvCorrect, PTL

\* The steps of the head.
LEMMA Track0Step ==
  ASSUME DiskInv, Track0Told, NEW d \in Drives, DriveStep(d)
  PROVE  "TRACK_0" \in drive'[d].status <=> drive'[d].track = 0
<1> DEFINE track == drive[d].track
           status == drive[d].status
<1>1. /\ track \in 0..(MaxTracks - 1) /\ status \in SUBSET Conditions
      /\ "TRACK_0" \in status <=> track = 0
  BY DriveTypes DEF Track0Told, Disk
<1>2. \A t \in 0..(MaxTracks - 1), s \in SUBSET Conditions :
        Seek(d, t, s) => drive'[d].track = t /\ drive'[d].status = s
  BY SeekComes
<1>3. CASE StepIn(d)
  <2> DEFINE t == IF track < MaxTracks - 1 THEN track + 1 ELSE track
             s == IF t # 0 THEN status \ {"TRACK_0"} ELSE status
  <2>1. t \in 0..(MaxTracks - 1) /\ s \in SUBSET Conditions /\ ("TRACK_0" \in s <=> t = 0)
    BY <1>1, DiskAssumption
  <2>2. Seek(d, t, s)
    BY <1>3 DEF StepIn
  <2> QED
    BY <1>2, <2>1, <2>2
<1>4. CASE StepOut(d)
  <2> DEFINE t == IF track > 0 THEN track - 1 ELSE 0
             s == IF t = 0 THEN status \union {"TRACK_0"} ELSE status
  <2>1. t \in 0..(MaxTracks - 1) /\ s \in SUBSET Conditions /\ ("TRACK_0" \in s <=> t = 0)
    BY <1>1, DiskAssumption DEF Conditions
  <2>2. Seek(d, t, s)
    BY <1>4 DEF StepOut
  <2> HIDE DEF t, s
  <2> QED
    BY <1>2, <2>1, <2>2
<1>5. CASE NextSector(d)
  BY <1>1, <1>5, NextSectorComes
<1>6. CASE HeadLoad(d) \/ HeadUnload(d)
  BY <1>1, <1>6, DriveTypes DEF HeadLoad, HeadUnload, Head, Disk
<1>7. CASE WriteEnable(d)
  <2> DEFINE s == status \union {"ENWD"}
  <2>1. drive'[d] = [drive[d] EXCEPT !.status = s, !.writeStatus = 0]
    BY <1>7, DriveTypes DEF WriteEnable
  <2>2. "TRACK_0" \in s <=> "TRACK_0" \in status
    OBVIOUS
  <2> HIDE DEF s
  <2> QED
    BY <1>1, <2>1, <2>2, DriveTypes DEF Disk
<1>8. CASE Read(d)
  BY <1>1, <1>8, DriveTypes DEF Read, Filled, FromFile, Disk
<1>9. ASSUME NEW b \in Byte, Write(d, b)
      PROVE  "TRACK_0" \in drive'[d].status <=> drive'[d].track = 0
  <2> DEFINE r == [drive[d] EXCEPT !.sectorData[drive[d].sectorPointer] = b,
                                   !.sectorPointer = @ + 1, !.dirty = TRUE]
             p == Saved(r)
             s == status \ {"ENWD"}
  <2>1. r.track = track /\ r.status = status /\ p.track = track /\ p.status = status
    BY DriveTypes DEF Saved, Disk
  <2>2. "TRACK_0" \in s <=> "TRACK_0" \in status
    OBVIOUS
  <2>3. \/ drive'[d] = [p EXCEPT !.writeStatus = 0, !.status = p.status \ {"ENWD"}]
        \/ drive'[d] = [r EXCEPT !.writeStatus = @ + 1]
    BY <1>9, DriveTypes DEF Write
  <2>4. DOMAIN p = DOMAIN drive[d] /\ DOMAIN r = DOMAIN drive[d]
    BY DEF Saved
  <2>5. "track" \in DOMAIN drive[d] /\ "status" \in DOMAIN drive[d]
    BY DriveTypes DEF Disk
  <2> HIDE DEF r, p
  <2>6. drive'[d].track = track /\ drive'[d].status \in {status, s}
    BY <2>1, <2>3, <2>4, <2>5
  <2> QED
    BY <1>1, <2>2, <2>6
<1> QED
  BY <1>3, <1>4, <1>5, <1>6, <1>7, <1>8, <1>9 DEF DriveStep

\* The status bit the program waits for while it steps out is true exactly on track 0
\* (seek_to_track and disk_function, 88dcdd.c:10-89).
THEOREM Track0Correct == Spec => []Track0Told
<1>1. Init => Track0Told
  <2>1. NewDisk.track = 0 /\ "TRACK_0" \in NewDisk.status
    BY DEF NewDisk, Conditions
  <2> QED
    BY <2>1 DEF Init, Track0Told
<1>2. DiskInv /\ Track0Told /\ [Next]_vars => Track0Told'
  <2> SUFFICES ASSUME DiskInv, Track0Told, [Next]_vars PROVE Track0Told'
    OBVIOUS
  <2>1. CASE UNCHANGED vars
    BY <2>1 DEF vars, Track0Told
  <2>2. ASSUME NEW b \in Drives \union {4}, Select(b) PROVE Track0Told'
    BY <2>2 DEF Select, Track0Told
  <2>3. ASSUME NEW d \in Drives, DriveStep(d) PROVE Track0Told'
    BY <2>3, OthersKept, Track0Step DEF Track0Told
  <2> QED
    BY <2>1, <2>2, <2>3 DEF Next, DriveStep, On
<1> QED
  BY <1>1, <1>2, DiskInvCorrect, PTL DEF Spec

-----------------------------------------------------------------------------
(* The controller implements the drives of SectorDisk *)

\* No two drives share a key of the differencing disk.
KeysApart ==
  Cloud => \A d, e \in Drives, n, m \in Sectors : d # e => Key(d, n) # Key(e, m)

HoldsStored(d) ==
  /\ Holds(d) = [n \in Sectors |-> IF drive[d].dirty /\ n = drive[d].diskPointer
                                   THEN Sector(drive[d].sectorData) ELSE Stored(d, n)]
  /\ \A n \in Sectors :
       /\ drive[d].dirty /\ n = drive[d].diskPointer => Holds(d)[n] = Sector(drive[d].sectorData)
       /\ ~(drive[d].dirty /\ n = drive[d].diskPointer) => Holds(d)[n] = Stored(d, n)

LEMMA HoldsIs ==
  ASSUME NEW d \in Drives
  PROVE  HoldsStored(d) /\ HoldsStored(d)'
BY DEF HoldsStored, Holds

\* While the program writes, the buffer is dirty from the first byte to the last; while
\* it reads, the buffer holds what the drive holds.
Held(d) ==
  /\ mode[d] = "write" /\ moved[d] > 0 /\ moved[d] <= SectorSize => drive[d].dirty
  /\ mode[d] = "read" => \A i \in 0..(SectorSize - 1) :
                           drive[d].sectorData[i] = Holds(d)[drive[d].diskPointer][i]

CacheUsed == ~Cloud => DOMAIN cache = {}

StoreInv == DiskInv /\ CacheUsed /\ \A d \in Drives : Held(d)

\* Saving puts the buffer in its own sector and touches no other.
StoresOnly(d, n, c) ==
  \A e \in Drives, m \in Sectors :
    Stored(e, m)' = IF e = d /\ m = n THEN c ELSE Stored(e, m)

LEMMA SaveStores ==
  ASSUME KeysApart, ImageType, CacheUsed, NEW d \in Drives, NEW r \in Disk,
         r.offset = r.diskPointer, Save(d, r)
  PROVE  StoresOnly(d, r.diskPointer, Sector(r.sectorData)) /\ CacheUsed'
<1> DEFINE n == r.diskPointer
           c == Sector(r.sectorData)
<1>1. n \in Sectors /\ n \in Nat
  BY DEF Disk, Sectors
<1>2. CASE Cloud
  <2>1. /\ file' = file
        /\ cache' = [k \in DOMAIN cache \union {Key(d, n)} |-> IF k = Key(d, n) THEN c ELSE cache[k]]
    BY <1>2 DEF Save
  <2>2. \A e \in Drives, m \in Sectors : Key(e, m) = Key(d, n) <=> e = d /\ m = n
    <3> SUFFICES ASSUME NEW e \in Drives, NEW m \in Sectors, Key(e, m) = Key(d, n)
                 PROVE  e = d /\ m = n
      OBVIOUS
    <3>1. e = d
      BY <1>1, <1>2 DEF KeysApart
    <3>2. m \in Nat
      BY DEF Sectors
    <3> QED
      BY <1>1, <3>1, <3>2, DiskAssumption DEF Key
  <2> HIDE DEF n, c
  <2> QED
    BY <1>2, <2>1, <2>2 DEF StoresOnly, Stored, CacheUsed, n, c
<1>3. CASE ~Cloud
  <2>1. cache' = cache /\ file' = [file EXCEPT ![d][n] = c]
    BY <1>3 DEF Save
  <2>2. DOMAIN cache = {}
    BY <1>3 DEF CacheUsed
  <2>3. file \in [Drives -> [Sectors -> Content]]
    BY DEF ImageType
  <2>4. \A e \in Drives, m \in Sectors :
          file'[e][m] = IF e = d /\ m = n THEN c ELSE file[e][m]
    BY <1>1, <2>1, <2>3
  <2> HIDE DEF n, c
  <2> QED
    BY <2>1, <2>2, <2>4 DEF StoresOnly, Stored, CacheUsed, n, c
<1> QED
  BY <1>2, <1>3

LEMMA StoredSame ==
  ASSUME UNCHANGED image, CacheUsed
  PROVE  (\A e \in Drives, m \in Sectors : Stored(e, m)' = Stored(e, m)) /\ CacheUsed'
BY DEF image, Stored, CacheUsed

\* A drive whose image is left alone, and that keeps its buffer, holds what it held.
Alike(e) == Holds(e)' = Holds(e)

LEMMA OtherAlike ==
  ASSUME NEW e \in Drives, drive'[e] = drive[e],
         \A m \in Sectors : Stored(e, m)' = Stored(e, m)
  PROVE  Alike(e)
BY HoldsIs DEF HoldsStored, Alike

\* Writing a dirty buffer before the head moves changes nothing that a drive holds.
LEMMA SaveIfDirtyAlike ==
  ASSUME KeysApart, StoreInv, NEW d \in Drives, SaveIfDirty(d), drive'[d].dirty = FALSE,
         \A e \in Drives \ {d} : drive'[e] = drive[e]
  PROVE  CacheUsed' /\ \A e \in Drives : Alike(e)
<1>1. /\ DiskInv /\ ImageType /\ CacheUsed /\ drive[d] \in Disk
      /\ mode[d] \in {"none", "read", "write"} /\ InStep(d)
  BY DriveTypes DEF StoreInv
<1>2. CASE drive[d].dirty
  <2>1. drive[d].offset = drive[d].diskPointer
    BY <1>1, <1>2 DEF InStep
  <2>2. /\ StoresOnly(d, drive[d].diskPointer, Sector(drive[d].sectorData))
        /\ CacheUsed'
    BY <1>1, <1>2, <2>1, SaveStores DEF SaveIfDirty
  <2>3. Alike(d)
    BY <1>2, <2>2, HoldsIs DEF HoldsStored, StoresOnly, Alike
  <2>4. \A e \in Drives \ {d} : Alike(e)
    BY <2>2, OtherAlike DEF StoresOnly
  <2> QED
    BY <2>2, <2>3, <2>4
<1>3. CASE ~drive[d].dirty
  <2>1. /\ \A e \in Drives, m \in Sectors : Stored(e, m)' = Stored(e, m)
        /\ CacheUsed'
    BY <1>1, <1>3, StoredSame DEF SaveIfDirty
  <2>2. Alike(d)
    BY <1>3, <2>1, HoldsIs DEF HoldsStored, Alike
  <2> QED
    BY <2>1, <2>2, OtherAlike
<1> QED
  BY <1>2, <1>3

\* Only drive d, and what the program does there, changes.
OnlyThis(d) ==
  /\ drive' = [drive EXCEPT ![d] = drive'[d]]
  /\ moved' = [moved EXCEPT ![d] = moved'[d]]
  /\ mode' = [mode EXCEPT ![d] = mode'[d]]

LEMMA ComeRefines ==
  ASSUME DiskInv, NEW d \in Drives, NEW t, NEW s, NEW n, OnlyThis(d),
         \A e \in Drives : Alike(e),
         drive'[d].track = t, drive'[d].diskPointer = t * SectorsPerTrack + s,
         drive'[d].sector % SectorsPerTrack = n % SectorsPerTrack,
         moved' = [moved EXCEPT ![d] = 0], mode' = [mode EXCEPT ![d] = "none"]
  PROVE  Abstract!Come(d, t, s, n)
<1>1. drive \in [Drives -> Disk]
  BY DriveTypes
<1>2. \A e \in Drives : drive'[e] = IF e = d THEN drive'[d] ELSE drive[e]
  BY <1>1 DEF OnlyThis
<1>3. [e \in Drives |-> Holds(e)]' = [e \in Drives |-> Holds(e)]
  BY DEF Alike
<1>4. [e \in Drives |-> drive[e].track]' = [[e \in Drives |-> drive[e].track] EXCEPT ![d] = t]
  BY <1>2
<1>5. [e \in Drives |-> drive[e].diskPointer]'
        = [[e \in Drives |-> drive[e].diskPointer] EXCEPT ![d] = t * SectorsPerTrack + s]
  BY <1>2
<1>6. [e \in Drives |-> drive[e].sector % SectorsPerTrack]'
        = [[e \in Drives |-> drive[e].sector % SectorsPerTrack] EXCEPT ![d] = n % SectorsPerTrack]
  BY <1>2
<1> QED
  BY <1>3, <1>4, <1>5, <1>6 DEF Abstract!Come

\* The head moved, and the program has not touched the sector it came to.
LEMMA ComesHeld ==
  ASSUME NEW d \in Drives, mode'[d] = "none"
  PROVE  Held(d)'
BY DEF Held

LEMMA SeekRefines ==
  ASSUME KeysApart, StoreInv, NEW d \in Drives, NEW t \in 0..(MaxTracks - 1),
         NEW status \in SUBSET Conditions, Seek(d, t, status),
         t \in {drive[d].track - 1, drive[d].track, drive[d].track + 1}
  PROVE  Abstract!Next /\ CacheUsed' /\ Held(d)' /\ \A e \in Drives : Alike(e)
<1>1. DiskInv /\ drive \in [Drives -> Disk] /\ drive[d] \in Disk
      /\ moved \in [Drives -> 0..(SectorSize + 1)] /\ mode \in [Drives -> {"none", "read", "write"}]
  BY DriveTypes DEF StoreInv
<1> DEFINE p == Placed(drive[d], t * SectorsPerTrack)
<1>2. drive'[d] = [p EXCEPT !.track = t, !.sector = 0, !.status = status]
  BY <1>1 DEF Seek
<1>3. p \in Disk /\ p.diskPointer = t * SectorsPerTrack /\ p.dirty = FALSE
  <2>1. 0 \in 0..(SectorsPerTrack - 1)
    BY DiskAssumption
  <2>2. t * SectorsPerTrack + 0 \in Sectors
    BY <2>1, SectorOfTrack
  <2>3. t * SectorsPerTrack + 0 = t * SectorsPerTrack
    BY DiskAssumption
  <2>4. t * SectorsPerTrack \in Sectors
    BY <2>2, <2>3
  <2> QED
    BY <1>1, <2>4, PlacedFields
<1>4. /\ drive'[d].track = t /\ drive'[d].sector = 0
      /\ drive'[d].diskPointer = t * SectorsPerTrack /\ drive'[d].dirty = FALSE
  <2> HIDE DEF p
  <2> QED
    BY <1>2, <1>3 DEF Disk
<1>5. /\ OnlyThis(d) /\ \A e \in Drives \ {d} : drive'[e] = drive[e]
      /\ moved' = [moved EXCEPT ![d] = 0] /\ mode' = [mode EXCEPT ![d] = "none"]
      /\ answer' = answer /\ SaveIfDirty(d)
  BY <1>1 DEF Seek, OnlyThis, Afresh
<1>6. CacheUsed' /\ \A e \in Drives : Alike(e)
  BY <1>4, <1>5, SaveIfDirtyAlike
<1>7. drive'[d].diskPointer = t * SectorsPerTrack + 0
  BY <1>4, DiskAssumption
<1>8. Abstract!Come(d, t, 0, 0)
  BY <1>1, <1>4, <1>5, <1>6, <1>7, ComeRefines
<1>9. Abstract!StepTo(d, t)
  BY <1>5, <1>8 DEF Abstract!StepTo
<1>10. Held(d)'
  BY <1>1, <1>5, ComesHeld
<1> QED
  BY <1>6, <1>9, <1>10 DEF Abstract!Next

LEMMA NextSectorRefines ==
  ASSUME KeysApart, StoreInv, NEW d \in Drives, NextSector(d)
  PROVE  Abstract!Next /\ CacheUsed' /\ Held(d)' /\ \A e \in Drives : Alike(e)
<1> DEFINE s == SectorAfter(drive[d].sector)
           n == drive[d].track * SectorsPerTrack + s
           p == Placed(drive[d], n)
<1>1. DiskInv /\ drive \in [Drives -> Disk] /\ drive[d] \in Disk
      /\ moved \in [Drives -> 0..(SectorSize + 1)] /\ mode \in [Drives -> {"none", "read", "write"}]
  BY DriveTypes DEF StoreInv
<1>2. s \in 0..(SectorsPerTrack - 1) /\ drive[d].sector \in 0..SectorsPerTrack
  BY <1>1, DiskAssumption DEF SectorAfter, Disk
<1>3. s = drive[d].sector % SectorsPerTrack
  BY <1>2, DiskAssumption DEF SectorAfter
<1>4. n \in Sectors
  BY <1>1, <1>2, SectorOfTrack DEF Disk
<1>5. drive'[d] = [p EXCEPT !.sector = s + 1]
  BY <1>1 DEF NextSector, Placed
<1>6. /\ OnlyThis(d) /\ \A e \in Drives \ {d} : drive'[e] = drive[e]
      /\ moved' = [moved EXCEPT ![d] = 0] /\ mode' = [mode EXCEPT ![d] = "none"]
      /\ answer' = <<"sector", s>> /\ SaveIfDirty(d)
  BY <1>1 DEF NextSector, OnlyThis, Afresh
<1> HIDE DEF s
<1>7. p \in Disk /\ p.diskPointer = n /\ p.dirty = FALSE /\ p.track = drive[d].track
  BY <1>1, <1>4, PlacedFields
<1>8. /\ drive'[d].track = drive[d].track /\ drive'[d].sector = s + 1
      /\ drive'[d].diskPointer = n /\ drive'[d].dirty = FALSE
  <2> HIDE DEF p
  <2> QED
    BY <1>5, <1>7 DEF Disk
<1>9. CacheUsed' /\ \A e \in Drives : Alike(e)
  BY <1>6, <1>8, SaveIfDirtyAlike
<1>10. PICK t, z : t = drive[d].track /\ z = s
  OBVIOUS
<1>11. Abstract!Come(d, t, z, z + 1)
  <2>1. /\ drive'[d].track = t /\ drive'[d].diskPointer = t * SectorsPerTrack + z
        /\ drive'[d].sector % SectorsPerTrack = (z + 1) % SectorsPerTrack
    BY <1>8, <1>10
  <2> QED
    BY <1>1, <1>6, <1>9, <2>1, ComeRefines
<1>12. Abstract!Sector(d)
  <2>1. /\ [e \in Drives |-> drive[e].track][d] = t
        /\ [e \in Drives |-> drive[e].sector % SectorsPerTrack][d] = z
    BY <1>3, <1>10
  <2> QED
    BY <1>6, <1>10, <1>11, <2>1 DEF Abstract!Sector, Abstract!Come
<1>13. Held(d)'
  BY <1>1, <1>6, ComesHeld
<1> QED
  BY <1>9, <1>12, <1>13 DEF Abstract!Next

\* A drive that keeps its buffer's content, while the images stay, holds what it held.
LEMMA BufferAlike ==
  ASSUME UNCHANGED image, NEW d \in Drives, drive'[d].dirty = drive[d].dirty,
         drive'[d].diskPointer = drive[d].diskPointer,
         drive[d].dirty => drive'[d].sectorData = drive[d].sectorData,
         \A e \in Drives \ {d} : drive'[e] = drive[e]
  PROVE  \A e \in Drives : Alike(e)
<1>1. \A e \in Drives, m \in Sectors : Stored(e, m)' = Stored(e, m)
  BY DEF image, Stored
<1>2. Alike(d)
  BY <1>1, HoldsIs DEF HoldsStored, Alike
<1> QED
  BY <1>1, <1>2, OtherAlike

\* What of a drive SectorDisk sees.
Shown ==
  <<[e \in Drives |-> Holds(e)], [e \in Drives |-> drive[e].track],
    [e \in Drives |-> drive[e].sector % SectorsPerTrack], [e \in Drives |-> drive[e].diskPointer]>>

LEMMA ShownSame ==
  ASSUME NEW d \in Drives, \A e \in Drives : Alike(e),
         drive'[d].track = drive[d].track, drive'[d].sector = drive[d].sector,
         drive'[d].diskPointer = drive[d].diskPointer,
         \A e \in Drives \ {d} : drive'[e] = drive[e]
  PROVE  UNCHANGED Shown
<1>1. \A e \in Drives : /\ drive'[e].track = drive[e].track
                        /\ drive'[e].sector = drive[e].sector
                        /\ drive'[e].diskPointer = drive[e].diskPointer
  OBVIOUS
<1> QED
  BY <1>1 DEF Shown, Alike

LEMMA HeadRefines ==
  ASSUME KeysApart, StoreInv, NEW d \in Drives, HeadLoad(d) \/ HeadUnload(d)
  PROVE  UNCHANGED Abstract!vars /\ CacheUsed' /\ Held(d)' /\ \A e \in Drives : Alike(e)
<1>1. DiskInv /\ drive \in [Drives -> Disk] /\ drive[d] \in Disk /\ CacheUsed /\ Held(d)
  BY DriveTypes DEF StoreInv
<1>2. PICK status \in SUBSET Conditions : Head(d, status)
  BY <1>1 DEF HeadLoad, HeadUnload, Conditions, Disk
<1>3. /\ drive'[d] = [drive[d] EXCEPT !.status = status]
      /\ \A e \in Drives \ {d} : drive'[e] = drive[e]
      /\ UNCHANGED <<image, program, answer>>
  BY <1>1, <1>2 DEF Head
<1>4. /\ drive'[d].track = drive[d].track /\ drive'[d].sector = drive[d].sector
      /\ drive'[d].diskPointer = drive[d].diskPointer /\ drive'[d].dirty = drive[d].dirty
      /\ drive'[d].sectorData = drive[d].sectorData
  BY <1>1, <1>3 DEF Disk
<1>5. \A e \in Drives : Alike(e)
  BY <1>3, <1>4, BufferAlike
<1>6. UNCHANGED Shown
  BY <1>3, <1>4, <1>5, ShownSame
<1>7. Held(d)'
  BY <1>1, <1>3, <1>4, <1>5 DEF Held, Alike, program
<1> QED
  BY <1>1, <1>3, <1>5, <1>6, <1>7, StoredSame DEF Abstract!vars, Shown, program

LEMMA WriteEnableRefines ==
  ASSUME KeysApart, StoreInv, NEW d \in Drives, WriteEnable(d)
  PROVE  Abstract!Next /\ CacheUsed' /\ Held(d)' /\ \A e \in Drives : Alike(e)
<1>1. /\ DiskInv /\ drive \in [Drives -> Disk] /\ drive[d] \in Disk /\ CacheUsed
      /\ moved \in [Drives -> 0..(SectorSize + 1)] /\ mode \in [Drives -> {"none", "read", "write"}]
  BY DriveTypes DEF StoreInv
<1>2. /\ \A e \in Drives \ {d} : drive'[e] = drive[e]
      /\ UNCHANGED image /\ moved' = moved /\ answer' = answer /\ moved[d] = 0
      /\ mode' = [mode EXCEPT ![d] = "write"]
  BY <1>1 DEF WriteEnable
<1>3. /\ drive'[d].track = drive[d].track /\ drive'[d].sector = drive[d].sector
      /\ drive'[d].diskPointer = drive[d].diskPointer /\ drive'[d].dirty = drive[d].dirty
      /\ drive'[d].sectorData = drive[d].sectorData
  <2> DEFINE status == drive[d].status \union {"ENWD"}
  <2>1. drive'[d] = [drive[d] EXCEPT !.status = status, !.writeStatus = 0]
    BY <1>1 DEF WriteEnable
  <2> HIDE DEF status
  <2> QED
    BY <1>1, <2>1 DEF Disk
<1>4. \A e \in Drives : Alike(e)
  BY <1>2, <1>3, BufferAlike
<1>5. UNCHANGED Shown
  BY <1>2, <1>3, <1>4, ShownSame
<1>6. Held(d)'
  BY <1>1, <1>2 DEF Held
<1>7. Abstract!WriteEnable(d)
  BY <1>2, <1>5 DEF Abstract!WriteEnable, Shown
<1> QED
  BY <1>1, <1>2, <1>4, <1>6, <1>7, StoredSame DEF Abstract!Next

LEMMA ReadRefines ==
  ASSUME KeysApart, StoreInv, NEW d \in Drives, Read(d)
  PROVE  Abstract!Next /\ CacheUsed' /\ Held(d)' /\ \A e \in Drives : Alike(e)
<1> DEFINE r == Filled(d, drive[d])
           n == drive[d].diskPointer
<1>1. /\ DiskInv /\ drive \in [Drives -> Disk] /\ drive[d] \in Disk /\ CacheUsed /\ Held(d)
      /\ moved \in [Drives -> 0..(SectorSize + 1)] /\ mode \in [Drives -> {"none", "read", "write"}]
      /\ InStep(d) /\ ImageType
  BY DriveTypes DEF StoreInv
<1>2. /\ \A e \in Drives \ {d} : drive'[e] = drive[e]
      /\ drive'[d] = [r EXCEPT !.sectorPointer = r.sectorPointer + 1]
      /\ UNCHANGED image /\ moved' = [moved EXCEPT ![d] = moved[d] + 1]
      /\ mode' = [mode EXCEPT ![d] = "read"]
      /\ mode[d] \in {"none", "read"} /\ moved[d] \in Nat /\ moved[d] < SectorSize
      /\ answer' = <<"byte", r.sectorData[r.sectorPointer]>>
  BY <1>1 DEF Read
<1>3. drive[d].dirty = FALSE /\ n \in Sectors
  BY <1>1, <1>2 DEF InStep, Disk
<1>4. Holds(d)[n] = Stored(d, n)
  BY <1>3, HoldsIs DEF HoldsStored
\* The buffer is filled with what the drive holds, and is read where the program is.
<1>5. /\ r \in Disk /\ r.sectorPointer = moved[d]
      /\ r.track = drive[d].track /\ r.sector = drive[d].sector
      /\ r.diskPointer = n /\ r.dirty = FALSE
      /\ \A i \in 0..(SectorSize - 1) : r.sectorData[i] = Holds(d)[n][i]
  <2>1. CASE drive[d].have
    <3>1. mode[d] = "read" /\ r = drive[d]
      BY <1>1, <1>2, <2>1 DEF InStep, Filled
    <3> QED
      BY <1>1, <1>3, <3>1 DEF InStep, Held
  <2>2. CASE ~drive[d].have
    <3>1. mode[d] = "none"
      BY <1>1, <1>2, <2>2 DEF InStep
    <3>2. moved[d] = 0 /\ drive[d].offset = n /\ n + 1 \in Nat
      BY <1>1, <1>3, <3>1 DEF InStep, Sectors
    <3>3. PICK c \in Content : /\ c = Stored(d, n)
                               /\ Key(d, n) \in DOMAIN cache => c = cache[Key(d, n)]
                               /\ Key(d, n) \notin DOMAIN cache => c = file[d][n]
      BY <1>1, <1>3 DEF ImageType, Stored
    <3> DEFINE data == Load(drive[d].sectorData, c)
    <3>4. data \in Buffer /\ \A i \in 0..(SectorSize - 1) : data[i] = c[i]
      BY <1>1, DiskAssumption, SMTT(30) DEF Load, Buffer, Content, Disk
    <3>5. PICK o \in Nat : r = [drive[d] EXCEPT !.sectorPointer = 0, !.have = TRUE,
                                                !.offset = o, !.sectorData = data]
      <4>1. CASE Cloud /\ Key(d, n) \in DOMAIN cache
        <5>1. r = [drive[d] EXCEPT !.sectorPointer = 0, !.have = TRUE, !.sectorData = data]
          BY <2>2, <3>3, <4>1 DEF Filled
        <5>2. drive[d].offset \in Nat
          BY <1>1 DEF Disk
        <5>3. r = [drive[d] EXCEPT !.sectorPointer = 0, !.have = TRUE,
                                   !.offset = drive[d].offset, !.sectorData = data]
          <6> HIDE DEF data, r
          <6> QED
            BY <1>1, <5>1 DEF Disk
        <5> HIDE DEF data, r
        <5> QED
          BY <5>2, <5>3
      <4>2. CASE ~(Cloud /\ Key(d, n) \in DOMAIN cache)
        <5>1. Key(d, n) \notin DOMAIN cache
          BY <1>1, <4>2 DEF CacheUsed
        <5>2. r = [drive[d] EXCEPT !.sectorPointer = 0, !.have = TRUE,
                                   !.offset = drive[d].offset + 1, !.sectorData = data]
          BY <2>2, <3>2, <3>3, <4>2, <5>1 DEF Filled, FromFile
        <5> HIDE DEF data, r
        <5> QED
          BY <3>2, <5>2
      <4> QED
        BY <4>1, <4>2
    <3> HIDE DEF data, r
    <3>6. /\ r \in Disk /\ r.sectorPointer = 0 /\ r.sectorData = data
          /\ r.track = drive[d].track /\ r.sector = drive[d].sector
          /\ r.diskPointer = drive[d].diskPointer /\ r.dirty = drive[d].dirty
      BY <1>1, <3>4, <3>5 DEF Disk
    <3> QED
      BY <1>3, <1>4, <3>2, <3>3, <3>4, <3>6
  <2> QED
    BY <2>1, <2>2
<1> HIDE DEF r
<1>6. /\ drive'[d].track = drive[d].track /\ drive'[d].sector = drive[d].sector
      /\ drive'[d].diskPointer = n /\ drive'[d].dirty = FALSE
      /\ drive'[d].sectorData = r.sectorData
  BY <1>2, <1>5 DEF Disk
<1>7. \A e \in Drives : Alike(e)
  BY <1>2, <1>3, <1>6, BufferAlike
<1>8. UNCHANGED Shown
  BY <1>2, <1>6, <1>7, ShownSame
<1>9. Held(d)'
  <2>1. Holds(d)' = Holds(d) /\ mode'[d] = "read"
    BY <1>1, <1>2, <1>7 DEF Alike
  <2> QED
    BY <1>5, <1>6, <2>1 DEF Held
<1>10. Abstract!Read(d)
  <2>1. moved[d] \in 0..(SectorSize - 1)
    BY <1>2, DiskAssumption
  <2>2. answer' = <<"byte", Holds(d)[n][moved[d]]>>
    BY <1>2, <1>5, <2>1
  <2>3. /\ [e \in Drives |-> Holds(e)][d] = Holds(d)
        /\ [e \in Drives |-> drive[e].diskPointer][d] = n
    OBVIOUS
  <2>4. answer' = <<"byte", [e \in Drives |-> Holds(e)][d][[e \in Drives |-> drive[e].diskPointer][d]][moved[d]]>>
    BY <2>2, <2>3
  <2> QED
    BY <1>2, <1>8, <2>4 DEF Abstract!Read, Abstract!Move, Shown
<1> QED
  BY <1>1, <1>2, <1>7, <1>9, <1>10, StoredSame DEF Abstract!Next

\* A byte of a sector goes into the buffer, which then stands for the sector.
LEMMA WriteRefines ==
  ASSUME KeysApart, StoreInv, NEW d \in Drives, NEW b \in Byte, Write(d, b)
  PROVE  Abstract!Next /\ CacheUsed' /\ Held(d)' /\ \A e \in Drives \ {d} : Alike(e)
<1> DEFINE data == [drive[d].sectorData EXCEPT ![drive[d].sectorPointer] = b]
           r == [drive[d] EXCEPT !.sectorData = data,
                                 !.sectorPointer = drive[d].sectorPointer + 1, !.dirty = TRUE]
           n == drive[d].diskPointer
           c == Sector(data)
<1>1. /\ DiskInv /\ drive \in [Drives -> Disk] /\ drive[d] \in Disk /\ CacheUsed /\ Held(d)
      /\ moved \in [Drives -> 0..(SectorSize + 1)] /\ mode \in [Drives -> {"none", "read", "write"}]
      /\ InStep(d) /\ ImageType
  BY DriveTypes DEF StoreInv
<1>2. /\ mode[d] = "write" /\ moved[d] \in Nat /\ moved[d] <= SectorSize
      /\ moved[d] = SectorSize => b = 0
      /\ moved' = [moved EXCEPT ![d] = moved[d] + 1] /\ mode' = mode
      /\ answer' = IF moved[d] < SectorSize THEN <<"wrote", b>> ELSE answer
      /\ \A e \in Drives \ {d} : drive'[e] = drive[e]
  BY <1>1 DEF Write
<1>3. /\ drive[d].sectorPointer = moved[d] /\ drive[d].writeStatus = moved[d]
      /\ drive[d].offset = n /\ n \in Sectors
      /\ moved[d] > 0 => drive[d].dirty
  BY <1>1, <1>2, DiskAssumption DEF InStep, Held, Disk
<1>4. /\ data \in Buffer /\ c \in Content
      /\ \A i \in 0..(SectorSize - 1) :
           c[i] = IF i = moved[d] THEN b ELSE drive[d].sectorData[i]
  <2>1. drive[d].sectorData \in Buffer /\ data \in Buffer
    BY <1>1 DEF Disk, Buffer
  <2>2. \A i \in 0..(SectorSize + 1) :
          data[i] = IF i = moved[d] THEN b ELSE drive[d].sectorData[i]
    BY <1>3, <2>1 DEF Buffer
  <2>3. \A i \in 0..(SectorSize - 1) : i \in 0..(SectorSize + 1)
    BY DiskAssumption
  <2> HIDE DEF data
  <2> QED
    BY <2>1, <2>2, <2>3 DEF Sector, Content, Buffer
<1>5. /\ r \in Disk /\ r.offset = n /\ r.diskPointer = n /\ r.dirty = TRUE
      /\ r.sectorData = data /\ r.writeStatus = moved[d]
      /\ r.track = drive[d].track /\ r.sector = drive[d].sector
  <2>1. drive[d].sectorPointer + 1 \in Nat
    BY <1>2, <1>3
  <2> HIDE DEF data
  <2> QED
    BY <1>1, <1>3, <1>4, <2>1 DEF Disk
<1>6. CASE moved[d] = SectorSize
  <2>1. Save(d, r) /\ drive'[d] = [Saved(r) EXCEPT !.writeStatus = 0, !.status = Saved(r).status \ {"ENWD"}]
    BY <1>1, <1>5, <1>6 DEF Write
  <2> HIDE DEF r
  <2>2. StoresOnly(d, n, c) /\ CacheUsed'
    BY <1>1, <1>5, <2>1, SaveStores
  <2>3. /\ drive'[d].dirty = FALSE /\ drive'[d].diskPointer = n
        /\ drive'[d].track = drive[d].track /\ drive'[d].sector = drive[d].sector
    <3> DEFINE p == Saved(r)
    <3>1. /\ p.dirty = FALSE /\ p.diskPointer = n /\ p.track = r.track /\ p.sector = r.sector
          /\ DOMAIN p = DOMAIN r
      BY <1>5 DEF Saved, Disk
    <3>2. "dirty" \in DOMAIN r /\ "diskPointer" \in DOMAIN r /\ "track" \in DOMAIN r
          /\ "sector" \in DOMAIN r
      BY <1>5 DEF Disk
    <3>3. drive'[d] = [p EXCEPT !.writeStatus = 0, !.status = p.status \ {"ENWD"}]
      BY <2>1
    <3> HIDE DEF p
    <3> QED
      BY <1>5, <3>1, <3>2, <3>3
  \* The sector was complete already: the last byte is not part of it.
  <2>4. drive[d].dirty /\ c = Sector(drive[d].sectorData)
    <3>1. drive[d].dirty
      BY <1>3, <1>6, DiskAssumption
    <3>2. \A i \in 0..(SectorSize - 1) : data[i] = drive[d].sectorData[i]
      <4>1. drive[d].sectorData \in Buffer
        BY <1>1 DEF Disk
      <4> QED
        BY <1>3, <1>6, <4>1, DiskAssumption DEF Buffer
    <3> HIDE DEF data
    <3> QED
      BY <3>1, <3>2 DEF Sector
  <2> HIDE DEF c
  <2>5. Alike(d)
    BY <2>2, <2>3, <2>4, HoldsIs DEF HoldsStored, StoresOnly, Alike
  <2>6. \A e \in Drives \ {d} : Alike(e)
    BY <1>2, <2>2, OtherAlike DEF StoresOnly
  <2>7. UNCHANGED Shown
    BY <1>2, <2>3, <2>5, <2>6, ShownSame
  <2>8. Abstract!Trailer(d)
    BY <1>2, <1>6, <2>7, DiskAssumption DEF Abstract!Trailer, Abstract!Move, Shown
  <2>9. Held(d)'
    BY <1>1, <1>2, <1>6, DiskAssumption DEF Held
  <2> QED
    BY <2>2, <2>6, <2>8, <2>9 DEF Abstract!Next
<1>7. CASE moved[d] # SectorSize
  <2>1. drive'[d] = [r EXCEPT !.writeStatus = r.writeStatus + 1] /\ UNCHANGED image
    BY <1>1, <1>5, <1>7 DEF Write
  <2>2. moved[d] \in 0..(SectorSize - 1)
    BY <1>2, <1>7, DiskAssumption
  <2> HIDE DEF r
  <2>3. /\ drive'[d].dirty = TRUE /\ drive'[d].diskPointer = n /\ drive'[d].sectorData = data
        /\ drive'[d].track = drive[d].track /\ drive'[d].sector = drive[d].sector
    BY <1>5, <2>1 DEF Disk
  <2>4. (\A e \in Drives, m \in Sectors : Stored(e, m)' = Stored(e, m)) /\ CacheUsed'
    BY <1>1, <2>1, StoredSame
  <2>5. \A e \in Drives \ {d} : Alike(e)
    BY <1>2, <2>4, OtherAlike
  <2>6. Holds(d)' = [Holds(d) EXCEPT ![n] = c]
    <3>1. \A m \in Sectors : Holds(d)[m] = IF drive[d].dirty /\ m = n
                                           THEN Sector(drive[d].sectorData) ELSE Stored(d, m)
      BY HoldsIs DEF HoldsStored
    <3>2. DOMAIN Holds(d) = Sectors
      BY DEF Holds
    <3>3. Holds(d)' = [m \in Sectors |-> IF m = n THEN c ELSE Stored(d, m)']
      <4>1. /\ Holds(d)' = [m \in Sectors |->
                              IF drive'[d].dirty /\ m = drive'[d].diskPointer
                              THEN Sector(drive'[d].sectorData) ELSE Stored(d, m)']
        BY DEF Holds, Sector
      <4>2. Sector(drive'[d].sectorData) = c
        BY <2>3
      <4> HIDE DEF c
      <4> QED
        BY <2>3, <4>1, <4>2
    <3> HIDE DEF c
    <3> QED
      BY <2>4, <3>1, <3>2, <3>3 DEF Holds
  <2>7. \A i \in 0..(moved[d] - 1) : c[i] = Holds(d)[n][i]
    <3> SUFFICES ASSUME NEW i \in 0..(moved[d] - 1) PROVE c[i] = Holds(d)[n][i]
      OBVIOUS
    <3>0. moved[d] > 0 /\ i \in 0..(SectorSize - 1) /\ i # moved[d]
      <4>1. SectorSize \in Nat /\ moved[d] \in Nat /\ moved[d] < SectorSize
        BY <2>2, DiskAssumption
      <4>2. i \in Nat /\ i <= moved[d] - 1
        BY <4>1
      <4> QED
        BY <4>1, <4>2
    <3>1. drive[d].dirty /\ i \in 0..(SectorSize - 1) /\ i # moved[d]
      BY <1>3, <3>0
    <3>2. Holds(d)[n] = Sector(drive[d].sectorData)
      BY <1>3, <3>1, HoldsIs DEF HoldsStored
    <3>3. c[i] = drive[d].sectorData[i]
      BY <1>4, <3>1
    <3> QED
      BY <3>1, <3>2, <3>3 DEF Sector
  <2>8. c[moved[d]] = b
    BY <1>4, <2>2
  <2> HIDE DEF c, data
  <2>9. Abstract!Write(d)
    <3>1. [e \in Drives |-> Holds(e)]' = [[e \in Drives |-> Holds(e)] EXCEPT ![d][n] = c]
      BY <2>5, <2>6 DEF Alike
    <3>2. /\ [e \in Drives |-> Holds(e)][d] = Holds(d)
          /\ [e \in Drives |-> drive[e].diskPointer][d] = n
      OBVIOUS
    <3>3. \A e \in Drives : /\ drive'[e].track = drive[e].track
                            /\ drive'[e].sector = drive[e].sector
                            /\ drive'[e].diskPointer = drive[e].diskPointer
      BY <1>2, <2>3
    <3>4. UNCHANGED <<[e \in Drives |-> drive[e].track],
                      [e \in Drives |-> drive[e].sector % SectorsPerTrack],
                      [e \in Drives |-> drive[e].diskPointer]>>
      BY <3>3
    <3>5. Abstract!Move(d)
      BY <1>2, <3>4 DEF Abstract!Move
    <3>6. c \in Abstract!Content
      BY <1>4 DEF Abstract!Content, Content
    <3>7. answer' = <<"wrote", c[moved[d]]>> /\ moved[d] < SectorSize
      BY <1>2, <2>2, <2>8, DiskAssumption
    <3> QED
      BY <1>2, <2>7, <3>1, <3>2, <3>5, <3>6, <3>7 DEF Abstract!Write
  <2>10. Held(d)'
    BY <1>1, <1>2, <2>3 DEF Held
  <2> QED
    BY <2>4, <2>5, <2>9, <2>10 DEF Abstract!Next
<1> QED
  BY <1>6, <1>7

\* A step of a drive is one of SectorDisk, or none that it shows, and keeps what the next
\* steps rely on.
LEMMA DriveRefines ==
  ASSUME KeysApart, StoreInv, NEW d \in Drives, DriveStep(d)
  PROVE  /\ Abstract!Next \/ UNCHANGED Abstract!vars
         /\ CacheUsed' /\ Held(d)' /\ \A e \in Drives \ {d} : Alike(e)
<1>1. drive[d].track \in 0..(MaxTracks - 1) /\ drive[d].status \in SUBSET Conditions
  BY DriveTypes DEF StoreInv, Disk
<1>2. CASE StepIn(d)
  <2> DEFINE t == IF drive[d].track < MaxTracks - 1 THEN drive[d].track + 1 ELSE drive[d].track
             s == IF t # 0 THEN drive[d].status \ {"TRACK_0"} ELSE drive[d].status
  <2>1. /\ t \in 0..(MaxTracks - 1) /\ s \in SUBSET Conditions
        /\ t \in {drive[d].track - 1, drive[d].track, drive[d].track + 1}
    BY <1>1, DiskAssumption
  <2>2. Seek(d, t, s)
    BY <1>2 DEF StepIn
  <2> HIDE DEF t, s
  <2>3. PICK u \in 0..(MaxTracks - 1), v \in SUBSET Conditions : u = t /\ v = s
    BY <2>1
  <2>4. Seek(d, u, v)
    BY <2>2, <2>3 DEF Seek
  <2> QED
    BY <2>1, <2>3, <2>4, SeekRefines
<1>3. CASE StepOut(d)
  <2> DEFINE t == IF drive[d].track > 0 THEN drive[d].track - 1 ELSE 0
             s == IF t = 0 THEN drive[d].status \union {"TRACK_0"} ELSE drive[d].status
  <2>1. /\ t \in 0..(MaxTracks - 1) /\ s \in SUBSET Conditions
        /\ t \in {drive[d].track - 1, drive[d].track, drive[d].track + 1}
    BY <1>1, DiskAssumption DEF Conditions
  <2>2. Seek(d, t, s)
    BY <1>3 DEF StepOut
  <2> HIDE DEF t, s
  <2>3. PICK u \in 0..(MaxTracks - 1), v \in SUBSET Conditions : u = t /\ v = s
    BY <2>1
  <2>4. Seek(d, u, v)
    BY <2>2, <2>3 DEF Seek
  <2> QED
    BY <2>1, <2>3, <2>4, SeekRefines
<1> QED
  BY <1>2, <1>3, HeadRefines, WriteEnableRefines, NextSectorRefines, ReadRefines, WriteRefines
  DEF DriveStep

\* Every behaviour of the controller is one of drives that store a byte at once and read
\* back what is stored, whatever the program does with its drives and the build does with
\* its buffers, offsets and cache; for the differencing disk the keys of the drives must
\* differ (88dcdd.c:10-215, difference_disk.c:12-68).
THEOREM DrivesStore == KeysApart => (Spec => Implements)
<1> SUFFICES ASSUME KeysApart PROVE Spec => Implements
  OBVIOUS
<1>1. Init => Abstract!Init
  <2> SUFFICES ASSUME Init PROVE Abstract!Init
    OBVIOUS
  <2>1. \A d \in Drives : drive[d] = NewDisk
    BY DEF Init
  <2>2. /\ NewDisk.track = 0 /\ NewDisk.sector = 0 /\ NewDisk.diskPointer = 0
        /\ NewDisk.dirty = FALSE
    BY DEF NewDisk
  <2>3. DOMAIN cache = {} /\ file \in [Drives -> [Sectors -> Content]]
    BY DiskAssumption DEF Init, Content
  <2>4. \A d \in Drives : Holds(d) = file[d]
    BY <2>1, <2>2, <2>3 DEF Holds, Stored
  <2>5. [d \in Drives |-> Holds(d)] \in [Drives -> [Abstract!Sectors -> Abstract!Content]]
    BY <2>3, <2>4 DEF Abstract!Sectors, Abstract!Content, Sectors, Content
  <2>6. 0 % SectorsPerTrack = 0
    BY DiskAssumption
  <2> QED
    BY <2>1, <2>2, <2>5, <2>6 DEF Init, Abstract!Init
<1>2. Init => StoreInv
  <2> SUFFICES ASSUME Init PROVE CacheUsed /\ \A d \in Drives : Held(d)
    BY DiskInvInit DEF StoreInv
  <2> QED
    BY DEF Init, CacheUsed, Held
<1>3. StoreInv /\ [Next]_vars => StoreInv' /\ [Abstract!Next]_(Abstract!vars)
  <2> SUFFICES ASSUME StoreInv, [Next]_vars
               PROVE  StoreInv' /\ (Abstract!Next \/ UNCHANGED Abstract!vars)
    OBVIOUS
  <2>1. DiskInv'
    BY DiskInvStep DEF StoreInv
  <2>2. CASE UNCHANGED vars \/ \E b \in Drives \union {4} : Select(b)
    <3>1. UNCHANGED <<drive, file, cache, moved, mode, answer>>
      BY <2>2 DEF vars, Select, image, program
    <3>2. \A d \in Drives : Holds(d)' = Holds(d)
      BY <3>1 DEF Holds, Stored
    <3>3. UNCHANGED Abstract!vars
      BY <3>1, <3>2 DEF Abstract!vars
    <3> QED
      BY <2>1, <3>1, <3>2, <3>3 DEF StoreInv, CacheUsed, Held
  <2>3. ASSUME NEW d \in Drives, DriveStep(d)
        PROVE  StoreInv' /\ (Abstract!Next \/ UNCHANGED Abstract!vars)
    <3>1. /\ Abstract!Next \/ UNCHANGED Abstract!vars
          /\ CacheUsed' /\ Held(d)' /\ \A e \in Drives \ {d} : Alike(e)
      BY <2>3, DriveRefines
    <3>2. \A e \in Drives \ {d} : /\ drive'[e] = drive[e]
                                  /\ moved'[e] = moved[e] /\ mode'[e] = mode[e]
      BY <2>3, OthersKept DEF StoreInv
    <3>3. \A e \in Drives \ {d} : Held(e)'
      BY <3>1, <3>2 DEF StoreInv, Held, Alike
    <3> QED
      BY <2>1, <3>1, <3>3 DEF StoreInv
  <2> QED
    BY <2>2, <2>3 DEF Next, DriveStep, On
<1> QED
  BY <1>1, <1>2, <1>3, PTL DEF Spec, Implements, Abstract!Spec
=============================================================================
