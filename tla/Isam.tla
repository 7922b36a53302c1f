-------------------------------- MODULE Isam --------------------------------
(***************************************************************************)
(* The ISAM library of src/AppSamples/isam and two programs that use it.   *)
(* A table is a file of slots of one record each; its configuration counts *)
(* the records and the slots in use, and is written and read by a call of  *)
(* its own.  A delete marks a slot, an insert takes a marked slot or the   *)
(* one behind the last.  The index has the key and slot of some records.   *)
(*                                                                         *)
(* The client "doctor" is doctor.c: it inserts patients with rising        *)
(* numbers and keeps the index, updates some, deletes some, looks some up  *)
(* and reads all of them back; how many and which it updates and deletes   *)
(* is left open.  The client "any" calls the library as isamtst.c does, in *)
(* any order, saves when it likes, builds the index anew when it needs it, *)
(* and may be restarted between two calls.                                 *)
(*                                                                         *)
(* Left out: what a record has besides its key, tables but the first, file *)
(* names, records of several sectors, files that cannot be opened.         *)
(***************************************************************************)
EXTENDS Integers, Sequences, FiniteSets

CONSTANTS Record,    \* records, which are their keys: 1..P_CNT in doctor.c
          Slots,     \* bound: slots that fit on the disk
          Sample,    \* I_IDXSAMP
          MaxIndex,  \* I_MXIDX
          Deleted    \* I_DELFLAG

Clients == {"doctor", "any"}
Phases == {"insert", "update", "delete", "lookup", "readback", "success", "failed"}

ASSUME IsamAssumption ==
  /\ Record \subseteq Nat \ {0} /\ Slots \in Nat
  /\ Sample \in Nat \ {0} /\ MaxIndex \in Nat \ {0}
  /\ Deleted \notin Record

VARIABLES
  client,  \* which program runs
  phase,   \* where doctor.c is
  file,    \* the table's data file, slot after slot
  nrecs, maxrec,  \* the table's counts in g_cfg
  config,  \* the counts in the configuration file
  index,   \* g_idx, up to g_idxcnt
  dirty,   \* g_idx_dirty, or no index was built
  missing,    \* the patients that doctor.c reports as not found
  displayed,  \* the number of records that it reads back
  sound    \* history: no restart read an old config

counts == <<nrecs, maxrec>>
report == <<missing, displayed>>
vars == <<client, phase, file, counts, config, index, dirty, report, sound>>

\* i_mktbl
Empty == file = <<>>

\* initcfg, and a first i_cfwr.
Init ==
  /\ client \in Clients /\ phase = "insert"
  /\ Empty /\ nrecs = 0 /\ maxrec = 0 /\ config = <<0, 0>>
  /\ index = <<>> /\ dirty = (client = "any")
  /\ missing = {} /\ displayed = 0
  /\ sound = TRUE

\* The library counts slots from 0.
Slot(phys) == file[phys + 1]
Visible == 0..(maxrec - 1)

-----------------------------------------------------------------------------
(* Records *)

\* i_rdphys does not return I_ENREC.
Active(phys) == Slot(phys) # Deleted
ActiveSlots == {phys \in Visible : Active(phys)}

\* i_findlog: the slot with n active ones before it.
IsLogical(phys, n) == Active(phys) /\ Cardinality({p \in ActiveSlots : p < phys}) = n
LogicalSlots(n) == {phys \in Visible : IsLogical(phys, n)}

\* The slots an insert may reuse: it looks for one only if the counts say there is.
Free == IF nrecs < maxrec THEN {phys \in Visible : ~Active(phys)} ELSE {}
First(slots) == CHOOSE s \in slots : \A t \in slots : s <= t

Put(phys, r) == [s \in 1..(IF phys < Len(file) THEN Len(file) ELSE phys + 1) |->
                   IF s = phys + 1 THEN r ELSE file[s]]

\* Variant of i_insrt: an insert takes a free slot without looking for one.
InsertFirst(r) ==
  LET phys == IF nrecs < maxrec THEN 0 ELSE maxrec
  IN  /\ phys < Slots
      /\ file' = Put(phys, r)
      /\ nrecs' = nrecs + 1
      /\ maxrec' = IF nrecs < maxrec THEN maxrec ELSE nrecs + 1

\* Variant of i_insrt: the count of slots is only raised when it is too small by two.
InsertLate(r) ==
  LET phys == IF Free # {} THEN First(Free) ELSE maxrec
  IN  /\ phys < Slots
      /\ file' = Put(phys, r)
      /\ nrecs' = nrecs + 1
      /\ maxrec' = IF Free = {} /\ nrecs > maxrec THEN nrecs + 1 ELSE maxrec

\* i_insrt, when the disk is not full.
Insert(r) ==
  LET phys == IF Free # {} THEN First(Free) ELSE maxrec
  IN  /\ phys < Slots
      /\ file' = Put(phys, r)
      /\ nrecs' = nrecs + 1
      /\ maxrec' = IF Free = {} /\ nrecs + 1 > maxrec THEN nrecs + 1 ELSE maxrec

\* i_wrphys and i_uprec
Write(phys, r) == phys \in Visible /\ file' = Put(phys, r)
Update(n, r) == \E phys \in LogicalSlots(n) : Write(phys, r)

\* Variant of Erase: the record is still counted.
EraseUncounted(phys) ==
  /\ nrecs # 0 /\ phys \in ActiveSlots
  /\ file' = Put(phys, Deleted)
  /\ UNCHANGED nrecs

\* i_delphys and i_delrec
Erase(phys) ==
  /\ nrecs # 0 /\ phys \in ActiveSlots
  /\ file' = Put(phys, Deleted)
  /\ nrecs' = nrecs - 1
Delete(n) == \E phys \in LogicalSlots(n) : Erase(phys)

-----------------------------------------------------------------------------
(* The index *)

Entry(phys) == [key |-> Slot(phys), phys |-> phys]

\* One turn of the loop of i_idxbld, for a slot: it gets an entry if it is active and a
\* sample behind the last entry, and there is room.
Sampled(entries, phys) ==
  IF /\ Active(phys) /\ Len(entries) < MaxIndex
     /\ entries # <<>> => phys >= entries[Len(entries)].phys + Sample
  THEN Append(entries, Entry(phys)) ELSE entries

\* i_idxbld: the entries that are built before slot s, and of all slots.
Built ==
  LET built[s \in 0..maxrec] == IF s = 0 THEN <<>> ELSE Sampled(built[s - 1], s - 1)
  IN  built[maxrec]

\* i_idxins of an entry that is not there: before the first with a greater key.
Inserted(entries, e) ==
  LET after == {i \in 1..Len(entries) : entries[i].key > e.key}
      at == IF after = {} THEN Len(entries) + 1 ELSE First(after)
  IN  IF Len(entries) >= MaxIndex THEN entries
      ELSE [i \in 1..(Len(entries) + 1) |->
              IF i < at THEN entries[i] ELSE IF i = at THEN e ELSE entries[i - 1]]

EntriesOf(entries, phys) == {i \in 1..Len(entries) : entries[i].phys = phys}

\* i_idxdel, idx_remove_entry: the first entry of the slot goes.
Without(entries, phys) ==
  LET here == EntriesOf(entries, phys)
  IN  IF here = {} THEN entries
      ELSE [i \in 1..(Len(entries) - 1) |->
              IF i < First(here) THEN entries[i] ELSE entries[i + 1]]

\* idx_append_sample: an entry for the first active slot a sample behind the last entry.
WithSample(entries, active) ==
  LET start == IF entries = <<>> THEN 0 ELSE entries[Len(entries)].phys + Sample
      slots == {phys \in active : phys >= start}
  IN  IF Len(entries) >= MaxIndex \/ slots = {} THEN entries
      ELSE Append(entries, Entry(First(slots)))

\* idx_update_after_delete: an entry of the slot gets the next active slot before the
\* next entry, or else goes, and a sample is appended.
AfterDelete(entries, phys) ==
  LET active == ActiveSlots \ {phys}
      i == First(EntriesOf(entries, phys))
      limit == IF i < Len(entries) THEN entries[i + 1].phys ELSE maxrec
      slots == {p \in active : phys < p /\ p < limit}
  IN  IF EntriesOf(entries, phys) = {} THEN entries
      ELSE IF slots # {} THEN [entries EXCEPT ![i] = Entry(First(slots))]
      ELSE WithSample(Without(entries, phys), active)

\* The binary search of i_idxsrch after a number of turns of its loop: the entries left
\* to search are lo..hi, at is the entry with the key if it was found, and left tells
\* whether the last turn went to the left.
Turn(key, s) ==
  LET mid == (s.lo + s.hi) \div 2
  IN  IF s.lo > s.hi \/ s.at # 0 THEN s
      ELSE IF key = index[mid].key THEN [s EXCEPT !.at = mid]
      ELSE IF key < index[mid].key THEN [s EXCEPT !.hi = mid - 1, !.left = TRUE]
      ELSE [s EXCEPT !.lo = mid + 1, !.left = FALSE]

\* It ends in as many turns as there are entries, with the entry that has the key, or
\* else the one before where it would be, 0 for none.
Search(key) ==
  LET turns[n \in 0..Len(index)] ==
        IF n = 0 THEN [lo |-> 1, hi |-> Len(index), at |-> 0, left |-> FALSE]
        ELSE Turn(key, turns[n - 1])
      last == turns[Len(index)]
  IN  IF last.at # 0 THEN [at |-> last.at, left |-> FALSE]
      ELSE [at |-> last.lo - 1, left |-> last.left]

\* Variant of SlotRange: it ends with the next sample's distance, whatever was deleted.
SlotRangeShort(key) ==
  LET s == Search(key)
      start == IF s.at = 0 THEN 0 ELSE index[s.at].phys
  IN  start..(IF start + Sample < maxrec THEN start + Sample - 1 ELSE maxrec - 1)

\* i_idxsrch: the slots where the key may be.
SlotRange(key) ==
  LET s == Search(key)
      behind == IF s.at = 0 THEN 2 ELSE s.at + 1
      start == IF index = <<>> \/ s.at = 0 \/ (s.left /\ s.at = 1) THEN 0
               ELSE index[s.at].phys
  IN  start..((IF behind <= Len(index) THEN index[behind].phys ELSE maxrec) - 1)

\* i_idxlookup: the first of these slots, and -1 for I_ENREC.
Lookup(key) ==
  LET hits == {phys \in SlotRange(key) : Active(phys) /\ Slot(phys) = key}
  IN  IF hits = {} THEN -1 ELSE First(hits)

-----------------------------------------------------------------------------
(* doctor.c *)

Doctor(at) == client = "doctor" /\ phase = at

\* The patients come with the numbers 1, 2 and so on; every Sample-th and the first go
\* into the index.
InsertPatient ==
  LET r == nrecs + 1
  IN  /\ Doctor("insert") /\ r \in Record
      /\ Insert(r)
      /\ index' = IF nrecs' % Sample = 0 \/ nrecs = 0
                  THEN Inserted(index, [key |-> r, phys |-> maxrec' - 1]) ELSE index
      /\ UNCHANGED <<client, phase, config, dirty, report, sound>>

\* ensure_index never builds the index: nothing marks it dirty after main made it ready.
IndexReady == ~dirty

\* apply_update: a patient who is not found is taken to be where the number says.
UpdatePatient(pid) ==
  /\ Doctor("update") /\ pid <= nrecs /\ IndexReady
  /\ IF Lookup(pid) # -1 THEN Write(Lookup(pid), pid) ELSE Update(pid - 1, pid)
  /\ UNCHANGED <<client, phase, counts, config, index, dirty, report, sound>>

\* delete_patient: the slot's entry leaves the index, then idx_update_after_delete looks
\* for it.
DeletePatient(pid) ==
  /\ Doctor("delete") /\ IndexReady /\ Lookup(pid) # -1
  /\ Erase(Lookup(pid))
  /\ index' = AfterDelete(Without(index, Lookup(pid)), Lookup(pid))
  /\ UNCHANGED <<client, phase, maxrec, config, dirty, report, sound>>

\* The configuration is saved after the inserts and after the deletes.
NextPhase ==
  /\ client = "doctor"
  /\ \/ phase = "insert" /\ phase' = "update" /\ config' = counts
     \/ phase = "update" /\ phase' = "delete" /\ UNCHANGED config
     \/ phase = "delete" /\ phase' = "lookup" /\ config' = counts
  /\ UNCHANGED <<client, file, counts, index, dirty, report, sound>>

\* A full disk ends the program.
InsertFails ==
  /\ Doctor("insert") /\ phase' = "failed"
  /\ UNCHANGED <<client, file, counts, config, index, dirty, report, sound>>

\* The patients that do_lookups looks up: of the first ten entries and of the last one,
\* and some near them.
Probes ==
  LET last == index[Len(index)].key
      walked == {index[i].key : i \in {j \in 1..Len(index) : j <= 10}}
      near == {k \in {w + Sample \div 2 : w \in walked} : Sample > 1 /\ k <= nrecs}
      tail == {last + 1} \union (IF Sample > 1 THEN {last + Sample - 1} ELSE {})
  IN  IF index = <<>> THEN {1, 5, 12, 25, 128}
      ELSE walked \union {w - 1 : w \in walked \ {1}} \union near
           \union {last} \union {k \in tail : k <= nrecs}

\* do_lookups, lookup_patient: who is not found is reported.
Lookups ==
  /\ Doctor("lookup") /\ IndexReady
  /\ missing' = {pid \in Probes : Lookup(pid) = -1}
  /\ phase' = "readback"
  /\ UNCHANGED <<client, file, counts, config, index, dirty, displayed, sound>>

\* readback: every slot that is not marked is displayed and counted.
ReadBack ==
  /\ Doctor("readback")
  /\ displayed' = Cardinality(ActiveSlots)
  /\ phase' = "success"
  /\ UNCHANGED <<client, file, counts, config, index, dirty, missing, sound>>

-----------------------------------------------------------------------------
(* Any client *)

\* It does not keep the index, but builds it again after a change.
Changes == client = "any" /\ dirty' = TRUE /\ index' = <<>> /\ UNCHANGED <<client, phase, report, sound>>

InsertRecord(r) == Changes /\ Insert(r) /\ UNCHANGED config
UpdateRecord(n, r) == Changes /\ Update(n, r) /\ UNCHANGED <<counts, config>>
DeleteRecord(n) == Changes /\ Delete(n) /\ UNCHANGED <<maxrec, config>>

\* i_cfwr
Save ==
  /\ client = "any" /\ config' = counts
  /\ UNCHANGED <<client, phase, file, counts, index, dirty, report, sound>>

Build ==
  /\ client = "any" /\ dirty
  /\ index' = Built /\ dirty' = FALSE
  /\ UNCHANGED <<client, phase, file, counts, config, report, sound>>

\* The program ends or crashes, and starts again with i_cfrd.
Restart ==
  /\ client = "any"
  /\ nrecs' = config[1] /\ maxrec' = config[2]
  /\ index' = <<>> /\ dirty' = TRUE
  /\ sound' = (sound /\ config = counts)
  /\ UNCHANGED <<client, phase, file, config, report>>

-----------------------------------------------------------------------------
DoctorNext ==
  \/ InsertPatient \/ InsertFails \/ NextPhase \/ Lookups \/ ReadBack
  \/ \E pid \in Record : UpdatePatient(pid) \/ DeletePatient(pid)

AnyNext ==
  \/ Save \/ Build \/ Restart
  \/ \E r \in Record : InsertRecord(r) \/ \E n \in 0..(Slots - 1) : UpdateRecord(n, r)
  \/ \E n \in 0..(Slots - 1) : DeleteRecord(n)

Next == DoctorNext \/ AnyNext

Spec == Init /\ [][Next]_vars

-----------------------------------------------------------------------------
(* Properties *)

TypeOK ==
  /\ client \in Clients /\ phase \in Phases
  /\ file \in Seq(Record \union {Deleted}) /\ Len(file) <= Slots
  /\ nrecs \in Nat /\ maxrec \in Nat /\ config \in Nat \X Nat
  /\ index \in Seq([key : Record, phys : Nat]) /\ Len(index) <= MaxIndex
  /\ missing \subseteq Nat /\ displayed \in Nat
  /\ dirty \in BOOLEAN /\ sound \in BOOLEAN

\* The counts are of the table, unless a restart read old ones; even then they are within
\* the file, so that every slot that is looked at can be read.
CountsInFile ==
  /\ nrecs <= maxrec /\ maxrec <= Len(file)
  /\ config[1] <= config[2] /\ config[2] <= Len(file)
CountsExact == sound => nrecs = Cardinality(ActiveSlots) /\ maxrec = Len(file)
TableOK == TypeOK /\ CountsInFile /\ CountsExact

\* While the keys rise with the slots, a lookup through an index that is kept up to date
\* finds the record of every key, and no other: in doctor.c they do, and the index is,
\* although it is sparse, bounded, and loses its entries as slots are deleted.  What
\* doctor.c reports in the end is true.
Sorted == \A p, q \in ActiveSlots : p < q => Slot(p) < Slot(q)
LookupFinds ==
  /\ client = "doctor" => Sorted
  /\ Sorted /\ ~dirty =>
       \A id \in Record :
         LET slots == {p \in ActiveSlots : Slot(p) = id}
         IN  Lookup(id) = IF slots = {} THEN -1 ELSE First(slots)
  /\ phase = "success" =>
       displayed = nrecs /\ \A p \in ActiveSlots : Slot(p) \notin missing

\* An insert never overwrites a record that can be read, even after a restart with old
\* counts.
InsertSpares ==
  [][nrecs' = nrecs + 1 /\ file' # file =>
       \A phys \in ActiveSlots : file'[phys + 1] = Slot(phys) /\ phys < maxrec']_vars

\* The table is the promised one: its records in the order of their slots.
With(records, r) == IF r # Deleted THEN Append(records, r) ELSE records
Records ==
  LET upto[s \in 0..maxrec] == IF s = 0 THEN <<>> ELSE With(upto[s - 1], file[s])
  IN  upto[maxrec]
Table == INSTANCE IsamTable WITH records <- Records, saved <- (config = counts)
Implements == Table!Spec
=============================================================================
