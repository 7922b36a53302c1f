----------------------------- MODULE IsamTable -----------------------------
(***************************************************************************)
(* What the ISAM library of src/AppSamples/isam promises of a table: the   *)
(* records in the order of their logical numbers.  An insert puts a record *)
(* somewhere among them, an update and a delete are about one of them, and *)
(* a restart leaves them as they are, if the configuration was saved: an   *)
(* update does not need it.  Of what comes after a restart with an old     *)
(* configuration nothing is promised.                                      *)
(***************************************************************************)
EXTENDS Naturals, Sequences, SequencesExt

CONSTANT Record

VARIABLES records,  \* the records in logical order
          saved,    \* the configuration on the disk is the one in use
          sound     \* no restart read an old configuration

vars == <<records, saved, sound>>

Init == records = <<>> /\ saved = TRUE /\ sound = TRUE

Insert == \E r \in Record, n \in 1..(Len(records) + 1) : records' = InsertAt(records, n, r)
Update == \E r \in Record, n \in 1..Len(records) : records' = [records EXCEPT ![n] = r]
Delete == \E n \in 1..Len(records) : records' = RemoveAt(records, n)

Change ==
  /\ \/ (Insert \/ Delete) /\ saved' \in BOOLEAN
     \/ Update /\ UNCHANGED saved
  /\ UNCHANGED sound
Save == saved' = TRUE /\ UNCHANGED <<records, sound>>
RestartOld == ~saved /\ sound' = FALSE

Next == ~sound \/ Change \/ Save \/ RestartOld

Spec == Init /\ [][Next]_vars

=============================================================================
