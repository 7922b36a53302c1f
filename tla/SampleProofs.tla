---------------------------- MODULE SampleProofs ----------------------------
(***************************************************************************)
(* Proofs about the sample programs and what they are built on.            *)
(*   Isam: the table keeps its records and counts, its index finds what is *)
(*   in it, and it implements IsamTable, for every number of slots.        *)
(*   OpenAIStream: the answer to a request comes whole and in order, for   *)
(*   every size of chunk, reader and delta and any number of requests: it  *)
(*   implements StreamCopy; and its callback waits for a reader only.      *)
(*   ChatHistory: the messages and their slots, for every number of them.  *)
(***************************************************************************)
EXTENDS Isam, OpenAIStream, ChatHistory,
        FiniteSetTheorems, WellFoundedInduction, SequenceTheorems, TLAPS

-----------------------------------------------------------------------------
(* Induction *)

\* A set of naturals has a least element.
LEMMA LeastNatural ==
  ASSUME NEW S, S \subseteq Nat, S # {}
  PROVE  \E s \in S : \A t \in S : s <= t
<1> DEFINE R == {ss \in Nat \X Nat : ss[1] < ss[2]}
<1>1. IsWellFoundedOn(R, Nat)
  BY NatLessThanWellFounded DEF OpToRel
<1>2. \A x, y \in Nat : <<x, y>> \in R <=> x < y
  OBVIOUS
<1> HIDE DEF R
<1>3. PICK x \in S : \A y \in S : ~ (<<y, x>> \in R)
  BY <1>1, WFMin
<1>4. ASSUME NEW y \in S PROVE x <= y
  <2>1. x \in Nat /\ y \in Nat
    OBVIOUS
  <2>2. ~ (y < x)
    BY <1>2, <1>3, <2>1
  <2> QED
    BY <2>1, <2>2
<1> QED
  BY <1>4

\* Induction over the naturals, with a set in the place of a predicate.
LEMMA SetInduction ==
  ASSUME NEW T, 0 \in T, \A n \in Nat : n \in T => n + 1 \in T
  PROVE  Nat \subseteq T
<1> SUFFICES ASSUME Nat \ T # {} PROVE FALSE
  OBVIOUS
<1>1. PICK x \in Nat \ T : \A t \in Nat \ T : x <= t
  <2> DEFINE S == Nat \ T
  <2>1. S \subseteq Nat OBVIOUS
  <2> HIDE DEF S
  <2>2. S # {} => \E s \in S : \A t \in S : s <= t
    BY <2>1, LeastNatural
  <2> QED BY <2>2 DEF S
<1>2. x # 0 /\ x - 1 \in Nat
  OBVIOUS
<1>3. x - 1 \in T
  BY <1>1, <1>2
<1> QED
  BY <1>2, <1>3

\* The function f is defined up to N by recursion from b.
Recursion(f, V, b, step, N) ==
  f \in [0..N -> V] /\ f[0] = b /\ \A k \in 1..N : f[k] = step[k][f[k - 1]]

LEMMA RecursionExists ==
  ASSUME NEW V, NEW b \in V, NEW step \in [Nat -> [V -> V]], NEW N \in Nat
  PROVE  \E f : Recursion(f, V, b, step, N)
<1> DEFINE T == {n \in Nat : \E f \in [0..n -> V] :
                   f[0] = b /\ \A k \in 1..n : f[k] = step[k][f[k - 1]]}
<1>1. 0 \in T
  <2> DEFINE f == [k \in 0..0 |-> b]
  <2>1. f \in [0..0 -> V] /\ f[0] = b /\ \A k \in 1..0 : f[k] = step[k][f[k - 1]]
    OBVIOUS
  <2> QED BY <2>1
<1>2. ASSUME NEW n \in Nat, n \in T PROVE n + 1 \in T
  <2>1. PICK f \in [0..n -> V] : f[0] = b /\ \A k \in 1..n : f[k] = step[k][f[k - 1]]
    BY <1>2
  <2> DEFINE g == [k \in 0..(n + 1) |-> IF k = n + 1 THEN step[n + 1][f[n]] ELSE f[k]]
  <2>2. step[n + 1][f[n]] \in V
    OBVIOUS
  <2>3. g \in [0..(n + 1) -> V]
    BY <2>2
  <2>4. g[0] = b /\ \A k \in 0..n : g[k] = f[k]
    BY <2>1
  <2>5. g[n + 1] = step[n + 1][g[n]]
    BY <2>4
  <2>6. ASSUME NEW k \in 1..(n + 1) PROVE g[k] = step[k][g[k - 1]]
    <3>1. CASE k = n + 1
      BY <3>1, <2>5
    <3>2. CASE k \in 1..n
      <4>1. k - 1 \in 0..n /\ k \in 0..n
        BY <3>2
      <4> QED BY <4>1, <3>2, <2>1, <2>4
    <3> QED BY <3>1, <3>2
  <2>7. g[0] = b
    BY <2>4
  <2> HIDE DEF g
  <2>8. n + 1 \in Nat
    OBVIOUS
  <2> QED BY <2>3, <2>6, <2>7, <2>8
<1>3. Nat \subseteq T
  <2> HIDE DEF T
  <2> QED BY <1>1, <1>2, SetInduction
<1> QED
  BY <1>3 DEF Recursion

-----------------------------------------------------------------------------
(* The invariant *)

\* The index, when it is up to date: an entry has the key of an active slot, and the
\* entries come in the order of their slots.
IndexOK ==
  ~dirty =>
    /\ \A i \in 1..Len(index) :
         index[i].phys \in ActiveSlots /\ index[i].key = Slot(index[i].phys)
    /\ \A i, j \in 1..Len(index) : i < j => index[i].phys < index[j].phys

\* In doctor.c the patient with number s is in slot s, counted from 1, or is deleted.
DoctorOK ==
  /\ client = "any" => phase = "insert"
  /\ client = "doctor" =>
       /\ ~dirty /\ sound
       /\ \A s \in 1..Len(file) : file[s] \in {s, Deleted}
       /\ phase \in {"insert", "update"} => nrecs = maxrec

\* What doctor.c reports.
ReportOK ==
  /\ phase \in {"readback", "success"} => \A p \in ActiveSlots : Slot(p) \notin missing
  /\ phase = "success" => displayed = nrecs

IInv == TableOK /\ IndexOK /\ DoctorOK /\ ReportOK

-----------------------------------------------------------------------------
(* Slots and records *)

LEMMA FirstIsLeast ==
  ASSUME NEW S, S \subseteq Nat, S # {}
  PROVE  First(S) \in S /\ \A t \in S : First(S) <= t
BY LeastNatural DEF First

LEMMA PutProperties ==
  ASSUME TypeOK, NEW phys \in Nat, phys <= Len(file), NEW r \in Record \union {Deleted}
  PROVE  /\ Put(phys, r) \in Seq(Record \union {Deleted})
         /\ Len(Put(phys, r)) = IF phys < Len(file) THEN Len(file) ELSE phys + 1
         /\ Put(phys, r)[phys + 1] = r
         /\ \A p \in 0..(Len(file) - 1) : p # phys => Put(phys, r)[p + 1] = file[p + 1]
<1> DEFINE n == IF phys < Len(file) THEN Len(file) ELSE phys + 1
<1>1. n \in Nat /\ phys + 1 \in 1..n /\ Len(file) <= n
  BY DEF TypeOK
<1>2. \A s \in 1..n : (IF s = phys + 1 THEN r ELSE file[s]) \in Record \union {Deleted}
  BY DEF TypeOK
<1>3. Put(phys, r) = [s \in 1..n |-> IF s = phys + 1 THEN r ELSE file[s]]
  BY DEF Put
<1> HIDE DEF n
<1>4. Put(phys, r) \in Seq(Record \union {Deleted}) /\ Len(Put(phys, r)) = n
  BY <1>1, <1>2, <1>3, IsASeq
<1>5. Put(phys, r)[phys + 1] = r
  BY <1>1, <1>3
<1>6. ASSUME NEW p \in 0..(Len(file) - 1), p # phys
      PROVE  Put(phys, r)[p + 1] = file[p + 1]
  <2>1. p + 1 \in 1..n /\ p + 1 # phys + 1
    BY <1>1, <1>6 DEF TypeOK
  <2> QED BY <2>1, <1>3
<1> QED
  BY <1>4, <1>5, <1>6 DEF n

\* The slots in use and the active ones among them.
LEMMA ActiveFinite ==
  ASSUME TypeOK, CountsInFile
  PROVE  /\ ActiveSlots \subseteq Visible /\ Visible \subseteq Nat
         /\ IsFiniteSet(ActiveSlots) /\ IsFiniteSet(Visible)
         /\ Cardinality(Visible) = maxrec
         /\ Cardinality(ActiveSlots) \in Nat /\ Cardinality(ActiveSlots) <= maxrec
         /\ Cardinality(ActiveSlots) = maxrec => ActiveSlots = Visible
<1>1. maxrec \in Nat
  BY DEF TypeOK
<1>2. IsFiniteSet(Visible) /\ Cardinality(Visible) = maxrec
  BY <1>1, FS_Interval DEF Visible
<1>3. ActiveSlots \subseteq Visible /\ Visible \subseteq Nat
  BY <1>1 DEF ActiveSlots, Visible
<1> QED
  BY <1>2, <1>3, FS_Subset, FS_CardinalityType

\* An insert takes a slot that is not active, and the slots in use do not become fewer.
LEMMA InsertStep ==
  ASSUME TypeOK, CountsInFile, NEW r \in Record, Insert(r)
  PROVE  \E phys \in 0..maxrec :
           /\ phys \notin ActiveSlots /\ phys < Slots
           /\ file' = Put(phys, r) /\ nrecs' = nrecs + 1
           /\ \/ phys \in Visible /\ nrecs < maxrec /\ maxrec' = maxrec
              \/ phys = maxrec /\ nrecs = maxrec /\ maxrec' = maxrec + 1
              \/ phys = maxrec /\ nrecs < maxrec /\ maxrec' = maxrec /\ ActiveSlots = Visible
<1> DEFINE Result(phys) ==
             /\ phys \notin ActiveSlots /\ phys < Slots
             /\ file' = Put(phys, r) /\ nrecs' = nrecs + 1
             /\ \/ phys \in Visible /\ nrecs < maxrec /\ maxrec' = maxrec
                \/ phys = maxrec /\ nrecs = maxrec /\ maxrec' = maxrec + 1
                \/ phys = maxrec /\ nrecs < maxrec /\ maxrec' = maxrec
                   /\ ActiveSlots = Visible
<1>0. nrecs \in Nat /\ maxrec \in Nat /\ nrecs <= maxrec
  BY DEF TypeOK, CountsInFile
<1>1. CASE Free # {}
  <2>1. Free \subseteq Visible /\ nrecs < maxrec /\ \A p \in Free : ~Active(p)
    BY <1>1 DEF Free
  <2>2. First(Free) \in Free
    <3>1. Free \subseteq Nat
      BY <1>0, <2>1 DEF Visible
    <3> QED BY <1>1, <3>1, FirstIsLeast
  <2>3. /\ First(Free) < Slots /\ file' = Put(First(Free), r) /\ nrecs' = nrecs + 1
        /\ maxrec' = maxrec
    BY <1>1 DEF Insert
  <2>4. First(Free) \in Visible /\ First(Free) \notin ActiveSlots
    BY <2>1, <2>2 DEF ActiveSlots
  <2>6. First(Free) \in 0..maxrec
    BY <1>0, <2>4 DEF Visible
  <2>5. Result(First(Free))
    BY <2>1, <2>3, <2>4
  <2> QED
    BY <2>5, <2>6
<1>2. CASE Free = {}
  <2>1. /\ maxrec < Slots /\ file' = Put(maxrec, r) /\ nrecs' = nrecs + 1
        /\ maxrec' = IF nrecs + 1 > maxrec THEN nrecs + 1 ELSE maxrec
    BY <1>2 DEF Insert
  <2>2. maxrec \notin ActiveSlots /\ maxrec \in 0..maxrec
    BY <1>0 DEF ActiveSlots, Visible
  <2>3. nrecs < maxrec => ActiveSlots = Visible
    BY <1>2 DEF Free, ActiveSlots
  <2>4. Result(maxrec)
    BY <1>0, <2>1, <2>2, <2>3
  <2> QED
    BY <2>2, <2>4
<1> QED
  BY <1>1, <1>2

\* The slots that are active after a record or the mark was written to one.
LEMMA ActiveAfterPut ==
  ASSUME TypeOK, CountsInFile, Deleted \notin Record,
         NEW phys \in 0..maxrec, NEW r \in Record \union {Deleted},
         file' = Put(phys, r), maxrec' = maxrec \/ (maxrec' = maxrec + 1 /\ phys = maxrec)
  PROVE  /\ file' \in Seq(Record \union {Deleted}) /\ maxrec' \in Nat
         /\ Len(file') = (IF phys < Len(file) THEN Len(file) ELSE phys + 1)
         /\ maxrec' <= Len(file')
         /\ \A p \in Visible : p # phys => Slot(p)' = Slot(p)
         /\ Slot(phys)' = r
         /\ ActiveSlots' = (ActiveSlots \ {phys})
              \union (IF r \in Record /\ phys < maxrec' THEN {phys} ELSE {})
<1>0. /\ maxrec \in Nat /\ maxrec' \in Nat /\ Len(file) \in Nat /\ maxrec <= Len(file)
      /\ phys \in Nat
  BY DEF TypeOK, CountsInFile
<1>p. phys <= Len(file)
  BY <1>0
<1>v. /\ \A p : p \in Visible <=> p \in Nat /\ p < maxrec
      /\ \A p : p \in Visible' <=> p \in Nat /\ p < maxrec'
  BY <1>0 DEF Visible
<1>1. /\ file' \in Seq(Record \union {Deleted})
      /\ Len(file') = (IF phys < Len(file) THEN Len(file) ELSE phys + 1)
      /\ file'[phys + 1] = r
      /\ \A p \in 0..(Len(file) - 1) : p # phys => file'[p + 1] = file[p + 1]
  BY <1>0, <1>p, PutProperties
<1>2. maxrec' <= Len(file')
  BY <1>0, <1>1
<1>3. \A p \in Visible : p # phys => Slot(p)' = Slot(p)
  <2>1. ASSUME NEW p \in Visible, p # phys PROVE Slot(p)' = Slot(p)
    <3>1. p \in 0..(Len(file) - 1)
      BY <1>0, <1>v
    <3> QED BY <1>1, <2>1, <3>1 DEF Slot
  <2> QED BY <2>1
<1>4. Slot(phys)' = r
  BY <1>1 DEF Slot
<1>5. \A p \in Visible' : p \in Visible \/ p = phys
  BY <1>0, <1>v
<1>6. \A p \in Visible : p \in Visible'
  BY <1>0, <1>v
<1>7. ASSUME NEW p
      PROVE  p \in ActiveSlots' <=>
               (p \in ActiveSlots /\ p # phys) \/ (p = phys /\ r \in Record /\ phys < maxrec')
  <2>1. CASE p = phys
    BY <1>0, <1>v, <1>4, <2>1 DEF ActiveSlots, Active
  <2>2. CASE p # phys /\ p \in Visible
    BY <1>3, <1>6, <2>2 DEF ActiveSlots, Active
  <2>3. CASE p # phys /\ p \notin Visible
    BY <1>5, <2>3 DEF ActiveSlots
  <2> QED BY <2>1, <2>2, <2>3
<1>8. ActiveSlots' = (ActiveSlots \ {phys})
              \union (IF r \in Record /\ phys < maxrec' THEN {phys} ELSE {})
  BY <1>7
<1> QED
  BY <1>0, <1>1, <1>2, <1>3, <1>4, <1>8

-----------------------------------------------------------------------------
(* The index *)

EntryType == [key : Record, phys : Nat]

LEMMA SampledType ==
  ASSUME TypeOK, CountsInFile, NEW e \in Seq(EntryType), NEW p \in Visible
  PROVE  Sampled(e, p) \in Seq(EntryType)
<1>1. CASE Active(p)
  <2>1. Slot(p) \in Record /\ p \in Nat
    BY <1>1 DEF TypeOK, CountsInFile, Visible, Slot, Active
  <2>2. Entry(p) \in EntryType
    BY <2>1 DEF Entry, EntryType
  <2> QED BY <2>2 DEF Sampled
<1>2. CASE ~Active(p)
  BY <1>2 DEF Sampled
<1> QED BY <1>1, <1>2

\* What i_idxbld builds is defined.
LEMMA BuiltExists ==
  ASSUME TypeOK, CountsInFile
  PROVE  \E built : /\ Built = built[maxrec]
                    /\ built = [s \in 0..maxrec |->
                                  IF s = 0 THEN <<>> ELSE Sampled(built[s - 1], s - 1)]
<1> DEFINE V == Seq(EntryType)
           empty == <<>>
           step == [k \in Nat |-> [v \in V |-> IF k \in 1..maxrec THEN Sampled(v, k - 1) ELSE v]]
<1>0. maxrec \in Nat
  BY DEF TypeOK
<1>1. ASSUME NEW k \in Nat, NEW v \in V
      PROVE  (IF k \in 1..maxrec THEN Sampled(v, k - 1) ELSE v) \in V
  <2>1. CASE k \in 1..maxrec
    <3>1. k - 1 \in Visible
      BY <1>0, <2>1 DEF Visible
    <3>2. Sampled(v, k - 1) \in V
      BY <3>1, SampledType
    <3> QED BY <2>1, <3>2
  <2> QED BY <2>1
<1>2. step \in [Nat -> [V -> V]]
  BY <1>1
<1>3. empty \in V
  OBVIOUS
<1>4. \A k \in 1..maxrec, v \in V : step[k][v] = Sampled(v, k - 1)
  BY <1>0
<1> HIDE DEF V, step, empty
<1>5. PICK f \in [0..maxrec -> V] : f[0] = empty /\ \A k \in 1..maxrec : f[k] = step[k][f[k - 1]]
  <2>1. \E f : Recursion(f, V, empty, step, maxrec)
    BY <1>0, <1>2, <1>3, RecursionExists, Zenon
  <2> QED BY <2>1 DEF Recursion
<1>6. ASSUME NEW s \in 0..maxrec
      PROVE  f[s] = IF s = 0 THEN <<>> ELSE Sampled(f[s - 1], s - 1)
  <2>1. CASE s = 0
    BY <1>5, <2>1 DEF empty
  <2>2. CASE s # 0
    <3>1. s \in 1..maxrec /\ s - 1 \in 0..maxrec
      BY <1>0, <2>2
    <3> QED BY <1>4, <1>5, <2>2, <3>1
  <2> QED BY <2>1, <2>2
<1>7. f = [s \in 0..maxrec |-> IF s = 0 THEN <<>> ELSE Sampled(f[s - 1], s - 1)]
  BY <1>5, <1>6
<1> DEFINE IsBuilt(g) == g = [s \in 0..maxrec |-> IF s = 0 THEN <<>> ELSE Sampled(g[s - 1], s - 1)]
<1>8. Built = (CHOOSE built : IsBuilt(built))[maxrec]
  BY Zenon DEF Built
<1>9. \E g : IsBuilt(g)
  BY <1>7
<1> HIDE DEF IsBuilt
<1>10. IsBuilt(CHOOSE built : IsBuilt(built))
  BY <1>9
<1> QED
  BY <1>8, <1>10, Zenon DEF IsBuilt

\* An index of active slots below a slot, in their order.
SampledTo(e, n) ==
  /\ e \in Seq(EntryType) /\ Len(e) <= MaxIndex
  /\ \A i \in 1..Len(e) : /\ e[i].phys \in ActiveSlots /\ e[i].phys < n
                          /\ e[i].key = Slot(e[i].phys)
  /\ \A i, j \in 1..Len(e) : i < j => e[i].phys < e[j].phys

LEMMA SampledIn ==
  ASSUME NEW n, NEW e, SampledTo(e, n)
  PROVE  Len(e) \in Nat /\ \A i \in 1..Len(e) : e[i] \in EntryType /\ e[i].phys \in Nat
<1>1. e \in Seq(EntryType)
  BY DEF SampledTo
<1>2. Len(e) \in Nat /\ \A i \in 1..Len(e) : e[i] \in EntryType
  BY <1>1
<1>3. \A x \in EntryType : x.phys \in Nat
  BY DEF EntryType
<1> QED BY <1>2, <1>3

LEMMA SampledMore ==
  ASSUME NEW n \in Nat, NEW m \in Nat, n <= m, NEW e, SampledTo(e, n)
  PROVE  SampledTo(e, m)
<1>1. \A i \in 1..Len(e) : e[i].phys \in Nat /\ e[i].phys < n
  BY SampledIn DEF SampledTo
<1>2. \A i \in 1..Len(e) : e[i].phys < m
  BY <1>1
<1> QED BY <1>2 DEF SampledTo

LEMMA AppendEntry ==
  ASSUME TypeOK, CountsInFile, NEW n \in Nat, NEW e, SampledTo(e, n), Len(e) < MaxIndex,
         NEW p \in ActiveSlots, n <= p, NEW m \in Nat, p < m
  PROVE  SampledTo(Append(e, Entry(p)), m)
<1>1. Entry(p) \in EntryType /\ Entry(p).phys = p /\ Entry(p).key = Slot(p)
  BY DEF TypeOK, CountsInFile, Visible, Slot, Active, ActiveSlots, Entry, EntryType
<1> DEFINE a == Append(e, Entry(p))
<1>2. /\ e \in Seq(EntryType) /\ a \in Seq(EntryType) /\ Len(a) = Len(e) + 1
      /\ Len(e) \in Nat /\ MaxIndex \in Nat
      /\ a[Len(e) + 1] = Entry(p)
      /\ \A i \in 1..Len(e) : a[i] = e[i]
  BY <1>1, IsamAssumption DEF SampledTo
<1>3. /\ \A i \in 1..Len(e) : /\ e[i].phys \in ActiveSlots /\ e[i].phys < n
                              /\ e[i].key = Slot(e[i].phys) /\ e[i].phys \in Nat
      /\ \A i, j \in 1..Len(e) : i < j => e[i].phys < e[j].phys
  BY SampledIn DEF SampledTo
<1>4. p \in Nat
  BY <1>1 DEF EntryType, Entry
<1> HIDE DEF a
<1>5. ASSUME NEW i \in 1..Len(a)
      PROVE  a[i].phys \in ActiveSlots /\ a[i].phys < m /\ a[i].key = Slot(a[i].phys)
  <2>1. CASE i = Len(e) + 1
    BY <1>1, <1>2, <2>1
  <2>2. CASE i \in 1..Len(e)
    BY <1>2, <1>3, <1>4, <2>2
  <2> QED BY <1>2, <2>1, <2>2
<1>6. ASSUME NEW i \in 1..Len(a), NEW j \in 1..Len(a), i < j
      PROVE  a[i].phys < a[j].phys
  <2>1. i \in 1..Len(e)
    BY <1>2, <1>6
  <2>2. CASE j = Len(e) + 1
    BY <1>1, <1>2, <1>3, <1>4, <2>1, <2>2
  <2>3. CASE j \in 1..Len(e)
    BY <1>2, <1>3, <1>6, <2>1, <2>3
  <2> QED BY <1>2, <2>2, <2>3
<1>7. Len(a) <= MaxIndex
  BY <1>2
<1> QED
  BY <1>2, <1>5, <1>6, <1>7 DEF SampledTo, a

\* i_idxbld builds an index of the table.
LEMMA BuiltOK ==
  ASSUME TypeOK, CountsInFile
  PROVE  SampledTo(Built, maxrec)
<1>1. PICK built : /\ Built = built[maxrec]
                   /\ built = [s \in 0..maxrec |->
                                 IF s = 0 THEN <<>> ELSE Sampled(built[s - 1], s - 1)]
  BY BuiltExists
<1> DEFINE T == {n \in Nat : n <= maxrec => SampledTo(built[n], n)}
<1>0. maxrec \in Nat /\ MaxIndex \in Nat
  BY IsamAssumption DEF TypeOK
<1>2. 0 \in T
  <2>1. built[0] = <<>>
    BY <1>0, <1>1
  <2>2. SampledTo(<<>>, 0)
    BY <1>0 DEF SampledTo
  <2> QED BY <2>1, <2>2
<1>3. ASSUME NEW n \in Nat, n \in T PROVE n + 1 \in T
  <2> SUFFICES ASSUME n + 1 <= maxrec PROVE SampledTo(built[n + 1], n + 1)
    OBVIOUS
  <2>1. SampledTo(built[n], n)
    BY <1>0, <1>3
  <2>2. built[n + 1] = Sampled(built[n], n)
    <3>1. n + 1 \in 0..maxrec /\ n + 1 # 0 /\ (n + 1) - 1 = n
      BY <1>0
    <3> QED BY <1>1, <3>1
  <2>3. n \in Visible
    BY <1>0 DEF Visible
  <2>4. CASE Active(n) /\ Len(built[n]) < MaxIndex
    <3>1. n \in ActiveSlots
      BY <2>3, <2>4 DEF ActiveSlots
    <3>2. SampledTo(Append(built[n], Entry(n)), n + 1)
      BY <2>1, <2>4, <3>1, AppendEntry
    <3>3. SampledTo(built[n], n + 1)
      BY <2>1, SampledMore
    <3> QED BY <2>2, <3>2, <3>3 DEF Sampled
  <2>5. CASE ~(Active(n) /\ Len(built[n]) < MaxIndex)
    <3>1. SampledTo(built[n], n + 1)
      BY <2>1, SampledMore
    <3> QED BY <2>2, <2>5, <3>1 DEF Sampled
  <2> QED BY <2>4, <2>5
<1>4. Nat \subseteq T
  <2> HIDE DEF T
  <2> QED BY <1>2, <1>3, SetInduction
<1> QED
  BY <1>0, <1>1, <1>4
\* The keys of the index rise.
KeysRise == \A i, j \in 1..Len(index) : i < j => index[i].key < index[j].key

LEMMA IndexIn ==
  ASSUME TypeOK
  PROVE  /\ Len(index) \in Nat
         /\ \A i \in 1..Len(index) : /\ index[i] \in EntryType
                                     /\ index[i].key \in Record /\ index[i].key \in Nat
                                     /\ index[i].phys \in Nat
<1>1. index \in Seq(EntryType)
  BY DEF TypeOK, EntryType
<1>2. Len(index) \in Nat /\ \A i \in 1..Len(index) : index[i] \in EntryType
  BY <1>1
<1>3. \A x \in EntryType : x.key \in Record /\ x.key \in Nat /\ x.phys \in Nat
  BY IsamAssumption DEF EntryType
<1> QED BY <1>2, <1>3

LEMMA RisingKeys ==
  ASSUME TypeOK, CountsInFile, IndexOK, Sorted, ~dirty
  PROVE  KeysRise
<1> SUFFICES ASSUME NEW i \in 1..Len(index), NEW j \in 1..Len(index), i < j
             PROVE  index[i].key < index[j].key
  BY DEF KeysRise
<1>1. /\ index[i].phys \in ActiveSlots /\ index[i].key = Slot(index[i].phys)
      /\ index[j].phys \in ActiveSlots /\ index[j].key = Slot(index[j].phys)
      /\ index[i].phys < index[j].phys
  BY DEF IndexOK
<1> QED BY <1>1 DEF Sorted

\* What is left to search, after some turns.
Interval == [lo : 1..(Len(index) + 1), hi : 0..Len(index), at : 0..Len(index), left : BOOLEAN]

\* The entries before what is left have smaller keys, those behind it greater ones.
Between(key, s) ==
  /\ s \in Interval /\ s.lo <= s.hi + 1
  /\ \A i \in 1..Len(index) : i < s.lo => index[i].key < key
  /\ \A i \in 1..Len(index) : i > s.hi => key < index[i].key
  /\ s.at # 0 => index[s.at].key = key

LEMMA TurnType ==
  ASSUME TypeOK, NEW key \in Nat, NEW s \in Interval
  PROVE  Turn(key, s) \in Interval
<1> DEFINE mid == (s.lo + s.hi) \div 2
<1>1. s.lo \in 1..(Len(index) + 1) /\ s.hi \in 0..Len(index) /\ Len(index) \in Nat
  BY IndexIn DEF Interval
<1>2. CASE s.lo <= s.hi
  <2>1. mid \in 1..Len(index) /\ mid - 1 \in 0..Len(index) /\ mid + 1 \in 1..(Len(index) + 1)
        /\ mid \in 0..Len(index)
    <3>1. PICK lo \in Nat, hi \in Nat : lo = s.lo /\ hi = s.hi
      BY <1>1
    <3>2. 1 <= lo /\ lo <= hi /\ hi <= Len(index)
      BY <1>1, <1>2, <3>1
    <3>3. (lo + hi) \div 2 \in lo..hi
      BY <3>2
    <3>4. mid \in lo..hi
      BY <3>1, <3>3
    <3> HIDE DEF mid
    <3> QED BY <1>1, <3>2, <3>4
  <2>2. Turn(key, s) \in {s, [s EXCEPT !.at = mid], [s EXCEPT !.hi = mid - 1, !.left = TRUE],
                         [s EXCEPT !.lo = mid + 1, !.left = FALSE]}
    BY Zenon DEF Turn
  <2> HIDE DEF mid
  <2>3. /\ [s EXCEPT !.at = mid] \in Interval
        /\ [s EXCEPT !.hi = mid - 1, !.left = TRUE] \in Interval
        /\ [s EXCEPT !.lo = mid + 1, !.left = FALSE] \in Interval
    BY <2>1 DEF Interval
  <2> QED BY <2>2, <2>3
<1>3. CASE ~(s.lo <= s.hi)
  <2>1. s.lo > s.hi
    BY <1>1, <1>3
  <2> QED BY <2>1 DEF Turn
<1> QED BY <1>2, <1>3

\* A turn keeps the key between the two, and makes what is left smaller.
LEMMA TurnStep ==
  ASSUME TypeOK, KeysRise, NEW key \in Nat, NEW s, Between(key, s)
  PROVE  /\ Between(key, Turn(key, s))
         /\ LET t == Turn(key, s)
            IN  t.at # 0 \/ t.lo > t.hi \/ t.hi - t.lo < s.hi - s.lo
<1> DEFINE mid == (s.lo + s.hi) \div 2
           t == Turn(key, s)
<1>1. /\ s \in Interval /\ s.lo \in 1..(Len(index) + 1) /\ s.hi \in 0..Len(index)
      /\ s.at \in 0..Len(index)
      /\ Len(index) \in Nat /\ \A i \in 1..Len(index) : index[i].key \in Nat
  BY IndexIn DEF Interval, Between
<1>2. CASE s.lo > s.hi \/ s.at # 0
  BY <1>2 DEF Turn
<1>3. CASE s.lo <= s.hi /\ s.at = 0
  <2>1. mid \in s.lo .. s.hi /\ mid \in 1..Len(index)
    BY <1>1, <1>3
  <2>2. ~(s.lo > s.hi \/ s.at # 0)
    BY <1>1, <1>3
  <2>t. t \in Interval
    BY <1>1, TurnType
  <2>3. CASE key = index[mid].key
    <3>1. t = [s EXCEPT !.at = mid]
      BY <2>2, <2>3 DEF Turn
    <3> HIDE DEF t, mid
    <3>2. t.at = mid /\ t.lo = s.lo /\ t.hi = s.hi
      BY <1>1, <3>1 DEF Interval
    <3>3. Between(key, t) /\ t.at # 0
      BY <1>1, <2>1, <2>3, <3>2, <2>t DEF Between
    <3> QED BY <3>3 DEF t
  <2>4. CASE key < index[mid].key
    <3>0. key # index[mid].key
      BY <1>1, <2>1, <2>4
    <3>1. t = [s EXCEPT !.hi = mid - 1, !.left = TRUE]
      BY <2>2, <2>4, <3>0 DEF Turn
    <3>2. mid - 1 < s.hi /\ s.lo <= mid /\ mid \in Nat
      BY <1>1, <2>1
    <3> HIDE DEF t, mid
    <3>3. t.hi = mid - 1 /\ t.lo = s.lo /\ t.at = s.at
      BY <1>1, <3>1 DEF Interval
    <3>4. \A i \in 1..Len(index) : i > mid - 1 => key < index[i].key
      <4> SUFFICES ASSUME NEW i \in 1..Len(index), i > mid - 1 PROVE key < index[i].key
        OBVIOUS
      <4>1. i = mid \/ mid < i
        BY <3>2
      <4>2. mid < i => index[mid].key < index[i].key
        BY <2>1 DEF KeysRise
      <4> QED BY <1>1, <2>1, <2>4, <4>1, <4>2
    <3>5. Between(key, t)
      BY <1>1, <1>3, <3>2, <3>3, <3>4, <2>t DEF Between
    <3>6. t.hi - t.lo < s.hi - s.lo
      BY <1>1, <3>2, <3>3
    <3> QED BY <3>5, <3>6 DEF t
  <2>5. CASE index[mid].key < key
    <3>0. key # index[mid].key /\ ~(key < index[mid].key)
      BY <1>1, <2>1, <2>5
    <3>1. t = [s EXCEPT !.lo = mid + 1, !.left = FALSE]
      BY <2>2, <2>5, <3>0 DEF Turn
    <3>2. s.lo < mid + 1 /\ mid <= s.hi /\ mid \in Nat
      BY <1>1, <2>1
    <3> HIDE DEF t, mid
    <3>3. t.lo = mid + 1 /\ t.hi = s.hi /\ t.at = s.at
      BY <1>1, <3>1 DEF Interval
    <3>4. \A i \in 1..Len(index) : i < mid + 1 => index[i].key < key
      <4> SUFFICES ASSUME NEW i \in 1..Len(index), i < mid + 1 PROVE index[i].key < key
        OBVIOUS
      <4>1. i = mid \/ i < mid
        BY <3>2
      <4>2. i < mid => index[i].key < index[mid].key
        BY <2>1 DEF KeysRise
      <4> QED BY <1>1, <2>1, <2>5, <4>1, <4>2
    <3>5. Between(key, t)
      BY <1>1, <1>3, <3>2, <3>3, <3>4, <2>t DEF Between
    <3>6. t.hi - t.lo < s.hi - s.lo
      BY <1>1, <3>2, <3>3
    <3> QED BY <3>5, <3>6 DEF t
  <2> QED BY <1>1, <2>1, <2>3, <2>4, <2>5
<1> QED BY <1>1, <1>2, <1>3
\* The whole of the index is left before the first turn.
Whole == [lo |-> 1, hi |-> Len(index), at |-> 0, left |-> FALSE]

LEMMA SearchExists ==
  ASSUME TypeOK, NEW key \in Nat
  PROVE  \E turns :
           /\ Search(key) = IF turns[Len(index)].at # 0
                            THEN [at |-> turns[Len(index)].at, left |-> FALSE]
                            ELSE [at |-> turns[Len(index)].lo - 1, left |-> turns[Len(index)].left]
           /\ turns = [n \in 0..Len(index) |-> IF n = 0 THEN Whole ELSE Turn(key, turns[n - 1])]
<1> DEFINE V == Interval
           N == Len(index)
           step == [k \in Nat |-> [v \in V |-> Turn(key, v)]]
<1>0. N \in Nat
  BY IndexIn
<1>1. \A v \in V : Turn(key, v) \in V
  BY TurnType
<1>2. step \in [Nat -> [V -> V]]
  BY <1>1
<1>3. Whole \in V
  BY <1>0 DEF Whole, Interval
<1>4. \A k \in 1..N, v \in V : step[k][v] = Turn(key, v)
  BY <1>0
<1> HIDE DEF V, step, N
<1>5. PICK f : Recursion(f, V, Whole, step, N)
  BY <1>0, <1>2, <1>3, RecursionExists, Zenon
<1>6. f \in [0..N -> V] /\ f[0] = Whole /\ \A k \in 1..N : f[k] = step[k][f[k - 1]]
  BY <1>5 DEF Recursion
<1>7. ASSUME NEW n \in 0..N
      PROVE  f[n] = IF n = 0 THEN Whole ELSE Turn(key, f[n - 1])
  <2>1. CASE n = 0
    BY <1>6, <2>1
  <2>2. CASE n # 0
    <3>1. n \in 1..N /\ n - 1 \in 0..N
      BY <1>0, <2>2
    <3> QED BY <1>4, <1>6, <2>2, <3>1
  <2> QED BY <2>1, <2>2
<1>8. f = [n \in 0..N |-> IF n = 0 THEN Whole ELSE Turn(key, f[n - 1])]
  BY <1>6, <1>7
<1> DEFINE IsTurns(g) == g = [n \in 0..N |-> IF n = 0 THEN Whole ELSE Turn(key, g[n - 1])]
           turns == CHOOSE g : IsTurns(g)
<1>9. Search(key) = IF turns[N].at # 0 THEN [at |-> turns[N].at, left |-> FALSE]
                    ELSE [at |-> turns[N].lo - 1, left |-> turns[N].left]
  BY Zenon DEF Search, N, Whole
<1>10. \E g : IsTurns(g)
  BY <1>8
<1> HIDE DEF IsTurns
<1>11. IsTurns(turns)
  BY <1>10
<1> HIDE DEF turns
<1>12. /\ Search(key) = IF turns[N].at # 0 THEN [at |-> turns[N].at, left |-> FALSE]
                        ELSE [at |-> turns[N].lo - 1, left |-> turns[N].left]
       /\ turns = [n \in 0..N |-> IF n = 0 THEN Whole ELSE Turn(key, turns[n - 1])]
  BY <1>9, <1>11, Zenon DEF IsTurns
<1> QED
  BY <1>12, Zenon DEF N

\* Where the key is in the index, or would be.
LEMMA SearchOK ==
  ASSUME TypeOK, KeysRise, NEW key \in Nat
  PROVE  LET s == Search(key)
         IN  /\ s.at \in 0..Len(index)
             /\ \A i \in 1..Len(index) : i <= s.at => index[i].key <= key
             /\ \A i \in 1..Len(index) : i > s.at => key < index[i].key
<1>1. PICK turns :
           /\ Search(key) = IF turns[Len(index)].at # 0
                            THEN [at |-> turns[Len(index)].at, left |-> FALSE]
                            ELSE [at |-> turns[Len(index)].lo - 1, left |-> turns[Len(index)].left]
           /\ turns = [n \in 0..Len(index) |-> IF n = 0 THEN Whole ELSE Turn(key, turns[n - 1])]
  BY SearchExists
<1> DEFINE N == Len(index)
           Done(s) == s.at # 0 \/ s.lo > s.hi
           T == {n \in Nat : n <= N =>
                   /\ Between(key, turns[n])
                   /\ Done(turns[n]) \/ turns[n].hi - turns[n].lo < N - n}
<1>0. N \in Nat /\ \A i \in 1..N : index[i].key \in Nat
  BY IndexIn
<1>2. 0 \in T
  <2>1. turns[0] = Whole
    BY <1>0, <1>1
  <2>2. Whole \in Interval
    BY <1>0 DEF Whole, Interval
  <2>3. Whole.lo = 1 /\ Whole.hi = N /\ Whole.at = 0
    BY DEF Whole
  <2>4. Between(key, Whole)
    BY <1>0, <2>2, <2>3 DEF Between
  <2> QED BY <1>0, <2>1, <2>3, <2>4
<1>3. ASSUME NEW n \in Nat, n \in T PROVE n + 1 \in T
  <2> SUFFICES ASSUME n + 1 <= N
               PROVE  /\ Between(key, turns[n + 1])
                      /\ Done(turns[n + 1]) \/ turns[n + 1].hi - turns[n + 1].lo < N - (n + 1)
    OBVIOUS
  <2> DEFINE s == turns[n]
             t == Turn(key, s)
  <2>1. Between(key, s) /\ (Done(s) \/ s.hi - s.lo < N - n)
    BY <1>0, <1>3
  <2>2. turns[n + 1] = t
    <3>1. n + 1 \in 0..N /\ n + 1 # 0 /\ (n + 1) - 1 = n
      BY <1>0
    <3> QED BY <1>1, <3>1
  <2>3. Between(key, t) /\ (t.at # 0 \/ t.lo > t.hi \/ t.hi - t.lo < s.hi - s.lo)
    BY <2>1, TurnStep
  <2>4. Done(s) => t = s
    BY DEF Turn
  <2>5. /\ s.hi \in Int /\ s.lo \in Int /\ s.at \in Int
        /\ t.hi \in Int /\ t.lo \in Int /\ t.at \in Int
    BY <1>0, <2>1, <2>3 DEF Between, Interval
  <2> HIDE DEF s, t
  <2>6. CASE Done(s)
    BY <2>2, <2>3, <2>4, <2>6
  <2>7. CASE ~Done(s)
    <3>1. s.hi - s.lo < N - n
      BY <2>1, <2>7
    <3>2. CASE Done(t)
      BY <2>2, <2>3, <3>2
    <3>3. CASE ~Done(t)
      <4>1. t.hi - t.lo < s.hi - s.lo
        BY <2>3, <3>3
      <4>2. t.hi - t.lo < N - (n + 1)
        BY <1>0, <2>5, <3>1, <4>1
      <4> QED BY <2>2, <2>3, <4>2
    <3> QED BY <3>2, <3>3
  <2> QED BY <2>6, <2>7
<1>4. Nat \subseteq T
  <2> HIDE DEF T
  <2> QED BY <1>2, <1>3, SetInduction
<1> DEFINE last == turns[N]
<1>5. Between(key, last) /\ (Done(last) \/ last.hi - last.lo < N - N)
  BY <1>0, <1>4
<1>6. Search(key) = IF last.at # 0 THEN [at |-> last.at, left |-> FALSE]
                    ELSE [at |-> last.lo - 1, left |-> last.left]
  BY <1>1
<1> HIDE DEF last
<1>7. last.lo \in 1..(N + 1) /\ last.hi \in 0..N /\ last.at \in 0..N /\ last.lo <= last.hi + 1
  BY <1>5 DEF Between, Interval
<1>8. CASE last.at # 0
  <2>1. Search(key).at = last.at
    BY <1>6, <1>8
  <2>2. index[last.at].key = key /\ last.at \in 1..N
    BY <1>0, <1>5, <1>7, <1>8 DEF Between
  <2>3. \A i \in 1..N : i < last.at => index[i].key < key
    BY <2>2 DEF KeysRise
  <2>4. \A i \in 1..N : i > last.at => key < index[i].key
    BY <1>0, <2>2 DEF KeysRise
  <2>5. \A i \in 1..N : i <= last.at => index[i].key <= key
    BY <1>0, <2>2, <2>3
  <2> QED BY <1>7, <2>1, <2>4, <2>5
<1>9. CASE last.at = 0
  <2>1. Search(key).at = last.lo - 1
    BY <1>6, <1>9
  <2>2. last.lo = last.hi + 1
    BY <1>0, <1>5, <1>7, <1>9
  <2>3. \A i \in 1..N : i <= last.lo - 1 => index[i].key <= key
    BY <1>0, <1>5, <1>7 DEF Between
  <2>4. \A i \in 1..N : i > last.lo - 1 => key < index[i].key
    BY <1>0, <1>5, <1>7, <2>2 DEF Between
  <2>5. last.lo - 1 \in 0..N
    BY <1>0, <1>7
  <2> QED BY <2>1, <2>3, <2>4, <2>5
<1> QED BY <1>8, <1>9
\* i_idxsrch leaves out no slot of the key.
LEMMA RangeCovers ==
  ASSUME TypeOK, CountsInFile, IndexOK, Sorted, ~dirty, NEW id \in Record
  PROVE  /\ SlotRange(id) \subseteq Visible
         /\ \A p \in ActiveSlots : Slot(p) = id => p \in SlotRange(id)
<1> DEFINE s == Search(id)
           behind == IF s.at = 0 THEN 2 ELSE s.at + 1
           start == IF index = <<>> \/ s.at = 0 \/ (s.left /\ s.at = 1) THEN 0
                    ELSE index[s.at].phys
           end == IF behind <= Len(index) THEN index[behind].phys ELSE maxrec
<1>0. id \in Nat /\ maxrec \in Nat
  BY IsamAssumption DEF TypeOK
<1>1. /\ s.at \in 0..Len(index)
      /\ \A i \in 1..Len(index) : i <= s.at => index[i].key <= id
      /\ \A i \in 1..Len(index) : i > s.at => id < index[i].key
  BY <1>0, RisingKeys, SearchOK
<1>2. SlotRange(id) = start .. (end - 1)
  BY Zenon DEF SlotRange
<1>3. Len(index) \in Nat /\ \A i \in 1..Len(index) : index[i].key \in Nat /\ index[i].phys \in Nat
  BY IndexIn
<1>4. \A i \in 1..Len(index) : index[i].phys \in ActiveSlots /\ index[i].key = Slot(index[i].phys)
  BY DEF IndexOK
<1>5. \A p \in ActiveSlots : p \in Nat /\ p < maxrec
  BY <1>0 DEF ActiveSlots, Visible
<1>6. start = 0 \/ (s.at \in 1..Len(index) /\ start = index[s.at].phys /\ index[s.at].key <= id)
  BY <1>1, <1>3
<1>7. \/ behind \in 1..Len(index) /\ end = index[behind].phys /\ id < index[behind].key
      \/ end = maxrec
  BY <1>1, <1>3
<1> HIDE DEF s, behind, start, end
<1>8. start \in Nat /\ end \in Nat /\ end <= maxrec
  BY <1>0, <1>3, <1>4, <1>5, <1>6, <1>7
<1>9. SlotRange(id) \subseteq Visible
  BY <1>0, <1>2, <1>8 DEF Visible
<1>10. ASSUME NEW p \in ActiveSlots, Slot(p) = id PROVE p \in SlotRange(id)
  <2>0. p \in Nat /\ p < maxrec
    BY <1>5
  <2>1. start <= p
    <3>1. CASE start = 0
      BY <2>0, <3>1
    <3>2. CASE s.at \in 1..Len(index) /\ start = index[s.at].phys /\ index[s.at].key <= id
      <4>1. start \in ActiveSlots /\ Slot(start) <= id /\ Slot(start) \in Nat
        BY <1>3, <1>4, <3>2
      <4>2. p < start => Slot(p) < Slot(start)
        BY <4>1 DEF Sorted
      <4> QED BY <1>0, <1>8, <1>10, <2>0, <4>1, <4>2
    <3> QED BY <1>6, <3>1, <3>2
  <2>2. p < end
    <3>1. CASE behind \in 1..Len(index) /\ end = index[behind].phys /\ id < index[behind].key
      <4>1. end \in ActiveSlots /\ id < Slot(end) /\ Slot(end) \in Nat
        BY <1>3, <1>4, <3>1
      <4>2. end < p => Slot(end) < Slot(p)
        BY <4>1 DEF Sorted
      <4>3. end # p
        BY <1>0, <1>10, <4>1
      <4> QED BY <1>0, <1>8, <1>10, <2>0, <4>1, <4>2, <4>3
    <3>2. CASE end = maxrec
      BY <2>0, <3>2
    <3> QED BY <1>7, <3>1, <3>2
  <2> QED BY <1>2, <1>8, <2>0, <2>1, <2>2
<1> QED BY <1>9, <1>10

\* A lookup through an index that is up to date finds the record of every key.
LEMMA LookupRight ==
  ASSUME TypeOK, CountsInFile, IndexOK, Sorted, ~dirty, NEW id \in Record
  PROVE  LET slots == {p \in ActiveSlots : Slot(p) = id}
         IN  Lookup(id) = IF slots = {} THEN -1 ELSE First(slots)
<1>1. {phys \in SlotRange(id) : Active(phys) /\ Slot(phys) = id}
        = {p \in ActiveSlots : Slot(p) = id}
  BY RangeCovers DEF ActiveSlots
<1> QED BY <1>1, Zenon DEF Lookup

\* The slot that a lookup returns has the key.
LEMMA LookupSlot ==
  ASSUME TypeOK, CountsInFile, IndexOK, Sorted, ~dirty, NEW id \in Record
  PROVE  /\ Lookup(id) # -1 => Lookup(id) \in ActiveSlots /\ Slot(Lookup(id)) = id
         /\ Lookup(id) = -1 => \A p \in ActiveSlots : Slot(p) # id
<1> DEFINE slots == {p \in ActiveSlots : Slot(p) = id}
<1>1. Lookup(id) = IF slots = {} THEN -1 ELSE First(slots)
  BY LookupRight
<1>2. slots \subseteq Nat /\ -1 \notin Nat
  BY ActiveFinite
<1>3. slots # {} => First(slots) \in slots
  <2> HIDE DEF slots
  <2> QED BY <1>2, FirstIsLeast
<1>4. slots # {} => First(slots) # -1
  BY <1>2, <1>3
<1> QED BY <1>1, <1>3, <1>4
-----------------------------------------------------------------------------
(* The table *)

\* What a step leaves of the table: its part of TableOK, with the same history.
TableNext ==
  /\ file' \in Seq(Record \union {Deleted}) /\ Len(file') <= Slots
  /\ nrecs' \in Nat /\ maxrec' \in Nat
  /\ nrecs' <= maxrec' /\ maxrec' <= Len(file') /\ Len(file) <= Len(file')
  /\ sound => nrecs' = Cardinality(ActiveSlots') /\ maxrec' = Len(file')

LEMMA Numbers ==
  ASSUME TypeOK, CountsInFile
  PROVE  /\ nrecs \in Nat /\ maxrec \in Nat /\ Len(file) \in Nat /\ Slots \in Nat
         /\ nrecs <= maxrec /\ maxrec <= Len(file) /\ Len(file) <= Slots
         /\ 0 \notin Record /\ Deleted \notin Record
         /\ \A p : p \in Visible <=> p \in Nat /\ p < maxrec
BY IsamAssumption DEF TypeOK, CountsInFile, Visible

LEMMA InsertTable ==
  ASSUME TableOK, NEW r \in Record, Insert(r)
  PROVE  TableNext
<1>0. TypeOK /\ CountsInFile /\ CountsExact
  BY DEF TableOK
<1>1. PICK phys \in 0..maxrec :
           /\ phys \notin ActiveSlots /\ phys < Slots
           /\ file' = Put(phys, r) /\ nrecs' = nrecs + 1
           /\ \/ phys \in Visible /\ nrecs < maxrec /\ maxrec' = maxrec
              \/ phys = maxrec /\ nrecs = maxrec /\ maxrec' = maxrec + 1
              \/ phys = maxrec /\ nrecs < maxrec /\ maxrec' = maxrec /\ ActiveSlots = Visible
  BY <1>0, InsertStep
<1>2. /\ nrecs \in Nat /\ maxrec \in Nat /\ Len(file) \in Nat /\ Slots \in Nat
      /\ nrecs <= maxrec /\ maxrec <= Len(file) /\ Len(file) <= Slots
      /\ Deleted \notin Record
  BY <1>0, Numbers
<1>3. maxrec' = maxrec \/ (maxrec' = maxrec + 1 /\ phys = maxrec)
  BY <1>1
<1>4. /\ file' \in Seq(Record \union {Deleted}) /\ maxrec' \in Nat
      /\ Len(file') = (IF phys < Len(file) THEN Len(file) ELSE phys + 1)
      /\ maxrec' <= Len(file')
      /\ ActiveSlots' = (ActiveSlots \ {phys})
              \union (IF r \in Record /\ phys < maxrec' THEN {phys} ELSE {})
  BY <1>0, <1>1, <1>2, <1>3, ActiveAfterPut
<1>5. nrecs' \in Nat /\ nrecs' <= maxrec'
  BY <1>1, <1>2
<1>6. Len(file') <= Slots /\ Len(file) <= Len(file')
  BY <1>1, <1>2, <1>4
<1>7. ASSUME sound PROVE nrecs' = Cardinality(ActiveSlots') /\ maxrec' = Len(file')
  <2>1. nrecs = Cardinality(ActiveSlots) /\ maxrec = Len(file) /\ IsFiniteSet(ActiveSlots)
        /\ (Cardinality(ActiveSlots) = maxrec => ActiveSlots = Visible)
        /\ Cardinality(Visible) = maxrec
    BY <1>0, <1>7, ActiveFinite DEF CountsExact
  <2>2. phys < maxrec'
    BY <1>1, <1>2, <2>1 DEF Visible
  <2>3. ActiveSlots' = ActiveSlots \union {phys}
    BY <1>1, <1>4, <2>2
  <2>4. Cardinality(ActiveSlots') = nrecs + 1
    BY <1>1, <2>1, <2>3, FS_AddElement
  <2>5. maxrec' = Len(file')
    BY <1>1, <1>2, <1>4, <2>1 DEF Visible
  <2> QED BY <1>1, <2>4, <2>5
<1> QED BY <1>4, <1>5, <1>6, <1>7 DEF TableNext

LEMMA EraseTable ==
  ASSUME TableOK, NEW phys, Erase(phys), maxrec' = maxrec
  PROVE  /\ TableNext
         /\ ActiveSlots' = ActiveSlots \ {phys}
         /\ phys \in ActiveSlots /\ Len(file') = Len(file)
         /\ \A p \in ActiveSlots' : Slot(p)' = Slot(p)
         /\ \A s \in 1..Len(file) : file'[s] \in {file[s], Deleted}
<1>0. TypeOK /\ CountsInFile /\ CountsExact
  BY DEF TableOK
<1>1. /\ nrecs # 0 /\ phys \in ActiveSlots
      /\ file' = Put(phys, Deleted) /\ nrecs' = nrecs - 1
  BY DEF Erase
<1>2. /\ nrecs \in Nat /\ maxrec \in Nat /\ Len(file) \in Nat /\ Slots \in Nat
      /\ nrecs <= maxrec /\ maxrec <= Len(file) /\ Len(file) <= Slots
      /\ Deleted \notin Record
      /\ \A p : p \in Visible <=> p \in Nat /\ p < maxrec
  BY <1>0, Numbers
<1>3. phys \in 0..maxrec /\ phys < maxrec /\ phys \in Visible
  BY <1>1, <1>2 DEF ActiveSlots
<1>4. /\ file' \in Seq(Record \union {Deleted}) /\ maxrec' \in Nat
      /\ Len(file') = (IF phys < Len(file) THEN Len(file) ELSE phys + 1)
      /\ \A p \in Visible : p # phys => Slot(p)' = Slot(p)
      /\ ActiveSlots' = (ActiveSlots \ {phys})
              \union (IF Deleted \in Record /\ phys < maxrec' THEN {phys} ELSE {})
  BY <1>0, <1>1, <1>2, <1>3, ActiveAfterPut
<1>5. Len(file') = Len(file) /\ ActiveSlots' = ActiveSlots \ {phys}
  BY <1>2, <1>3, <1>4
<1>6. ASSUME sound PROVE nrecs' = Cardinality(ActiveSlots') /\ maxrec' = Len(file')
  <2>1. nrecs = Cardinality(ActiveSlots) /\ maxrec = Len(file) /\ IsFiniteSet(ActiveSlots)
    BY <1>0, <1>6, ActiveFinite DEF CountsExact
  <2>2. Cardinality(ActiveSlots') = nrecs - 1
    BY <1>1, <1>5, <2>1, FS_RemoveElement
  <2> QED BY <1>1, <1>5, <2>1, <2>2
<1>7. TableNext
  BY <1>1, <1>2, <1>4, <1>5, <1>6 DEF TableNext
<1>8. \A p \in ActiveSlots' : Slot(p)' = Slot(p)
  BY <1>4, <1>5 DEF ActiveSlots
<1>9. ASSUME NEW s \in 1..Len(file) PROVE file'[s] \in {file[s], Deleted}
  <2>1. phys \in Nat /\ phys <= Len(file)
    BY <1>2, <1>3
  <2>2. /\ Put(phys, Deleted)[phys + 1] = Deleted
        /\ \A p \in 0..(Len(file) - 1) : p # phys => Put(phys, Deleted)[p + 1] = file[p + 1]
    BY <1>0, <2>1, PutProperties
  <2>3. s - 1 \in 0..(Len(file) - 1) /\ (s - 1) + 1 = s
    BY <1>2
  <2>4. CASE s - 1 = phys
    BY <1>1, <2>2, <2>3, <2>4
  <2>5. CASE s - 1 # phys
    <3>1. Put(phys, Deleted)[(s - 1) + 1] = file[(s - 1) + 1]
      BY <2>2, <2>3, <2>5
    <3> QED BY <1>1, <2>3, <3>1
  <2> QED BY <2>4, <2>5
<1> QED BY <1>1, <1>5, <1>7, <1>8, <1>9

\* A record may take the place of another.
LEMMA WriteTable ==
  ASSUME TableOK, NEW phys \in ActiveSlots, NEW r \in Record, Write(phys, r), UNCHANGED counts
  PROVE  TableNext
<1>0. TypeOK /\ CountsInFile /\ CountsExact
  BY DEF TableOK
<1>1. file' = Put(phys, r) /\ nrecs' = nrecs /\ maxrec' = maxrec
  BY DEF Write, counts
<1>2. /\ nrecs \in Nat /\ maxrec \in Nat /\ Len(file) \in Nat /\ Slots \in Nat
      /\ nrecs <= maxrec /\ maxrec <= Len(file) /\ Len(file) <= Slots
      /\ Deleted \notin Record
      /\ \A p : p \in Visible <=> p \in Nat /\ p < maxrec
  BY <1>0, Numbers
<1>3. phys \in 0..maxrec /\ phys < maxrec
  BY <1>2 DEF ActiveSlots
<1>4. /\ file' \in Seq(Record \union {Deleted}) /\ maxrec' \in Nat
      /\ Len(file') = (IF phys < Len(file) THEN Len(file) ELSE phys + 1)
      /\ ActiveSlots' = (ActiveSlots \ {phys})
              \union (IF r \in Record /\ phys < maxrec' THEN {phys} ELSE {})
  BY <1>0, <1>1, <1>2, <1>3, ActiveAfterPut
<1>5. Len(file') = Len(file) /\ ActiveSlots' = ActiveSlots
  BY <1>1, <1>2, <1>3, <1>4
<1>6. sound => nrecs' = Cardinality(ActiveSlots') /\ maxrec' = Len(file')
  BY <1>0, <1>1, <1>5 DEF CountsExact
<1> HIDE DEF TableOK, CountsExact
<1>7. nrecs' \in Nat /\ nrecs' <= maxrec' /\ maxrec' <= Len(file')
      /\ Len(file') <= Slots /\ Len(file) <= Len(file')
  BY <1>1, <1>2, <1>5
<1> QED BY <1>4, <1>6, <1>7 DEF TableNext
LEMMA TableStep ==
  ASSUME TableOK, TableNext, UNCHANGED <<client, phase, config, report, sound>>,
         index' \in Seq(EntryType), Len(index') <= MaxIndex, dirty' \in BOOLEAN
  PROVE  TableOK'
<1>0. TypeOK /\ CountsInFile
  BY DEF TableOK
<1>1. /\ client' = client /\ phase' = phase /\ config' = config /\ sound' = sound
      /\ missing' = missing /\ displayed' = displayed
  BY DEF report
<1>2. TypeOK'
  BY <1>0, <1>1 DEF TypeOK, TableNext, EntryType
<1>3. config[1] \in Nat /\ config[2] \in Nat /\ Len(file) \in Nat /\ Len(file') \in Nat
      /\ config[1] <= config[2] /\ config[2] <= Len(file) /\ Len(file) <= Len(file')
  BY <1>0 DEF TypeOK, CountsInFile, TableNext
<1>4. CountsInFile'
  <2>1. config'[1] <= config'[2] /\ config'[2] <= Len(file')
    BY <1>1, <1>3
  <2> QED BY <2>1 DEF CountsInFile, TableNext
<1>5. CountsExact'
  BY <1>1 DEF CountsExact, TableNext
<1> QED BY <1>2, <1>4, <1>5 DEF TableOK

\* A new record's key is greater than the keys of the index, and its entry comes last.
LEMMA InsertedLast ==
  ASSUME TypeOK, NEW e \in EntryType, \A i \in 1..Len(index) : index[i].key < e.key
  PROVE  Inserted(index, e) \in {index, Append(index, e)} /\ Len(Inserted(index, e)) <= MaxIndex
<1>1. /\ Len(index) \in Nat /\ index \in Seq(EntryType) /\ Len(index) <= MaxIndex
      /\ MaxIndex \in Nat /\ e.key \in Nat
      /\ \A i \in 1..Len(index) : index[i].key \in Nat
  BY IndexIn, IsamAssumption DEF TypeOK, EntryType
<1> DEFINE after == {i \in 1..Len(index) : index[i].key > e.key}
           at == IF after = {} THEN Len(index) + 1 ELSE First(after)
           longer == [i \in 1..(Len(index) + 1) |->
                        IF i < at THEN index[i] ELSE IF i = at THEN e ELSE index[i - 1]]
<1>2. after = {}
  BY <1>1
<1>3. at = Len(index) + 1
  BY <1>2
<1>4. Inserted(index, e) = IF Len(index) >= MaxIndex THEN index ELSE longer
  BY Zenon DEF Inserted
<1> HIDE DEF after, at
<1>5. longer = Append(index, e)
  <2>1. \A i \in 1..(Len(index) + 1) :
          longer[i] = IF i = Len(index) + 1 THEN e ELSE index[i]
    BY <1>1, <1>3
  <2>2. longer = [i \in 1..(Len(index) + 1) |-> IF i = Len(index) + 1 THEN e ELSE index[i]]
    BY <2>1
  <2> HIDE DEF longer
  <2> DEFINE a == Append(index, e)
  <2>3. /\ a \in Seq(EntryType) /\ Len(a) = Len(index) + 1 /\ a[Len(index) + 1] = e
        /\ \A i \in 1..Len(index) : a[i] = index[i]
    BY <1>1
  <2> HIDE DEF a
  <2>4. a = [i \in 1..(Len(index) + 1) |-> a[i]]
    BY <2>3
  <2>5. \A i \in 1..(Len(index) + 1) : a[i] = IF i = Len(index) + 1 THEN e ELSE index[i]
    BY <1>1, <2>3
  <2>6. a = [i \in 1..(Len(index) + 1) |-> IF i = Len(index) + 1 THEN e ELSE index[i]]
    BY <2>4, <2>5
  <2> QED BY <2>2, <2>6 DEF a
<1> HIDE DEF longer
<1> QED BY <1>1, <1>4, <1>5

\* In doctor.c the keys rise with the slots.
LEMMA DoctorSorted ==
  ASSUME TableOK, DoctorOK, client = "doctor"
  PROVE  Sorted /\ \A p \in ActiveSlots : Slot(p) = p + 1
<1>1. ASSUME NEW p \in ActiveSlots PROVE Slot(p) = p + 1 /\ p \in Nat
  <2>1. p \in Nat /\ p + 1 \in 1..Len(file) /\ Slot(p) # Deleted
    BY Numbers DEF TableOK, ActiveSlots, Active
  <2> QED BY <2>1 DEF DoctorOK, Slot
<1>2. Sorted
  BY <1>1 DEF Sorted
<1> QED BY <1>1, <1>2

LEMMA InsertPatientOK ==
  ASSUME IInv, InsertPatient
  PROVE  IInv'
<1> DEFINE r == nrecs + 1
           e == [key |-> r, phys |-> maxrec' - 1]
<1>0. TableOK /\ TypeOK /\ CountsInFile /\ CountsExact /\ IndexOK /\ DoctorOK /\ ReportOK
  BY DEF IInv, TableOK
<1>1. /\ client = "doctor" /\ phase = "insert" /\ r \in Record /\ Insert(r)
      /\ index' = IF nrecs' % Sample = 0 \/ nrecs = 0 THEN Inserted(index, e) ELSE index
      /\ UNCHANGED <<client, phase, config, dirty, report, sound>>
  BY DEF InsertPatient, Doctor
<1>2. /\ nrecs \in Nat /\ maxrec \in Nat /\ Len(file) \in Nat
      /\ Deleted \notin Record
      /\ \A p : p \in Visible <=> p \in Nat /\ p < maxrec
  BY <1>0, Numbers
<1>t. PICK top \in Nat : top = maxrec
  BY <1>2
<1>3. nrecs = maxrec /\ ~dirty /\ sound /\ maxrec = Len(file)
  BY <1>0, <1>1 DEF DoctorOK, CountsExact
<1>4. /\ file' = Put(top, r) /\ maxrec' = top + 1 /\ nrecs' = nrecs + 1
  BY <1>0, <1>1, <1>2, <1>3, <1>t, InsertStep
<1>5. /\ top \in 0..maxrec /\ r \in Record \union {Deleted}
      /\ maxrec' = maxrec + 1 /\ Deleted \notin Record /\ top < maxrec'
  BY <1>1, <1>2, <1>4, <1>t
<1>6. /\ \A p \in Visible : p # top => Slot(p)' = Slot(p)
      /\ Slot(top)' = r
      /\ Len(file') = top + 1
      /\ ActiveSlots' = (ActiveSlots \ {top}) \union {top}
  <2>1. /\ Len(file') = (IF top < Len(file) THEN Len(file) ELSE top + 1)
        /\ \A p \in Visible : p # top => Slot(p)' = Slot(p)
        /\ Slot(top)' = r
        /\ ActiveSlots' = (ActiveSlots \ {top})
              \union (IF r \in Record /\ top < maxrec' THEN {top} ELSE {})
    <3> HIDE DEF r
    <3> QED BY <1>0, <1>4, <1>5, <1>t, ActiveAfterPut
  <2> QED BY <1>1, <1>3, <1>5, <1>t, <2>1
<1>7. /\ ActiveSlots' = ActiveSlots \union {top} /\ top \notin ActiveSlots
      /\ \A p \in ActiveSlots : Slot(p)' = Slot(p) /\ p < top /\ p \in Nat
  BY <1>1, <1>2, <1>5, <1>6, <1>t DEF ActiveSlots
<1>8. e \in EntryType /\ e.phys = top /\ e.key = r
  BY <1>1, <1>2, <1>4, <1>t DEF EntryType
<1>9. /\ \A i \in 1..Len(index) :
           /\ index[i].phys \in ActiveSlots /\ index[i].key = Slot(index[i].phys)
           /\ index[i].phys < top /\ index[i].phys \in Nat
      /\ \A i, j \in 1..Len(index) : i < j => index[i].phys < index[j].phys
  BY <1>0, <1>3, <1>7 DEF IndexOK
<1>10. \A i \in 1..Len(index) : index[i].key < e.key
  <2>1. \A p \in ActiveSlots : Slot(p) = p + 1
    BY <1>0, <1>1, DoctorSorted
  <2> QED BY <1>2, <1>3, <1>7, <1>8, <1>9, <1>t, <2>1
<1> HIDE DEF e, r
<1>11. index' \in {index, Append(index, e)} /\ Len(index') <= MaxIndex
  <2>1. Inserted(index, e) \in {index, Append(index, e)} /\ Len(Inserted(index, e)) <= MaxIndex
    BY <1>0, <1>8, <1>10, InsertedLast
  <2> QED BY <1>0, <1>1, <2>1 DEF TypeOK
<1>12. index \in Seq(EntryType) /\ index' \in Seq(EntryType) /\ Len(index) \in Nat
  <2>1. index \in Seq(EntryType)
    BY <1>0 DEF TypeOK, EntryType
  <2> QED BY <1>8, <1>11, <2>1
<1>13. TableOK'
  <2>1. TableNext
    BY <1>0, <1>1, InsertTable
  <2>2. dirty' \in BOOLEAN
    BY <1>0, <1>1 DEF TypeOK
  <2> QED BY <1>0, <1>1, <1>11, <1>12, <2>1, <2>2, TableStep
<1>14. IndexOK'
  <2>0. \A p \in ActiveSlots' : Slot(p)' = file'[p + 1]
    BY DEF Slot
  <2>1. CASE index' = index
    <3>1. \A i \in 1..Len(index) :
            index[i].phys \in ActiveSlots' /\ index[i].key = file'[index[i].phys + 1]
      BY <1>7, <1>9, <2>0
    <3> QED BY <1>9, <2>1, <3>1 DEF IndexOK, Slot
  <2>2. CASE index' = Append(index, e)
    <3>1. /\ Len(index') = Len(index) + 1 /\ index'[Len(index) + 1] = e
          /\ \A i \in 1..Len(index) : index'[i] = index[i]
      BY <1>8, <1>12, <2>2
    <3>2. ASSUME NEW i \in 1..Len(index')
          PROVE  index'[i].phys \in ActiveSlots' /\ index'[i].key = file'[index'[i].phys + 1]
      <4>1. CASE i = Len(index) + 1
        BY <1>6, <1>7, <1>8, <2>0, <3>1, <4>1
      <4>2. CASE i \in 1..Len(index)
        BY <1>7, <1>9, <2>0, <3>1, <4>2
      <4> QED BY <1>12, <3>1, <4>1, <4>2
    <3>3. ASSUME NEW i \in 1..Len(index'), NEW j \in 1..Len(index'), i < j
          PROVE  index'[i].phys < index'[j].phys
      <4>1. i \in 1..Len(index)
        BY <1>12, <3>1, <3>3
      <4>2. CASE j = Len(index) + 1
        BY <1>8, <1>9, <3>1, <4>1, <4>2
      <4>3. CASE j \in 1..Len(index)
        BY <1>9, <3>1, <3>3, <4>1, <4>3
      <4> QED BY <1>12, <3>1, <4>2, <4>3
    <3> QED BY <3>2, <3>3 DEF IndexOK, Slot
  <2> QED BY <1>11, <2>1, <2>2
<1>15. DoctorOK'
  <2>1. ASSUME NEW s \in 1..Len(file') PROVE file'[s] \in {s, Deleted}
    <3>1. CASE s = top + 1
      BY <1>3, <1>6, <1>t, <3>1 DEF Slot, r
    <3>2. CASE s \in 1..top
      <4>1. s - 1 \in Visible /\ s - 1 # top /\ (s - 1) + 1 = s
        BY <1>2, <1>t, <3>2
      <4>2. Slot(s - 1)' = Slot(s - 1)
        BY <1>6, <4>1
      <4>3. file'[s] = file[s]
        BY <4>1, <4>2 DEF Slot
      <4> QED BY <1>0, <1>1, <1>3, <1>t, <3>2, <4>3 DEF DoctorOK
    <3> QED BY <1>2, <1>6, <3>1, <3>2
  <2>2. nrecs' = maxrec'
    BY <1>3, <1>4, <1>t
  <2> QED BY <1>0, <1>1, <1>3, <2>1, <2>2 DEF DoctorOK
<1>16. ReportOK'
  BY <1>1 DEF ReportOK
<1> QED BY <1>13, <1>14, <1>15, <1>16 DEF IInv
\* An update by doctor.c writes what is there.
LEMMA UpdatePatientOK ==
  ASSUME IInv, NEW pid \in Record, UpdatePatient(pid)
  PROVE  UNCHANGED vars
<1>0. TableOK /\ TypeOK /\ CountsInFile /\ CountsExact /\ IndexOK /\ DoctorOK
  BY DEF IInv, TableOK
<1>1. /\ client = "doctor" /\ phase = "update" /\ pid <= nrecs /\ ~dirty
      /\ IF Lookup(pid) # -1 THEN Write(Lookup(pid), pid) ELSE Update(pid - 1, pid)
      /\ UNCHANGED <<client, phase, counts, config, index, dirty, report, sound>>
  BY DEF UpdatePatient, Doctor, IndexReady
<1>2. /\ nrecs \in Nat /\ maxrec \in Nat /\ Len(file) \in Nat /\ nrecs <= maxrec
      /\ maxrec <= Len(file)
      /\ 0 \notin Record /\ Deleted \notin Record /\ Record \subseteq Nat
      /\ \A p : p \in Visible <=> p \in Nat /\ p < maxrec
  BY <1>0, Numbers, IsamAssumption
<1>3. Sorted /\ \A p \in ActiveSlots : Slot(p) = p + 1
  BY <1>0, <1>1, DoctorSorted
<1>4. nrecs = maxrec /\ ActiveSlots = Visible
  BY <1>0, <1>1, <1>2, ActiveFinite DEF DoctorOK, CountsExact
<1>5. pid - 1 \in ActiveSlots /\ Slot(pid - 1) = pid
  <2>1. pid - 1 \in ActiveSlots
    BY <1>1, <1>2, <1>4
  <2> QED BY <1>2, <1>3, <2>1
<1>6. Lookup(pid) # -1 /\ Lookup(pid) \in ActiveSlots /\ Slot(Lookup(pid)) = pid
  BY <1>0, <1>1, <1>3, <1>5, LookupSlot
<1>7. PICK phys \in ActiveSlots : phys = Lookup(pid)
  BY <1>6
<1>8. file' = Put(phys, pid) /\ Slot(phys) = pid
  BY <1>1, <1>6, <1>7 DEF Write
<1>9. phys \in Nat /\ phys < Len(file)
  BY <1>2 DEF ActiveSlots
<1>10. file' = file
  <2>1. file = [s \in 1..Len(file) |-> file[s]]
    BY <1>0 DEF TypeOK
  <2>2. \A s \in 1..Len(file) : (IF s = phys + 1 THEN pid ELSE file[s]) = file[s]
    BY <1>8 DEF Slot
  <2>3. file' = [s \in 1..Len(file) |-> IF s = phys + 1 THEN pid ELSE file[s]]
    BY <1>8, <1>9 DEF Put
  <2> QED BY <2>1, <2>2, <2>3
<1> QED BY <1>1, <1>10 DEF vars

\* i_idxdel takes out the one entry of a slot, and idx_update_after_delete finds none.
LEMMA WithoutOne ==
  ASSUME TypeOK, IndexOK, ~dirty, NEW phys
  PROVE  LET w == Without(index, phys)
         IN  /\ w \in Seq(EntryType) /\ Len(w) <= MaxIndex
             /\ \A i \in 1..Len(w) :
                  w[i].phys # phys /\ \E k \in 1..Len(index) : w[i] = index[k]
             /\ \A i, j \in 1..Len(w) : i < j => w[i].phys < w[j].phys
             /\ AfterDelete(w, phys) = w
<1> DEFINE w == Without(index, phys)
           here == EntriesOf(index, phys)
           n == Len(index)
<1>1. /\ n \in Nat /\ index \in Seq(EntryType) /\ n <= MaxIndex
      /\ MaxIndex \in Nat
      /\ \A i \in 1..n : index[i].phys \in Nat /\ index[i] \in EntryType
      /\ \A i, j \in 1..n : i < j => index[i].phys < index[j].phys
  BY IndexIn, IsamAssumption DEF TypeOK, EntryType, IndexOK
<1>2. \A i : i \in here <=> i \in 1..n /\ index[i].phys = phys
  BY DEF EntriesOf
<1>3. CASE here = {}
  <2>1. w = index
    BY <1>3 DEF Without
  <2> QED BY <1>1, <1>2, <1>3, <2>1 DEF AfterDelete
<1>4. CASE here # {}
  <2>1. PICK f \in 1..n : f = First(here) /\ index[f].phys = phys
    <3>1. here \subseteq Nat
      BY <1>2
    <3> HIDE DEF here
    <3>2. First(here) \in here
      BY <1>4, <3>1, FirstIsLeast
    <3> QED BY <1>2, <3>2
  <2>2. w = [i \in 1..(n - 1) |-> IF i < f THEN index[i] ELSE index[i + 1]]
    BY <1>4, <2>1, Zenon DEF Without
  <2>3. n - 1 \in Nat /\ \A i \in 1..(n - 1) : i \in 1..n /\ i + 1 \in 1..n
    BY <1>1, <2>1
  <2>4. \A i \in 1..(n - 1) : (IF i < f THEN index[i] ELSE index[i + 1]) \in EntryType
    BY <1>1, <2>3
  <2> HIDE DEF w, n
  <2>5. w \in Seq(EntryType) /\ Len(w) = n - 1
    BY <2>2, <2>3, <2>4, IsASeq
  <2>6. \A i \in 1..(n - 1) : w[i] = IF i < f THEN index[i] ELSE index[i + 1]
    BY <2>2
  <2>7. ASSUME NEW i \in 1..Len(w)
        PROVE  w[i].phys # phys /\ \E k \in 1..n : w[i] = index[k]
    <3>1. CASE i < f
      <4>1. w[i] = index[i] /\ i \in 1..n /\ index[i].phys < phys
        BY <1>1, <2>1, <2>3, <2>5, <2>6, <3>1
      <4> QED BY <1>1, <2>1, <4>1
    <3>2. CASE ~(i < f)
      <4>1. w[i] = index[i + 1] /\ i + 1 \in 1..n /\ f < i + 1
        BY <1>1, <2>3, <2>5, <2>6, <3>2
      <4>2. phys < index[i + 1].phys
        BY <1>1, <2>1, <4>1
      <4> QED BY <1>1, <2>1, <4>1, <4>2
    <3> QED BY <3>1, <3>2
  <2>8. ASSUME NEW i \in 1..Len(w), NEW j \in 1..Len(w), i < j
        PROVE  w[i].phys < w[j].phys
    <3> DEFINE k == IF i < f THEN i ELSE i + 1
               l == IF j < f THEN j ELSE j + 1
    <3>1. k \in 1..n /\ l \in 1..n /\ k < l
      BY <2>3, <2>5, <2>8
    <3>2. w[i] = index[k] /\ w[j] = index[l]
      BY <2>5, <2>6
    <3> HIDE DEF k, l
    <3> QED BY <1>1, <3>1, <3>2
  <2>9. AfterDelete(w, phys) = w
    BY <2>7 DEF AfterDelete, EntriesOf
  <2>10. Len(w) <= MaxIndex
    BY <1>1, <2>5
  <2> QED BY <2>5, <2>7, <2>8, <2>9, <2>10 DEF w, n
<1> QED BY <1>3, <1>4

LEMMA DeletePatientOK ==
  ASSUME IInv, NEW pid \in Record, DeletePatient(pid)
  PROVE  IInv'
<1>0. TableOK /\ TypeOK /\ CountsInFile /\ CountsExact /\ IndexOK /\ DoctorOK /\ ReportOK
  BY DEF IInv, TableOK
<1>1. /\ client = "doctor" /\ phase = "delete" /\ ~dirty
      /\ Lookup(pid) # -1 /\ Erase(Lookup(pid))
      /\ index' = AfterDelete(Without(index, Lookup(pid)), Lookup(pid))
      /\ UNCHANGED <<client, phase, maxrec, config, dirty, report, sound>>
  BY DEF DeletePatient, Doctor, IndexReady
<1>2. PICK phys : phys = Lookup(pid)
  OBVIOUS
<1>3. /\ TableNext
      /\ ActiveSlots' = ActiveSlots \ {phys} /\ Len(file') = Len(file)
      /\ \A p \in ActiveSlots' : Slot(p)' = Slot(p)
      /\ \A s \in 1..Len(file) : file'[s] \in {file[s], Deleted}
  BY <1>0, <1>1, <1>2, EraseTable
<1>4. /\ index' \in Seq(EntryType) /\ Len(index') <= MaxIndex
      /\ \A i \in 1..Len(index') :
           index'[i].phys # phys /\ \E k \in 1..Len(index) : index'[i] = index[k]
      /\ \A i, j \in 1..Len(index') : i < j => index'[i].phys < index'[j].phys
  <2> DEFINE w == Without(index, phys)
  <2>1. /\ w \in Seq(EntryType) /\ Len(w) <= MaxIndex
        /\ \A i \in 1..Len(w) :
             w[i].phys # phys /\ \E k \in 1..Len(index) : w[i] = index[k]
        /\ \A i, j \in 1..Len(w) : i < j => w[i].phys < w[j].phys
        /\ AfterDelete(w, phys) = w
    BY <1>0, <1>1, WithoutOne
  <2>2. index' = w
    BY <1>1, <1>2, <2>1
  <2> HIDE DEF w
  <2> QED BY <2>1, <2>2
<1>5. TableOK'
  <2>1. dirty' \in BOOLEAN
    BY <1>0, <1>1 DEF TypeOK
  <2> QED BY <1>0, <1>1, <1>3, <1>4, <2>1, TableStep
<1>6. IndexOK'
  <2>1. ASSUME NEW i \in 1..Len(index')
        PROVE  index'[i].phys \in ActiveSlots' /\ index'[i].key = file'[index'[i].phys + 1]
    <3>1. PICK k \in 1..Len(index) : index'[i] = index[k]
      BY <1>4
    <3>2. index[k].phys \in ActiveSlots /\ index[k].key = Slot(index[k].phys)
          /\ index[k].phys # phys
      BY <1>0, <1>1, <1>4, <3>1 DEF IndexOK
    <3>3. PICK p : p = index[k].phys
      OBVIOUS
    <3>4. p \in ActiveSlots' /\ index[k].key = Slot(p)
      BY <1>3, <3>2, <3>3
    <3>5. Slot(p)' = Slot(p)
      BY <1>3, <3>4
    <3> QED BY <3>1, <3>3, <3>4, <3>5 DEF Slot
  <2> QED BY <1>4, <2>1 DEF IndexOK, Slot
<1>7. DoctorOK'
  <2>1. Len(file) \in Nat
    BY <1>0 DEF TypeOK
  <2>2. \A s \in 1..Len(file') : file'[s] \in {s, Deleted}
    BY <1>0, <1>1, <1>3, <2>1 DEF DoctorOK
  <2> QED BY <1>0, <1>1, <2>2 DEF DoctorOK
<1>8. ReportOK'
  BY <1>1 DEF ReportOK
<1> QED BY <1>5, <1>6, <1>7, <1>8 DEF IInv
LEMMA Unchanged ==
  ASSUME IInv, UNCHANGED vars
  PROVE  IInv'
<1>1. /\ client' = client /\ phase' = phase /\ file' = file /\ nrecs' = nrecs
      /\ maxrec' = maxrec /\ config' = config /\ index' = index /\ dirty' = dirty
      /\ missing' = missing /\ displayed' = displayed /\ sound' = sound
  BY DEF vars, counts, report
<1>2. ActiveSlots' = ActiveSlots
  BY <1>1 DEF ActiveSlots, Visible, Active, Slot
<1>3. TableOK'
  BY <1>1, <1>2 DEF IInv, TableOK, TypeOK, CountsInFile, CountsExact
<1>4. IndexOK'
  BY <1>1, <1>2 DEF IInv, IndexOK, Slot
<1>5. DoctorOK'
  BY <1>1 DEF IInv, DoctorOK
<1>6. ReportOK'
  BY <1>1, <1>2 DEF IInv, ReportOK, Slot
<1> QED BY <1>3, <1>4, <1>5, <1>6 DEF IInv

\* The table and the index stay when the program goes on or saves the counts.
LEMMA SameTable ==
  ASSUME IInv, UNCHANGED <<client, file, counts, index, dirty, sound>>,
         config' \in {config, counts}, phase' \in Phases, missing' \subseteq Nat, displayed' \in Nat
  PROVE  TableOK' /\ IndexOK' /\ ActiveSlots' = ActiveSlots
<1>1. /\ client' = client /\ file' = file /\ nrecs' = nrecs /\ maxrec' = maxrec
      /\ index' = index /\ dirty' = dirty /\ sound' = sound
  BY DEF counts
<1>2. ActiveSlots' = ActiveSlots
  BY <1>1 DEF ActiveSlots, Visible, Active, Slot
<1>3. /\ config' \in Nat \X Nat /\ config'[1] <= config'[2] /\ config'[2] <= Len(file)
  BY DEF IInv, TableOK, TypeOK, CountsInFile, counts
<1>4. TableOK'
  BY <1>1, <1>2, <1>3 DEF IInv, TableOK, TypeOK, CountsInFile, CountsExact
<1>5. IndexOK'
  BY <1>1, <1>2 DEF IInv, IndexOK, Slot
<1> QED BY <1>2, <1>4, <1>5

LEMMA ProgramOK ==
  ASSUME IInv, NextPhase \/ InsertFails
  PROVE  IInv'
<1>1. /\ UNCHANGED <<client, file, counts, index, dirty, report, sound>>
      /\ config' \in {config, counts} /\ client = "doctor"
      /\ phase \in {"insert", "update", "delete"}
      /\ phase' \in {"update", "delete", "lookup", "failed"}
      /\ phase' = "update" => phase = "insert"
  BY DEF NextPhase, InsertFails, Doctor
<1>2. phase' \in Phases /\ missing' \subseteq Nat /\ displayed' \in Nat
  BY <1>1 DEF Phases, report, IInv, TableOK, TypeOK
<1>3. TableOK' /\ IndexOK'
  BY <1>1, <1>2, SameTable
<1>4. DoctorOK'
  BY <1>1 DEF IInv, DoctorOK, counts
<1>5. ReportOK'
  BY <1>1 DEF ReportOK
<1> QED BY <1>3, <1>4, <1>5 DEF IInv

\* Who is looked up is a number.
LEMMA ProbesIn ==
  ASSUME TypeOK
  PROVE  Probes \subseteq Nat
<1> DEFINE last == index[Len(index)].key
           walked == {index[i].key : i \in {j \in 1..Len(index) : j <= 10}}
           near == {k \in {w + Sample \div 2 : w \in walked} : Sample > 1 /\ k <= nrecs}
           tail == {last + 1} \union (IF Sample > 1 THEN {last + Sample - 1} ELSE {})
<1>0. /\ Len(index) \in Nat /\ Sample \in Nat \ {0}
      /\ \A i \in 1..Len(index) : index[i].key \in Nat \ {0}
  BY IndexIn, IsamAssumption
<1>1. index = <<>> => Probes \subseteq Nat
  BY DEF Probes
<1>2. CASE index # <<>>
  <2>1. Len(index) \in 1..Len(index)
    BY <1>0, <1>2, EmptySeq DEF TypeOK
  <2>2. last \in Nat /\ last + 1 \in Nat /\ last + Sample - 1 \in Nat
    BY <1>0, <2>1
  <2>3. \A w \in walked : w \in Nat \ {0}
    BY <1>0
  <2>4. Sample \div 2 \in Nat
    BY <1>0
  <2>5. Probes = walked \union {w - 1 : w \in walked \ {1}} \union near
                 \union {last} \union {k \in tail : k <= nrecs}
    BY <1>2, Zenon DEF Probes
  <2> HIDE DEF walked, last
  <2>6. \A w \in walked : w - 1 \in Nat /\ w + Sample \div 2 \in Nat /\ w \in Nat
    BY <2>3, <2>4
  <2>7. near \subseteq Nat
    BY <2>6
  <2>8. {w - 1 : w \in walked \ {1}} \subseteq Nat /\ walked \subseteq Nat
    BY <2>6
  <2>9. tail \subseteq Nat
    BY <2>2
  <2> HIDE DEF near, tail
  <2> QED BY <2>2, <2>5, <2>7, <2>8, <2>9
<1> QED BY <1>1, <1>2

LEMMA LookupsOK ==
  ASSUME IInv, Lookups
  PROVE  IInv'
<1>0. TypeOK /\ CountsInFile /\ IndexOK /\ DoctorOK /\ TableOK
  BY DEF IInv, TableOK
<1>1. /\ client = "doctor" /\ phase = "lookup" /\ ~dirty
      /\ missing' = {pid \in Probes : Lookup(pid) = -1}
      /\ phase' = "readback" /\ client' = client /\ file' = file
      /\ UNCHANGED <<client, file, counts, index, dirty, sound>>
      /\ config' = config /\ displayed' = displayed
  BY DEF Lookups, Doctor, IndexReady
<1>2. missing' \subseteq Nat /\ displayed' \in Nat /\ phase' \in Phases
  BY <1>0, <1>1, ProbesIn DEF TypeOK, Phases
<1>3. TableOK' /\ IndexOK' /\ ActiveSlots' = ActiveSlots
  BY <1>1, <1>2, SameTable
<1>4. DoctorOK'
  BY <1>0, <1>1 DEF DoctorOK, counts
<1>5. ASSUME NEW p \in ActiveSlots PROVE Slot(p) \notin missing'
  <2>1. Slot(p) \in Record
    BY <1>0, Numbers DEF ActiveSlots, Active, Slot, TypeOK
  <2>2. Sorted
    BY <1>0, <1>1, DoctorSorted
  <2>3. Lookup(Slot(p)) # -1
    BY <1>0, <1>1, <2>1, <2>2, LookupSlot
  <2> QED BY <1>1, <2>3
<1>6. ReportOK'
  BY <1>1, <1>3, <1>5 DEF ReportOK, Slot
<1> QED BY <1>3, <1>4, <1>6 DEF IInv

LEMMA ReadBackOK ==
  ASSUME IInv, ReadBack
  PROVE  IInv'
<1>0. TypeOK /\ CountsInFile /\ DoctorOK /\ CountsExact /\ ReportOK
  BY DEF IInv, TableOK
<1>1. /\ client = "doctor" /\ phase = "readback" /\ displayed' = Cardinality(ActiveSlots)
      /\ phase' = "success" /\ client' = client /\ file' = file
      /\ UNCHANGED <<client, file, counts, index, dirty, sound>>
      /\ config' = config /\ missing' = missing
  BY DEF ReadBack, Doctor
<1>2. missing' \subseteq Nat /\ displayed' \in Nat /\ phase' \in Phases
  BY <1>0, <1>1, ActiveFinite DEF TypeOK, Phases
<1>3. TableOK' /\ IndexOK' /\ ActiveSlots' = ActiveSlots
  BY <1>1, <1>2, SameTable
<1>4. DoctorOK'
  BY <1>0, <1>1 DEF DoctorOK, counts
<1>5. displayed' = nrecs'
  BY <1>0, <1>1 DEF DoctorOK, CountsExact, counts
<1>6. ReportOK'
  BY <1>0, <1>1, <1>3, <1>5 DEF ReportOK, Slot
<1> QED BY <1>3, <1>4, <1>6 DEF IInv

\* A change by a program that does not keep the index.
LEMMA ChangesOK ==
  ASSUME IInv, Changes, TableNext, config' = config
  PROVE  IInv'
<1>0. TableOK /\ TypeOK /\ DoctorOK
  BY DEF IInv, TableOK
<1>1. /\ client = "any" /\ dirty' = TRUE /\ index' = <<>>
      /\ UNCHANGED <<client, phase, report, sound>>
  BY DEF Changes
<1>2. index' \in Seq(EntryType) /\ Len(index') <= MaxIndex /\ dirty' \in BOOLEAN
  BY <1>1, IsamAssumption
<1>3. TableOK'
  BY <1>0, <1>1, <1>2, TableStep
<1>4. IndexOK'
  BY <1>1 DEF IndexOK
<1>5. phase' = "insert" /\ client' = "any"
  BY <1>0, <1>1 DEF DoctorOK
<1> QED BY <1>3, <1>4, <1>5 DEF IInv, DoctorOK, ReportOK

LEMMA InsertRecordOK ==
  ASSUME IInv, NEW r \in Record, InsertRecord(r)
  PROVE  IInv'
<1>1. Changes /\ Insert(r) /\ config' = config
  BY DEF InsertRecord
<1>2. TableNext
  BY <1>1, InsertTable DEF IInv
<1> QED BY <1>1, <1>2, ChangesOK

LEMMA UpdateRecordOK ==
  ASSUME IInv, NEW n \in Nat, NEW r \in Record, UpdateRecord(n, r)
  PROVE  IInv'
<1>1. Changes /\ UNCHANGED counts /\ config' = config
  BY DEF UpdateRecord
<1>2. PICK phys \in LogicalSlots(n) : Write(phys, r)
  BY DEF UpdateRecord, Update
<1>3. phys \in ActiveSlots
  BY <1>2 DEF LogicalSlots, IsLogical, ActiveSlots
<1>4. TableNext
  BY <1>1, <1>2, <1>3, WriteTable DEF IInv
<1> QED BY <1>1, <1>4, ChangesOK

LEMMA DeleteRecordOK ==
  ASSUME IInv, NEW n \in Nat, DeleteRecord(n)
  PROVE  IInv'
<1>1. Changes /\ maxrec' = maxrec /\ config' = config
  BY DEF DeleteRecord
<1>2. PICK phys : Erase(phys)
  BY DEF DeleteRecord, Delete
<1>3. TableNext
  BY <1>1, <1>2, EraseTable DEF IInv
<1> QED BY <1>1, <1>3, ChangesOK

LEMMA SaveOK ==
  ASSUME IInv, Save
  PROVE  IInv'
<1>1. /\ UNCHANGED <<client, file, counts, index, dirty, sound>>
      /\ client = "any" /\ config' = counts /\ phase' = phase /\ UNCHANGED report
      /\ client' = client
  BY DEF Save
<1>2. phase' \in Phases /\ missing' \subseteq Nat /\ displayed' \in Nat
  BY <1>1 DEF IInv, TableOK, TypeOK, report
<1>3. TableOK' /\ IndexOK'
  BY <1>1, <1>2, SameTable
<1>4. phase' = "insert" /\ client' = "any"
  BY <1>1 DEF IInv, DoctorOK
<1> QED BY <1>3, <1>4 DEF IInv, DoctorOK, ReportOK

LEMMA BuildOK ==
  ASSUME IInv, Build
  PROVE  IInv'
<1>0. TypeOK /\ CountsInFile /\ CountsExact /\ DoctorOK
  BY DEF IInv, TableOK
<1>1. /\ client = "any" /\ index' = Built /\ dirty' = FALSE
      /\ client' = client /\ phase' = phase /\ file' = file /\ nrecs' = nrecs
      /\ maxrec' = maxrec /\ config' = config
      /\ missing' = missing /\ displayed' = displayed /\ sound' = sound
  BY DEF Build, counts, report
<1>2. ActiveSlots' = ActiveSlots
  BY <1>1 DEF ActiveSlots, Visible, Active, Slot
<1>3. SampledTo(index', maxrec)
  BY <1>0, <1>1, BuiltOK
<1>4. TableOK'
  BY <1>0, <1>1, <1>2, <1>3 DEF TableOK, TypeOK, CountsInFile, CountsExact, SampledTo, EntryType
<1>5. IndexOK'
  BY <1>1, <1>2, <1>3 DEF IndexOK, SampledTo, Slot
<1>6. phase' = "insert" /\ client' = "any"
  BY <1>0, <1>1 DEF DoctorOK
<1> QED BY <1>4, <1>5, <1>6 DEF IInv, DoctorOK, ReportOK

LEMMA RestartOK ==
  ASSUME IInv, Restart
  PROVE  IInv'
<1>0. TypeOK /\ CountsInFile /\ CountsExact /\ DoctorOK
  BY DEF IInv, TableOK
<1>1. /\ client = "any" /\ index' = <<>> /\ dirty' = TRUE
      /\ client' = client /\ phase' = phase /\ file' = file
      /\ nrecs' = config[1] /\ maxrec' = config[2] /\ config' = config
      /\ missing' = missing /\ displayed' = displayed
      /\ sound' = (sound /\ config = counts)
  BY DEF Restart, report
<1>2. TypeOK'
  BY <1>0, <1>1, IsamAssumption DEF TypeOK
<1>3. CountsInFile'
  BY <1>0, <1>1 DEF CountsInFile
<1>4. CountsExact'
  <2> SUFFICES ASSUME sound' PROVE nrecs' = Cardinality(ActiveSlots') /\ maxrec' = Len(file')
    BY DEF CountsExact
  <2>0. sound /\ config = <<nrecs, maxrec>>
    BY Zenon, <1>1 DEF counts
  <2>1. sound /\ nrecs' = nrecs /\ maxrec' = maxrec
    BY <1>1, <2>0
  <2>2. ActiveSlots' = ActiveSlots
    BY <1>1, <2>1 DEF ActiveSlots, Visible, Active, Slot
  <2> QED BY <1>0, <1>1, <2>1, <2>2 DEF CountsExact
<1>5. IndexOK'
  BY <1>1 DEF IndexOK
<1>6. phase' = "insert" /\ client' = "any"
  BY <1>0, <1>1 DEF DoctorOK
<1> QED BY <1>2, <1>3, <1>4, <1>5, <1>6 DEF IInv, TableOK, DoctorOK, ReportOK

LEMMA InitOK == Init => IInv
<1> SUFFICES ASSUME Init PROVE IInv
  OBVIOUS
<1>1. /\ client \in Clients /\ phase = "insert" /\ file = <<>> /\ nrecs = 0 /\ maxrec = 0
      /\ config = <<0, 0>> /\ index = <<>> /\ dirty = (client = "any")
      /\ missing = {} /\ displayed = 0 /\ sound = TRUE
  BY DEF Init, Empty
<1>2. ActiveSlots = {}
  BY <1>1 DEF ActiveSlots, Visible
<1>3. TypeOK
  BY <1>1, IsamAssumption DEF TypeOK, Phases
<1>4. CountsInFile /\ CountsExact
  BY <1>1, <1>2, FS_EmptySet DEF CountsInFile, CountsExact
<1>5. IndexOK
  BY <1>1 DEF IndexOK
<1>6. DoctorOK
  <2>1. client = "doctor" => ~dirty
    <3>1. client = "doctor" => client # "any"
      OBVIOUS
    <3> QED BY <1>1, <3>1, Zenon
  <2>2. sound
    BY <1>1, Zenon
  <2>3. (\A s \in 1..Len(file) : file[s] \in {s, Deleted}) /\ nrecs = maxrec
    BY <1>1
  <2> QED BY <1>1, <2>1, <2>2, <2>3, Zenon DEF DoctorOK
<1>7. ReportOK
  BY <1>1 DEF ReportOK
<1> QED BY <1>3, <1>4, <1>5, <1>6, <1>7 DEF IInv, TableOK

LEMMA NextOK == IInv /\ [Next]_vars => IInv'
<1> SUFFICES ASSUME IInv, [Next]_vars PROVE IInv'
  OBVIOUS
<1>1. CASE InsertPatient
  BY <1>1, InsertPatientOK
<1>2. CASE InsertFails \/ NextPhase
  BY <1>2, ProgramOK
<1>3. CASE Lookups
  BY <1>3, LookupsOK
<1>4. CASE ReadBack
  BY <1>4, ReadBackOK
<1>5. ASSUME NEW pid \in Record, UpdatePatient(pid) PROVE IInv'
  BY <1>5, UpdatePatientOK, Unchanged
<1>6. ASSUME NEW pid \in Record, DeletePatient(pid) PROVE IInv'
  BY <1>6, DeletePatientOK
<1>7. CASE Save
  BY <1>7, SaveOK
<1>8. CASE Build
  BY <1>8, BuildOK
<1>9. CASE Restart
  BY <1>9, RestartOK
<1>s. 0..(Slots - 1) \subseteq Nat
  BY IsamAssumption
<1>10. ASSUME NEW r \in Record, InsertRecord(r) PROVE IInv'
  BY <1>10, InsertRecordOK
<1>11. ASSUME NEW r \in Record, NEW n \in 0..(Slots - 1), UpdateRecord(n, r) PROVE IInv'
  BY <1>s, <1>11, UpdateRecordOK
<1>12. ASSUME NEW n \in 0..(Slots - 1), DeleteRecord(n) PROVE IInv'
  BY <1>s, <1>12, DeleteRecordOK
<1>13. CASE UNCHANGED vars
  BY <1>13, Unchanged
<1> QED
  BY <1>1, <1>2, <1>3, <1>4, <1>5, <1>6, <1>7, <1>8, <1>9, <1>10, <1>11, <1>12, <1>13
  DEF Next, DoctorNext, AnyNext

LEMMA Inductive == Spec => []IInv
BY InitOK, NextOK, PTL DEF Spec

\* The counts of a table are those of its file, as far as they were saved, and every slot
\* that they name can be read.
THEOREM TableKept == Spec => []TableOK
BY Inductive, PTL DEF IInv

LEMMA LookupFollows == IInv => LookupFinds
<1> SUFFICES ASSUME IInv PROVE LookupFinds
  OBVIOUS
<1>0. TableOK /\ TypeOK /\ CountsInFile /\ IndexOK /\ DoctorOK /\ ReportOK
  BY DEF IInv, TableOK
<1>1. client = "doctor" => Sorted
  BY <1>0, DoctorSorted
<1>2. phase = "success" => displayed = nrecs /\ \A p \in ActiveSlots : Slot(p) \notin missing
  BY <1>0 DEF ReportOK
<1>3. Sorted /\ ~dirty =>
        \A id \in Record :
          LET slots == {p \in ActiveSlots : Slot(p) = id}
          IN  Lookup(id) = IF slots = {} THEN -1 ELSE First(slots)
  BY <1>0, LookupRight
<1> QED BY <1>1, <1>2, <1>3, Zenon DEF LookupFinds

\* Through an index that is up to date a lookup finds the record of every key, in doctor.c
\* at all times; what doctor.c reports in the end is true.
THEOREM LookupsFind == Spec => []LookupFinds
BY Inductive, LookupFollows, PTL

\* An insert leaves every record that can be read where it is.
THEOREM InsertsSpare == Spec => InsertSpares
<1> DEFINE A == nrecs' = nrecs + 1 /\ file' # file =>
                  \A phys \in ActiveSlots : file'[phys + 1] = Slot(phys) /\ phys < maxrec'
<1>1. ASSUME IInv, NEW r \in Record, Insert(r) PROVE A
  <2>0. TypeOK /\ CountsInFile
    BY <1>1 DEF IInv, TableOK
  <2>1. PICK phys \in 0..maxrec :
           /\ phys \notin ActiveSlots /\ phys < Slots
           /\ file' = Put(phys, r) /\ nrecs' = nrecs + 1
           /\ \/ phys \in Visible /\ nrecs < maxrec /\ maxrec' = maxrec
              \/ phys = maxrec /\ nrecs = maxrec /\ maxrec' = maxrec + 1
              \/ phys = maxrec /\ nrecs < maxrec /\ maxrec' = maxrec /\ ActiveSlots = Visible
    BY <1>1, <2>0, InsertStep
  <2>2. /\ maxrec \in Nat /\ Deleted \notin Record
        /\ \A p : p \in Visible <=> p \in Nat /\ p < maxrec
    BY <2>0, Numbers
  <2>3. maxrec' = maxrec \/ (maxrec' = maxrec + 1 /\ phys = maxrec)
    BY <2>1
  <2>4. \A p \in Visible : p # phys => Slot(p)' = Slot(p)
    BY <2>0, <2>1, <2>2, <2>3, ActiveAfterPut
  <2>5. ASSUME NEW p \in ActiveSlots PROVE file'[p + 1] = Slot(p) /\ p < maxrec'
    <3>1. p \in Visible /\ p # phys /\ p \in Nat /\ p < maxrec
      BY <2>1, <2>2 DEF ActiveSlots
    <3>2. Slot(p)' = Slot(p)
      BY <2>4, <3>1
    <3>3. p < maxrec'
      BY <2>2, <2>3, <3>1
    <3> QED BY <3>2, <3>3 DEF Slot
  <2> QED BY <2>5
<1>2. ASSUME IInv, [Next]_vars, nrecs' = nrecs + 1, file' # file
      PROVE  \E r \in Record : Insert(r)
  <2>0. nrecs \in Nat
    BY <1>2 DEF IInv, TableOK, TypeOK
  <2>1. \A phys : ~Erase(phys)
    BY <1>2, <2>0 DEF Erase
  <2>2. ~Restart /\ ~Build /\ ~Save /\ ~Lookups /\ ~ReadBack /\ ~NextPhase /\ ~InsertFails
        /\ ~UNCHANGED vars
    BY <1>2 DEF Restart, Build, Save, Lookups, ReadBack, NextPhase, InsertFails, vars
  <2>3. ~UNCHANGED counts
    BY <1>2, <2>0 DEF counts
  <2>4. CASE InsertPatient
    BY <2>4 DEF InsertPatient
  <2>5. \A pid : ~UpdatePatient(pid) /\ ~DeletePatient(pid)
    BY <2>1, <2>3 DEF UpdatePatient, DeletePatient
  <2>6. \A n, r : ~UpdateRecord(n, r) /\ ~DeleteRecord(n)
    BY <2>1, <2>3 DEF UpdateRecord, DeleteRecord, Delete
  <2>7. CASE \E r \in Record : InsertRecord(r)
    BY <2>7 DEF InsertRecord
  <2> QED
    BY <1>2, <2>2, <2>4, <2>5, <2>6, <2>7 DEF Next, DoctorNext, AnyNext
<1>3. IInv /\ [Next]_vars => [A]_vars
  BY <1>1, <1>2
<1> QED
  BY Inductive, <1>3, PTL DEF Spec, InsertSpares
-----------------------------------------------------------------------------
(* The table implements the promised one *)

\* Sequences as functions.
LEMMA SeqFunction ==
  ASSUME NEW S, NEW t \in Seq(S)
  PROVE  /\ Len(t) \in Nat /\ t = [j \in 1..Len(t) |-> t[j]]
         /\ \A j \in 1..Len(t) : t[j] \in S
OBVIOUS

LEMMA AppendFunction ==
  ASSUME NEW S, NEW t \in Seq(S), NEW x \in S
  PROVE  /\ Append(t, x) \in Seq(S) /\ Len(Append(t, x)) = Len(t) + 1
         /\ Append(t, x) = [j \in 1..(Len(t) + 1) |-> IF j = Len(t) + 1 THEN x ELSE t[j]]
<1> DEFINE a == Append(t, x)
<1>1. /\ a \in Seq(S) /\ Len(a) = Len(t) + 1 /\ Len(t) \in Nat
      /\ a[Len(t) + 1] = x /\ \A j \in 1..Len(t) : a[j] = t[j]
  OBVIOUS
<1> HIDE DEF a
<1>2. a = [j \in 1..(Len(t) + 1) |-> a[j]]
  BY <1>1
<1>3. \A j \in 1..(Len(t) + 1) : a[j] = IF j = Len(t) + 1 THEN x ELSE t[j]
  BY <1>1
<1>4. a = [j \in 1..(Len(t) + 1) |-> IF j = Len(t) + 1 THEN x ELSE t[j]]
  BY <1>2, <1>3
<1> QED BY <1>1, <1>4 DEF a

LEMMA InsertAtFunction ==
  ASSUME NEW S, NEW t \in Seq(S), NEW x \in S, NEW p \in 1..(Len(t) + 1)
  PROVE  Table!InsertAt(t, p, x)
           = [j \in 1..(Len(t) + 1) |-> IF j < p THEN t[j] ELSE IF j = p THEN x ELSE t[j - 1]]
<1> DEFINE b == SubSeq(t, 1, p - 1)
           m == <<x>>
           c == SubSeq(t, p, Len(t))
           u == b \o m
           d == u \o c
<1>0. Len(t) \in Nat /\ p \in Nat /\ p >= 1
  OBVIOUS
<1>1. b \in Seq(S) /\ Len(b) = p - 1 /\ \A j \in 1..(p - 1) : b[j] = t[j]
  BY <1>0, SubSeqProperties
<1>2. m \in Seq(S) /\ Len(m) = 1 /\ m[1] = x
  OBVIOUS
<1>3. c \in Seq(S) /\ Len(c) = Len(t) - p + 1 /\ \A j \in 1..(Len(t) - p + 1) : c[j] = t[p + j - 1]
  BY <1>0, SubSeqProperties
<1> HIDE DEF b, m, c
<1>3a. /\ u \in Seq(S) /\ Len(u) = Len(b) + Len(m)
       /\ \A j \in 1..(Len(b) + Len(m)) : u[j] = IF j <= Len(b) THEN b[j] ELSE m[j - Len(b)]
  BY <1>1, <1>2, ConcatProperties
<1> HIDE DEF u
<1>4. /\ u \in Seq(S) /\ Len(u) = p
      /\ \A j \in 1..p : u[j] = IF j < p THEN t[j] ELSE x
  <2>2. \A j \in 1..p : u[j] = IF j <= p - 1 THEN b[j] ELSE m[j - (p - 1)]
    BY <1>0, <1>1, <1>2, <1>3a
  <2>3. ASSUME NEW j \in 1..p PROVE u[j] = IF j < p THEN t[j] ELSE x
    <3>1. CASE j < p
      BY <1>0, <1>1, <2>2, <3>1
    <3>2. CASE j = p
      <4>1. j - (p - 1) = 1
        BY <1>0, <3>2
      <4> QED BY <1>0, <1>2, <2>2, <3>2, <4>1
    <3> QED BY <1>0, <3>1, <3>2
  <2> QED BY <1>0, <1>1, <1>2, <1>3a, <2>3
<1>5. /\ d \in Seq(S) /\ Len(d) = Len(t) + 1
      /\ \A j \in 1..(Len(t) + 1) : d[j] = IF j <= p THEN u[j] ELSE c[j - p]
  <2>1. /\ d \in Seq(S) /\ Len(d) = Len(u) + Len(c)
        /\ \A j \in 1..(Len(u) + Len(c)) :
             d[j] = IF j <= Len(u) THEN u[j] ELSE c[j - Len(u)]
    BY <1>3, <1>4, ConcatProperties
  <2> HIDE DEF d
  <2>2. Len(u) + Len(c) = Len(t) + 1
    BY <1>0, <1>3, <1>4
  <2> QED BY <1>4, <2>1, <2>2
<1>6. ASSUME NEW j \in 1..(Len(t) + 1)
      PROVE  d[j] = IF j < p THEN t[j] ELSE IF j = p THEN x ELSE t[j - 1]
  <2> HIDE DEF d
  <2>1. CASE j <= p
    <3>1. j \in 1..p /\ d[j] = u[j]
      BY <1>0, <1>5, <2>1
    <3> QED BY <1>0, <1>4, <2>1, <3>1
  <2>2. CASE j > p
    <3>1. j - p \in 1..(Len(t) - p + 1) /\ p + (j - p) - 1 = j - 1
      BY <1>0, <2>2
    <3>2. c[j - p] = t[j - 1]
      BY <1>3, <3>1
    <3>3. d[j] = c[j - p]
      BY <1>0, <1>5, <2>2
    <3>4. ~(j < p) /\ j # p
      BY <1>0, <2>2
    <3> QED BY <3>2, <3>3, <3>4
  <2> QED BY <1>0, <2>1, <2>2
<1>7. d = [j \in 1..(Len(t) + 1) |-> d[j]]
  <2> HIDE DEF d
  <2> QED BY <1>5
<1>8. d = [j \in 1..(Len(t) + 1) |-> IF j < p THEN t[j] ELSE IF j = p THEN x ELSE t[j - 1]]
  <2> HIDE DEF d
  <2> QED BY <1>6, <1>7
<1>9. Table!InsertAt(t, p, x) = d
  BY DEF Table!InsertAt, u, b, m, c
<1> QED BY <1>8, <1>9

LEMMA RemoveAtFunction ==
  ASSUME NEW S, NEW t \in Seq(S), NEW p \in 1..Len(t)
  PROVE  Table!RemoveAt(t, p) = [j \in 1..(Len(t) - 1) |-> IF j < p THEN t[j] ELSE t[j + 1]]
<1> DEFINE b == SubSeq(t, 1, p - 1)
           c == SubSeq(t, p + 1, Len(t))
           d == b \o c
<1>0. Len(t) \in Nat /\ p \in Nat /\ p >= 1 /\ p <= Len(t)
  OBVIOUS
<1>1. b \in Seq(S) /\ Len(b) = p - 1 /\ \A j \in 1..(p - 1) : b[j] = t[j]
  BY <1>0, SubSeqProperties
<1>3. c \in Seq(S) /\ Len(c) = Len(t) - p /\ \A j \in 1..(Len(t) - p) : c[j] = t[p + j]
  BY <1>0, SubSeqProperties
<1> HIDE DEF b, c
<1>5. /\ d \in Seq(S) /\ Len(d) = Len(t) - 1
      /\ \A j \in 1..(Len(t) - 1) : d[j] = IF j <= p - 1 THEN b[j] ELSE c[j - (p - 1)]
  <2>1. /\ b \o c \in Seq(S) /\ Len(b \o c) = Len(b) + Len(c)
        /\ \A j \in 1..(Len(b) + Len(c)) :
             (b \o c)[j] = IF j <= Len(b) THEN b[j] ELSE c[j - Len(b)]
    BY <1>1, <1>3, ConcatProperties
  <2>2. Len(b) + Len(c) = Len(t) - 1
    BY <1>0, <1>1, <1>3
  <2> QED BY <1>1, <2>1, <2>2
<1>6. ASSUME NEW j \in 1..(Len(t) - 1)
      PROVE  d[j] = IF j < p THEN t[j] ELSE t[j + 1]
  <2> HIDE DEF d
  <2>1. CASE j < p
    <3>1. j \in 1..(p - 1) /\ j <= p - 1
      BY <1>0, <2>1
    <3> QED BY <1>1, <1>5, <2>1, <3>1
  <2>2. CASE ~(j < p)
    <3>1. j - (p - 1) \in 1..(Len(t) - p) /\ p + (j - (p - 1)) = j + 1
      BY <1>0, <2>2
    <3>2. c[j - (p - 1)] = t[j + 1]
      BY <1>3, <3>1
    <3> QED BY <1>0, <1>5, <2>2, <3>2
  <2> QED BY <2>1, <2>2
<1>7. d = [j \in 1..(Len(t) - 1) |-> d[j]]
  <2> HIDE DEF d
  <2> QED BY <1>5
<1>8. d = [j \in 1..(Len(t) - 1) |-> IF j < p THEN t[j] ELSE t[j + 1]]
  <2> HIDE DEF d
  <2> QED BY <1>6, <1>7
<1>9. Table!RemoveAt(t, p) = d
  BY DEF Table!RemoveAt, b, c
<1> QED BY <1>8, <1>9
LEMMA InsertAtEnd ==
  ASSUME NEW S, NEW t \in Seq(S), NEW r \in S
  PROVE  Table!InsertAt(t, Len(t) + 1, r) = Append(t, r)
<1>1. Len(t) \in Nat /\ Len(t) + 1 \in 1..(Len(t) + 1)
  OBVIOUS
<1>2. Table!InsertAt(t, Len(t) + 1, r)
        = [j \in 1..(Len(t) + 1) |->
             IF j < Len(t) + 1 THEN t[j] ELSE IF j = Len(t) + 1 THEN r ELSE t[j - 1]]
  BY <1>1, InsertAtFunction
<1>3. Append(t, r) = [j \in 1..(Len(t) + 1) |-> IF j = Len(t) + 1 THEN r ELSE t[j]]
  BY AppendFunction
<1>4. \A j \in 1..(Len(t) + 1) :
        (IF j < Len(t) + 1 THEN t[j] ELSE IF j = Len(t) + 1 THEN r ELSE t[j - 1])
          = (IF j = Len(t) + 1 THEN r ELSE t[j])
  BY <1>1
<1> DEFINE n == Len(t) + 1
           f == [j \in 1..n |-> IF j < n THEN t[j] ELSE IF j = n THEN r ELSE t[j - 1]]
           g == [j \in 1..n |-> IF j = n THEN r ELSE t[j]]
<1>5. f = g
  BY <1>4
<1> QED BY <1>2, <1>3, <1>5, Zenon

\* What is done to a sequence is done to it with another element behind.
LEMMA InsertBehind ==
  ASSUME NEW S, NEW t \in Seq(S), NEW x \in S, NEW r \in S, NEW p \in 1..(Len(t) + 1)
  PROVE  Table!InsertAt(Append(t, x), p, r) = Append(Table!InsertAt(t, p, r), x)
<1> DEFINE n == Len(t)
           a == Append(t, x)
           b == Table!InsertAt(t, p, r)
<1>1. n \in Nat /\ p \in 1..((n + 1) + 1) /\ p \in 1..(n + 1)
  OBVIOUS
<1>2. a \in Seq(S) /\ Len(a) = n + 1 /\ \A j \in 1..(n + 1) : a[j] = IF j = n + 1 THEN x ELSE t[j]
  BY AppendFunction
<1>3. b = [j \in 1..(n + 1) |-> IF j < p THEN t[j] ELSE IF j = p THEN r ELSE t[j - 1]]
  BY InsertAtFunction
<1> HIDE DEF n, a, b
<1>4. \A j \in 1..(n + 1) : (IF j < p THEN t[j] ELSE IF j = p THEN r ELSE t[j - 1]) \in S
  BY <1>1 DEF n
<1>5. b \in Seq(S) /\ Len(b) = n + 1
      /\ \A j \in 1..(n + 1) : b[j] = IF j < p THEN t[j] ELSE IF j = p THEN r ELSE t[j - 1]
  BY <1>1, <1>3, <1>4, IsASeq
<1>6. Table!InsertAt(a, p, r)
        = [j \in 1..(Len(a) + 1) |-> IF j < p THEN a[j] ELSE IF j = p THEN r ELSE a[j - 1]]
  <2>1. a \in Seq(S) /\ p \in 1..(Len(a) + 1)
    BY <1>1, <1>2
  <2> QED BY <2>1, InsertAtFunction
<1>7. Append(b, x) = [j \in 1..(Len(b) + 1) |-> IF j = Len(b) + 1 THEN x ELSE b[j]]
  <2>1. b \in Seq(S)
    BY <1>5
  <2> QED BY <2>1, AppendFunction
<1>8. ASSUME NEW j \in 1..((n + 1) + 1)
      PROVE  (IF j < p THEN a[j] ELSE IF j = p THEN r ELSE a[j - 1])
               = (IF j = (n + 1) + 1 THEN x ELSE b[j])
  <2>1. CASE j = (n + 1) + 1
    <3>1. j - 1 = n + 1 /\ ~(j < p) /\ j # p /\ n + 1 \in 1..(n + 1)
      BY <1>1, <2>1
    <3> QED BY <1>2, <2>1, <3>1
  <2>2. CASE j < p
    <3>1. j \in 1..(n + 1) /\ j # n + 1 /\ j # (n + 1) + 1
      BY <1>1, <2>2
    <3> QED BY <1>2, <1>5, <2>2, <3>1
  <2>3. CASE j = p
    <3>1. j \in 1..(n + 1) /\ j # (n + 1) + 1 /\ ~(j < p)
      BY <1>1, <2>3
    <3> QED BY <1>5, <2>3, <3>1
  <2>4. CASE j > p /\ j # (n + 1) + 1
    <3>1. j \in 1..(n + 1) /\ j - 1 \in 1..(n + 1) /\ j - 1 # n + 1 /\ ~(j < p) /\ j # p
      BY <1>1, <2>4
    <3> QED BY <1>2, <1>5, <2>4, <3>1
  <2> QED BY <1>1, <2>1, <2>2, <2>3, <2>4
<1>9. [j \in 1..((n + 1) + 1) |-> IF j < p THEN a[j] ELSE IF j = p THEN r ELSE a[j - 1]]
        = [j \in 1..((n + 1) + 1) |-> IF j = (n + 1) + 1 THEN x ELSE b[j]]
  BY <1>8
<1>10. Len(a) = n + 1 /\ Len(b) = n + 1
  BY <1>2, <1>5
<1>11. Table!InsertAt(a, p, r)
         = [j \in 1..((n + 1) + 1) |-> IF j < p THEN a[j] ELSE IF j = p THEN r ELSE a[j - 1]]
  BY <1>6, <1>10, Zenon
<1>12. Append(b, x) = [j \in 1..((n + 1) + 1) |-> IF j = (n + 1) + 1 THEN x ELSE b[j]]
  BY <1>7, <1>10, Zenon
<1>13. Table!InsertAt(a, p, r) = Append(b, x)
  BY <1>9, <1>11, <1>12, Zenon
<1> QED BY <1>13 DEF a, b

LEMMA RemoveEnd ==
  ASSUME NEW S, NEW t \in Seq(S), NEW x \in S
  PROVE  Table!RemoveAt(Append(t, x), Len(t) + 1) = t
<1> DEFINE n == Len(t)
           a == Append(t, x)
<1>1. n \in Nat /\ t = [j \in 1..n |-> t[j]] /\ (n + 1) - 1 = n /\ n + 1 \in 1..(n + 1)
  OBVIOUS
<1>2. a \in Seq(S) /\ Len(a) = n + 1 /\ \A j \in 1..(n + 1) : a[j] = IF j = n + 1 THEN x ELSE t[j]
  BY AppendFunction
<1> HIDE DEF n, a
<1>3. Table!RemoveAt(a, n + 1)
        = [j \in 1..(Len(a) - 1) |-> IF j < n + 1 THEN a[j] ELSE a[j + 1]]
  BY <1>1, <1>2, RemoveAtFunction
<1>4. ASSUME NEW j \in 1..n PROVE (IF j < n + 1 THEN a[j] ELSE a[j + 1]) = t[j]
  <2>1. j < n + 1 /\ j \in 1..(n + 1) /\ j # n + 1
    BY <1>1
  <2> QED BY <1>2, <2>1
<1>5. [j \in 1..n |-> IF j < n + 1 THEN a[j] ELSE a[j + 1]] = [j \in 1..n |-> t[j]]
  BY <1>4
<1>6. Table!RemoveAt(a, n + 1) = t
  BY <1>1, <1>2, <1>3, <1>5, Zenon
<1> QED BY <1>6 DEF n, a

LEMMA RemoveBehind ==
  ASSUME NEW S, NEW t \in Seq(S), NEW x \in S, NEW p \in 1..Len(t)
  PROVE  Table!RemoveAt(Append(t, x), p) = Append(Table!RemoveAt(t, p), x)
<1> DEFINE n == Len(t)
           a == Append(t, x)
           b == Table!RemoveAt(t, p)
<1>1. n \in Nat /\ n - 1 \in Nat /\ p \in 1..(n + 1) /\ p \in 1..n
  OBVIOUS
<1>2. a \in Seq(S) /\ Len(a) = n + 1 /\ \A j \in 1..(n + 1) : a[j] = IF j = n + 1 THEN x ELSE t[j]
  BY AppendFunction
<1>3. b = [j \in 1..(n - 1) |-> IF j < p THEN t[j] ELSE t[j + 1]]
  BY RemoveAtFunction
<1> HIDE DEF n, a, b
<1>4. \A j \in 1..(n - 1) : (IF j < p THEN t[j] ELSE t[j + 1]) \in S
  BY <1>1 DEF n
<1>5. b \in Seq(S) /\ Len(b) = n - 1
      /\ \A j \in 1..(n - 1) : b[j] = IF j < p THEN t[j] ELSE t[j + 1]
  BY <1>1, <1>3, <1>4, IsASeq
<1>6. Table!RemoveAt(a, p) = [j \in 1..(Len(a) - 1) |-> IF j < p THEN a[j] ELSE a[j + 1]]
  BY <1>1, <1>2, RemoveAtFunction
<1>7. Append(b, x) = [j \in 1..(Len(b) + 1) |-> IF j = Len(b) + 1 THEN x ELSE b[j]]
  BY <1>5, AppendFunction
<1>8. ASSUME NEW j \in 1..n
      PROVE  (IF j < p THEN a[j] ELSE a[j + 1]) = (IF j = n THEN x ELSE b[j])
  <2>1. CASE j = n
    <3>1. j + 1 \in 1..(n + 1) /\ j + 1 = n + 1 /\ ~(j < p)
      BY <1>1, <2>1
    <3> QED BY <1>2, <2>1, <3>1
  <2>2. CASE j < p
    <3>1. j \in 1..(n - 1) /\ j \in 1..(n + 1) /\ j # n /\ j # n + 1
      BY <1>1, <2>2
    <3> QED BY <1>2, <1>5, <2>2, <3>1
  <2>3. CASE ~(j < p) /\ j # n
    <3>1. j \in 1..(n - 1) /\ j + 1 \in 1..(n + 1) /\ j + 1 # n + 1
      BY <1>1, <2>3
    <3> QED BY <1>2, <1>5, <2>3, <3>1
  <2> QED BY <2>1, <2>2, <2>3
<1>9. [j \in 1..n |-> IF j < p THEN a[j] ELSE a[j + 1]] = [j \in 1..n |-> IF j = n THEN x ELSE b[j]]
  BY <1>8
<1>10. Len(a) - 1 = n /\ Len(b) + 1 = n
  BY <1>1, <1>2, <1>5
<1>11. Table!RemoveAt(a, p) = Append(b, x)
  BY <1>6, <1>7, <1>9, <1>10, Zenon
<1> QED BY <1>11 DEF a, b

LEMMA ReplaceBehind ==
  ASSUME NEW S, NEW t \in Seq(S), NEW x \in S, NEW r \in S, NEW p \in 1..Len(t)
  PROVE  [Append(t, x) EXCEPT ![p] = r] = Append([t EXCEPT ![p] = r], x)
<1> DEFINE n == Len(t)
           a == Append(t, x)
           b == [t EXCEPT ![p] = r]
           c == [a EXCEPT ![p] = r]
           d == Append(b, x)
<1>1. n \in Nat /\ p \in 1..(n + 1) /\ p # n + 1
  OBVIOUS
<1>2. a \in Seq(S) /\ Len(a) = n + 1 /\ \A j \in 1..(n + 1) : a[j] = IF j = n + 1 THEN x ELSE t[j]
  BY AppendFunction
<1>3. b \in Seq(S) /\ Len(b) = n /\ \A j \in 1..n : b[j] = IF j = p THEN r ELSE t[j]
  OBVIOUS
<1> HIDE DEF n, a, b
<1>4. c \in Seq(S) /\ Len(c) = n + 1 /\ \A j \in 1..(n + 1) : c[j] = IF j = p THEN r ELSE a[j]
  BY <1>1, <1>2
<1>5. d \in Seq(S) /\ Len(d) = n + 1 /\ \A j \in 1..(n + 1) : d[j] = IF j = n + 1 THEN x ELSE b[j]
  BY <1>3, AppendFunction
<1> HIDE DEF c, d
<1>6. ASSUME NEW j \in 1..(n + 1) PROVE c[j] = d[j]
  <2>1. c[j] = (IF j = p THEN r ELSE a[j]) /\ a[j] = (IF j = n + 1 THEN x ELSE t[j])
    BY <1>2, <1>4
  <2>2. d[j] = IF j = n + 1 THEN x ELSE b[j]
    BY <1>5
  <2>3. CASE j = n + 1
    BY <2>1, <2>2, <2>3, <1>1
  <2>4. CASE j # n + 1
    <3>1. j \in 1..n
      BY <2>4, <1>1
    <3> QED BY <2>1, <2>2, <2>4, <3>1, <1>3
  <2> QED BY <2>3, <2>4
<1>7. c = d
  BY <1>4, <1>5, <1>6, SeqEqual
<1> QED BY <1>7 DEF a, b, c, d

LEMMA ReplaceEnd ==
  ASSUME NEW S, NEW t \in Seq(S), NEW x \in S, NEW r \in S
  PROVE  [Append(t, x) EXCEPT ![Len(t) + 1] = r] = Append(t, r)
<1> DEFINE n == Len(t)
           a == Append(t, x)
           c == [a EXCEPT ![n + 1] = r]
           d == Append(t, r)
<1>1. n \in Nat
  OBVIOUS
<1>2. a \in Seq(S) /\ Len(a) = n + 1 /\ \A j \in 1..(n + 1) : a[j] = IF j = n + 1 THEN x ELSE t[j]
  BY AppendFunction
<1>3. d \in Seq(S) /\ Len(d) = n + 1 /\ \A j \in 1..(n + 1) : d[j] = IF j = n + 1 THEN r ELSE t[j]
  BY AppendFunction
<1> HIDE DEF n, a, d
<1>4. c \in Seq(S) /\ Len(c) = n + 1 /\ \A j \in 1..(n + 1) : c[j] = IF j = n + 1 THEN r ELSE a[j]
  BY <1>1, <1>2
<1> HIDE DEF c
<1>5. \A j \in 1..(n + 1) : c[j] = d[j]
  BY <1>1, <1>2, <1>3, <1>4
<1>6. c = d
  BY <1>3, <1>4, <1>5, SeqEqual
<1> QED BY <1>6 DEF n, a, c, d
\* The records of the first n slots of f, and how they are collected.
Upto(u, f, n) == u = [s \in 0..n |-> IF s = 0 THEN <<>> ELSE With(u[s - 1], f[s])]
Collected(f, n) == (CHOOSE u : Upto(u, f, n))[n]

LEMMA RecordsCollected == Records = Collected(file, maxrec) /\ Records' = Collected(file', maxrec')
<1>1. Records = Collected(file, maxrec)
  BY Zenon DEF Records, Collected, Upto
<1>2. Records' = Collected(file', maxrec')
  BY Zenon DEF Records, Collected, Upto
<1> QED BY <1>1, <1>2

LEMMA WithType ==
  ASSUME NEW t \in Seq(Record), NEW r \in Record \union {Deleted}
  PROVE  With(t, r) \in Seq(Record)
BY DEF With

\* The steps of the collection, one slot after the other.
Steps(u, f, n) ==
  /\ u[0] = <<>> /\ \A s \in 0..n : u[s] \in Seq(Record)
  /\ \A s \in Nat : s < n => u[s + 1] = With(u[s], f[s + 1])

LEMMA Collect ==
  ASSUME NEW f \in Seq(Record \union {Deleted}), NEW n \in Nat, n <= Len(f)
  PROVE  \E u : Steps(u, f, n) /\ Collected(f, n) = u[n]
<1> DEFINE V == Seq(Record)
           empty == <<>>
           step == [k \in Nat |-> [v \in V |-> IF k \in 1..n THEN With(v, f[k]) ELSE v]]
<1>1. ASSUME NEW k \in Nat, NEW v \in V PROVE (IF k \in 1..n THEN With(v, f[k]) ELSE v) \in V
  <2>1. k \in 1..n => f[k] \in Record \union {Deleted}
    OBVIOUS
  <2> QED BY <2>1, WithType
<1>2. step \in [Nat -> [V -> V]]
  BY <1>1
<1>3. empty \in V
  OBVIOUS
<1>4. \A k \in 1..n, v \in V : step[k][v] = With(v, f[k])
  OBVIOUS
<1> HIDE DEF V, step, empty
<1>5. PICK h : Recursion(h, V, empty, step, n)
  BY <1>2, <1>3, RecursionExists, Zenon
<1>6. h \in [0..n -> V] /\ h[0] = empty /\ \A k \in 1..n : h[k] = step[k][h[k - 1]]
  BY <1>5 DEF Recursion
<1>7. ASSUME NEW s \in 0..n PROVE h[s] = IF s = 0 THEN <<>> ELSE With(h[s - 1], f[s])
  <2>1. CASE s = 0
    BY <1>6, <2>1 DEF empty
  <2>2. CASE s # 0
    <3>1. s \in 1..n /\ s - 1 \in 0..n
      BY <2>2
    <3> QED BY <1>4, <1>6, <2>2, <3>1
  <2> QED BY <2>1, <2>2
<1>8. h = [s \in 0..n |-> IF s = 0 THEN <<>> ELSE With(h[s - 1], f[s])]
  BY <1>6, <1>7
<1>9. \E u : Upto(u, f, n)
  BY <1>8 DEF Upto
<1> DEFINE c == CHOOSE u : Upto(u, f, n)
<1>10. Upto(c, f, n)
  BY <1>9
<1>11. Collected(f, n) = c[n]
  BY DEF Collected
<1> HIDE DEF c
<1>12. c = [s \in 0..n |-> IF s = 0 THEN <<>> ELSE With(c[s - 1], f[s])]
  BY <1>10, Zenon DEF Upto
<1>13. c[0] = <<>>
  BY <1>12
<1>14. ASSUME NEW s \in Nat, s < n PROVE c[s + 1] = With(c[s], f[s + 1])
  <2>1. s + 1 \in 0..n /\ s + 1 # 0 /\ (s + 1) - 1 = s
    BY <1>14
  <2> QED BY <1>12, <2>1
<1> DEFINE T == {s \in Nat : s <= n => c[s] \in Seq(Record)}
<1>15. 0 \in T
  <2>1. <<>> \in Seq(Record)
    OBVIOUS
  <2>2. c[0] \in Seq(Record)
    BY <1>13, <2>1, Zenon
  <2> QED BY <2>2
<1>16. ASSUME NEW s \in Nat, s \in T PROVE s + 1 \in T
  <2>1. CASE s + 1 <= n
    <3>1. c[s] \in Seq(Record) /\ f[s + 1] \in Record \union {Deleted} /\ s < n
      BY <1>16, <2>1
    <3>2. c[s + 1] \in Seq(Record)
      BY <1>14, <3>1, WithType
    <3> QED BY <3>2
  <2>2. CASE ~(s + 1 <= n)
    BY <2>2
  <2> QED BY <2>1, <2>2
<1>17. Nat \subseteq T
  <2> HIDE DEF T
  <2> QED BY <1>15, <1>16, SetInduction
<1>18. \A s \in 0..n : c[s] \in Seq(Record)
  BY <1>17
<1>19. Steps(c, f, n)
  BY <1>13, <1>14, <1>18 DEF Steps
<1> QED BY <1>11, <1>19

AgreeTo(f, g, k) == \A s \in 1..k : f[s] = g[s]
SameTo(u, v, k) == \A s \in 0..k : v[s] = u[s]

\* Where the slots are the same, what is collected is the same.
LEMMA SameSteps ==
  ASSUME NEW f, NEW g, NEW n \in Nat, NEW m \in Nat, NEW k \in Nat, k <= n, k <= m,
         NEW u, NEW v, Steps(u, f, n), Steps(v, g, m), AgreeTo(f, g, k)
  PROVE  SameTo(u, v, k)
<1> DEFINE T == {s \in Nat : s <= k => v[s] = u[s]}
<1>1. 0 \in T
  BY DEF Steps
<1>2. ASSUME NEW s \in Nat, s \in T PROVE s + 1 \in T
  <2>1. CASE s + 1 <= k
    <3>1. s + 1 \in 1..k /\ s < n /\ s < m /\ s <= k
      BY <2>1
    <3>2. u[s + 1] = With(u[s], f[s + 1]) /\ v[s + 1] = With(v[s], g[s + 1])
      BY <3>1 DEF Steps
    <3>3. v[s] = u[s] /\ f[s + 1] = g[s + 1]
      BY <1>2, <3>1 DEF AgreeTo
    <3>4. v[s + 1] = u[s + 1]
      BY <3>2, <3>3
    <3> QED BY <3>4
  <2>2. CASE ~(s + 1 <= k)
    BY <2>2
  <2> QED BY <2>1, <2>2
<1>3. Nat \subseteq T
  <2> HIDE DEF T
  <2> QED BY <1>1, <1>2, SetInduction
<1> QED BY <1>3 DEF SameTo

\* What is done to a slot is done to the record that was collected from it: Change is the
\* relation of the records before and after.
LEMMA OneSlot ==
  ASSUME NEW f \in Seq(Record \union {Deleted}), NEW g \in Seq(Record \union {Deleted}),
         NEW n \in Nat, n <= Len(f), n <= Len(g), NEW k \in 1..n,
         \A s \in 1..n : s # k => f[s] = g[s],
         NEW u, NEW v, Steps(u, f, n), Steps(v, g, n), NEW C,
         <<With(u[k - 1], f[k]), With(u[k - 1], g[k])>> \in C,
         \A t \in Seq(Record), w \in Seq(Record), x \in Record :
           <<t, w>> \in C => <<Append(t, x), Append(w, x)>> \in C
  PROVE  <<u[n], v[n]>> \in C
<1>1. \A s \in 0..(k - 1) : v[s] = u[s]
  <2> DEFINE j == k - 1
  <2>1. j \in Nat /\ j <= n /\ AgreeTo(f, g, j)
    BY DEF AgreeTo
  <2> HIDE DEF j
  <2>2. SameTo(u, v, j)
    BY <2>1, SameSteps
  <2> QED BY <2>2 DEF SameTo, j
<1>2. <<u[k], v[k]>> \in C
  <2>1. k - 1 \in Nat /\ k - 1 < n /\ (k - 1) + 1 = k /\ k - 1 \in 0..(k - 1)
    OBVIOUS
  <2>2. u[k] = With(u[k - 1], f[k]) /\ v[k] = With(v[k - 1], g[k])
    BY <2>1 DEF Steps
  <2>3. v[k - 1] = u[k - 1]
    BY <1>1, <2>1
  <2> QED BY <2>2, <2>3
<1> DEFINE T == {s \in Nat : k <= s /\ s <= n => <<u[s], v[s]>> \in C}
<1>3. 0 \in T
  OBVIOUS
<1>4. ASSUME NEW s \in Nat, s \in T PROVE s + 1 \in T
  <2>1. CASE s + 1 = k
    <3>1. <<u[s + 1], v[s + 1]>> \in C
      BY <1>2, <2>1
    <3> QED BY <3>1
  <2>2. CASE k <= s /\ s + 1 <= n
    <3>1. s < n /\ s \in 0..n /\ s + 1 \in 1..n /\ s + 1 # k
      BY <2>2
    <3>2. /\ u[s + 1] = With(u[s], f[s + 1]) /\ v[s + 1] = With(v[s], g[s + 1])
          /\ u[s] \in Seq(Record) /\ v[s] \in Seq(Record)
      BY <3>1 DEF Steps
    <3>3. f[s + 1] = g[s + 1] /\ f[s + 1] \in Record \union {Deleted}
      BY <3>1
    <3>4. <<u[s], v[s]>> \in C
      BY <1>4, <2>2, <3>1
    <3>5. <<u[s + 1], v[s + 1]>> \in C
      <4>1. CASE f[s + 1] = Deleted
        BY <3>2, <3>3, <3>4, <4>1 DEF With
      <4>2. CASE f[s + 1] # Deleted
        BY <3>2, <3>3, <3>4, <4>2 DEF With
      <4> QED BY <4>1, <4>2
    <3> QED BY <3>5
  <2>3. CASE s + 1 < k \/ s + 1 > n
    BY <2>3
  <2> QED BY <2>1, <2>2, <2>3
<1>5. Nat \subseteq T
  <2> HIDE DEF T
  <2> QED BY <1>3, <1>4, SetInduction
<1> QED BY <1>5
\* The slots before and after one was written.
LEMMA WrittenSlot ==
  ASSUME TypeOK, CountsInFile, NEW phys \in Visible, NEW r \in Record \union {Deleted},
         file' = Put(phys, r), maxrec' = maxrec
  PROVE  /\ file \in Seq(Record \union {Deleted}) /\ file' \in Seq(Record \union {Deleted})
         /\ maxrec \in Nat /\ maxrec <= Len(file) /\ maxrec <= Len(file')
         /\ phys + 1 \in 1..maxrec /\ (phys + 1) - 1 = phys /\ phys \in 0..maxrec
         /\ file'[phys + 1] = r
         /\ \A s \in 1..maxrec : s # phys + 1 => file[s] = file'[s]
<1>1. /\ nrecs \in Nat /\ maxrec \in Nat /\ Len(file) \in Nat /\ maxrec <= Len(file)
      /\ file \in Seq(Record \union {Deleted})
      /\ \A p : p \in Visible <=> p \in Nat /\ p < maxrec
  BY Numbers DEF TypeOK
<1>2. phys \in Nat /\ phys < maxrec /\ phys < Len(file) /\ phys <= Len(file)
  BY <1>1
<1>3. /\ file' \in Seq(Record \union {Deleted}) /\ Len(file') = Len(file)
      /\ file'[phys + 1] = r
      /\ \A p \in 0..(Len(file) - 1) : p # phys => file'[p + 1] = file[p + 1]
  BY <1>2, PutProperties
<1>4. ASSUME NEW s \in 1..maxrec, s # phys + 1 PROVE file[s] = file'[s]
  <2>1. s - 1 \in 0..(Len(file) - 1) /\ s - 1 # phys /\ (s - 1) + 1 = s
    BY <1>1, <1>2, <1>4
  <2> QED BY <1>3, <2>1
<1> QED BY <1>1, <1>2, <1>3, <1>4

\* What a change of one slot makes of the records: C holds the pairs of before and after.
LEMMA RecordsOfSlot ==
  ASSUME TypeOK, CountsInFile, NEW phys \in Visible, NEW r \in Record \union {Deleted},
         file' = Put(phys, r), maxrec' = maxrec
  PROVE  /\ Records \in Seq(Record)
         /\ \E h \in Seq(Record) : \A C :
              /\ <<With(h, Slot(phys)), With(h, r)>> \in C
              /\ \A t \in Seq(Record), w \in Seq(Record), x \in Record :
                   <<t, w>> \in C => <<Append(t, x), Append(w, x)>> \in C
              => <<Records, Records'>> \in C
<1>1. /\ file \in Seq(Record \union {Deleted}) /\ file' \in Seq(Record \union {Deleted})
      /\ maxrec \in Nat /\ maxrec <= Len(file) /\ maxrec <= Len(file')
      /\ phys + 1 \in 1..maxrec /\ (phys + 1) - 1 = phys /\ phys \in 0..maxrec
      /\ file'[phys + 1] = r
      /\ \A s \in 1..maxrec : s # phys + 1 => file[s] = file'[s]
  BY WrittenSlot
<1>2. PICK f, g, n, k : f = file /\ g = file' /\ n = maxrec /\ k = phys + 1
  OBVIOUS
<1>3. /\ f \in Seq(Record \union {Deleted}) /\ g \in Seq(Record \union {Deleted})
      /\ n \in Nat /\ n <= Len(f) /\ n <= Len(g)
      /\ k \in 1..n /\ k - 1 = phys /\ phys \in 0..n /\ g[k] = r /\ f[k] = Slot(phys)
      /\ \A s \in 1..n : s # k => f[s] = g[s]
  BY <1>1, <1>2 DEF Slot
<1>4. PICK u : Steps(u, f, n) /\ Collected(f, n) = u[n]
  BY <1>3, Collect
<1>5. PICK v : Steps(v, g, n) /\ Collected(g, n) = v[n]
  BY <1>3, Collect
<1>6. Records = u[n] /\ Records' = v[n]
  BY <1>2, <1>4, <1>5, RecordsCollected
<1>7. u[phys] \in Seq(Record) /\ u[n] \in Seq(Record)
  BY <1>3, <1>4 DEF Steps
<1>8. ASSUME NEW C, <<With(u[phys], Slot(phys)), With(u[phys], r)>> \in C,
             \A t \in Seq(Record), w \in Seq(Record), x \in Record :
               <<t, w>> \in C => <<Append(t, x), Append(w, x)>> \in C
      PROVE  <<u[n], v[n]>> \in C
  <2>1. <<With(u[k - 1], f[k]), With(u[k - 1], g[k])>> \in C
    BY <1>3, <1>8
  <2> QED BY <1>3, <1>4, <1>5, <1>8, <2>1, OneSlot
<1> QED BY <1>6, <1>7, <1>8

LEMMA RecordsUpdated ==
  ASSUME TypeOK, CountsInFile, NEW phys \in ActiveSlots, NEW r \in Record,
         file' = Put(phys, r), maxrec' = maxrec
  PROVE  \E p \in 1..Len(Records) : Records' = [Records EXCEPT ![p] = r]
<1>1. Slot(phys) \in Record /\ Deleted \notin Record /\ phys \in Visible
  BY Numbers DEF ActiveSlots, Active, Slot, TypeOK
<1>2. /\ Records \in Seq(Record)
      /\ \E h \in Seq(Record) : \A C :
              /\ <<With(h, Slot(phys)), With(h, r)>> \in C
              /\ \A t \in Seq(Record), w \in Seq(Record), x \in Record :
                   <<t, w>> \in C => <<Append(t, x), Append(w, x)>> \in C
              => <<Records, Records'>> \in C
  BY <1>1, RecordsOfSlot
<1>3. PICK h \in Seq(Record) : \A C :
              /\ <<With(h, Slot(phys)), With(h, r)>> \in C
              /\ \A t \in Seq(Record), w \in Seq(Record), x \in Record :
                   <<t, w>> \in C => <<Append(t, x), Append(w, x)>> \in C
              => <<Records, Records'>> \in C
  BY <1>2
<1> DEFINE p == Len(h) + 1
           R(t, w) == p \in 1..Len(t) /\ w = [t EXCEPT ![p] = r]
           C == {tw \in Seq(Record) \X Seq(Record) : R(tw[1], tw[2])}
<1>4. <<With(h, Slot(phys)), With(h, r)>> \in C
  <2>1. With(h, Slot(phys)) = Append(h, Slot(phys)) /\ With(h, r) = Append(h, r)
    BY <1>1 DEF With
  <2>2. /\ Append(h, Slot(phys)) \in Seq(Record) /\ Append(h, r) \in Seq(Record)
        /\ p \in 1..Len(Append(h, Slot(phys)))
    BY <1>1
  <2>3. Append(h, r) = [Append(h, Slot(phys)) EXCEPT ![p] = r]
    BY <1>1, ReplaceEnd
  <2> QED BY <2>1, <2>2, <2>3
<1>5. ASSUME NEW t \in Seq(Record), NEW w \in Seq(Record), NEW x \in Record, <<t, w>> \in C
      PROVE  <<Append(t, x), Append(w, x)>> \in C
  <2>1. p \in 1..Len(t) /\ w = [t EXCEPT ![p] = r]
    BY <1>5
  <2>2. Append(t, x) \in Seq(Record) /\ Append(w, x) \in Seq(Record) /\ p \in 1..Len(Append(t, x))
    BY <2>1
  <2>3. Append(w, x) = [Append(t, x) EXCEPT ![p] = r]
    <3> HIDE DEF p
    <3> QED BY <2>1, ReplaceBehind
  <2> QED BY <2>2, <2>3
<1>6. <<Records, Records'>> \in C
  <2> HIDE DEF C
  <2> QED BY <1>3, <1>4, <1>5
<1>7. p \in 1..Len(Records) /\ Records' = [Records EXCEPT ![p] = r]
  BY <1>6
<1> QED BY <1>7

LEMMA RecordsInserted ==
  ASSUME TypeOK, CountsInFile, NEW phys \in Visible \ ActiveSlots, NEW r \in Record,
         file' = Put(phys, r), maxrec' = maxrec
  PROVE  \E p \in 1..(Len(Records) + 1) : Records' = Table!InsertAt(Records, p, r)
<1>1. Slot(phys) = Deleted /\ Deleted \notin Record /\ phys \in Visible
  BY Numbers DEF ActiveSlots, Active
<1>2. /\ Records \in Seq(Record)
      /\ \E h \in Seq(Record) : \A C :
              /\ <<With(h, Slot(phys)), With(h, r)>> \in C
              /\ \A t \in Seq(Record), w \in Seq(Record), x \in Record :
                   <<t, w>> \in C => <<Append(t, x), Append(w, x)>> \in C
              => <<Records, Records'>> \in C
  BY <1>1, RecordsOfSlot
<1>3. PICK h \in Seq(Record) : \A C :
              /\ <<With(h, Slot(phys)), With(h, r)>> \in C
              /\ \A t \in Seq(Record), w \in Seq(Record), x \in Record :
                   <<t, w>> \in C => <<Append(t, x), Append(w, x)>> \in C
              => <<Records, Records'>> \in C
  BY <1>2
<1> DEFINE p == Len(h) + 1
           R(t, w) == p \in 1..(Len(t) + 1) /\ w = Table!InsertAt(t, p, r)
           C == {tw \in Seq(Record) \X Seq(Record) : R(tw[1], tw[2])}
<1>4. <<With(h, Slot(phys)), With(h, r)>> \in C
  <2>1. With(h, Slot(phys)) = h /\ With(h, r) = Append(h, r)
    BY <1>1 DEF With
  <2>2. Append(h, r) \in Seq(Record) /\ p \in 1..(Len(h) + 1)
    BY <1>1
  <2>3. Append(h, r) = Table!InsertAt(h, p, r)
    BY <1>1, InsertAtEnd
  <2> QED BY <2>1, <2>2, <2>3
<1>5. ASSUME NEW t \in Seq(Record), NEW w \in Seq(Record), NEW x \in Record, <<t, w>> \in C
      PROVE  <<Append(t, x), Append(w, x)>> \in C
  <2>1. p \in 1..(Len(t) + 1) /\ w = Table!InsertAt(t, p, r)
    BY <1>5
  <2>2. /\ Append(t, x) \in Seq(Record) /\ Append(w, x) \in Seq(Record)
        /\ p \in 1..(Len(Append(t, x)) + 1)
    BY <2>1
  <2>3. Append(w, x) = Table!InsertAt(Append(t, x), p, r)
    <3> HIDE DEF p
    <3> QED BY <2>1, InsertBehind
  <2> QED BY <2>2, <2>3
<1>6. <<Records, Records'>> \in C
  <2> HIDE DEF C
  <2> QED BY <1>3, <1>4, <1>5
<1>7. p \in 1..(Len(Records) + 1) /\ Records' = Table!InsertAt(Records, p, r)
  BY <1>6
<1> QED BY <1>7

LEMMA RecordsDeleted ==
  ASSUME TypeOK, CountsInFile, NEW phys \in ActiveSlots,
         file' = Put(phys, Deleted), maxrec' = maxrec
  PROVE  \E p \in 1..Len(Records) : Records' = Table!RemoveAt(Records, p)
<1>1. Slot(phys) \in Record /\ Deleted \notin Record /\ phys \in Visible
  BY Numbers DEF ActiveSlots, Active, Slot, TypeOK
<1>2. /\ Records \in Seq(Record)
      /\ \E h \in Seq(Record) : \A C :
              /\ <<With(h, Slot(phys)), With(h, Deleted)>> \in C
              /\ \A t \in Seq(Record), w \in Seq(Record), x \in Record :
                   <<t, w>> \in C => <<Append(t, x), Append(w, x)>> \in C
              => <<Records, Records'>> \in C
  BY <1>1, RecordsOfSlot
<1>3. PICK h \in Seq(Record) : \A C :
              /\ <<With(h, Slot(phys)), With(h, Deleted)>> \in C
              /\ \A t \in Seq(Record), w \in Seq(Record), x \in Record :
                   <<t, w>> \in C => <<Append(t, x), Append(w, x)>> \in C
              => <<Records, Records'>> \in C
  BY <1>2
<1> DEFINE p == Len(h) + 1
           R(t, w) == p \in 1..Len(t) /\ w = Table!RemoveAt(t, p)
           C == {tw \in Seq(Record) \X Seq(Record) : R(tw[1], tw[2])}
<1>4. <<With(h, Slot(phys)), With(h, Deleted)>> \in C
  <2>1. With(h, Slot(phys)) = Append(h, Slot(phys)) /\ With(h, Deleted) = h
    BY <1>1 DEF With
  <2>2. Append(h, Slot(phys)) \in Seq(Record) /\ p \in 1..Len(Append(h, Slot(phys)))
    BY <1>1
  <2>3. h = Table!RemoveAt(Append(h, Slot(phys)), p)
    BY <1>1, RemoveEnd
  <2> QED BY <2>1, <2>2, <2>3
<1>5. ASSUME NEW t \in Seq(Record), NEW w \in Seq(Record), NEW x \in Record, <<t, w>> \in C
      PROVE  <<Append(t, x), Append(w, x)>> \in C
  <2>1. p \in 1..Len(t) /\ w = Table!RemoveAt(t, p)
    BY <1>5
  <2>2. Append(t, x) \in Seq(Record) /\ Append(w, x) \in Seq(Record) /\ p \in 1..Len(Append(t, x))
    BY <2>1
  <2>3. Append(w, x) = Table!RemoveAt(Append(t, x), p)
    <3> HIDE DEF p
    <3> QED BY <2>1, RemoveBehind
  <2> QED BY <2>2, <2>3
<1>6. <<Records, Records'>> \in C
  <2> HIDE DEF C
  <2> QED BY <1>3, <1>4, <1>5
<1>7. p \in 1..Len(Records) /\ Records' = Table!RemoveAt(Records, p)
  BY <1>6
<1> QED BY <1>7
LEMMA RecordsType ==
  ASSUME TypeOK, CountsInFile
  PROVE  Records \in Seq(Record)
<1>1. file \in Seq(Record \union {Deleted}) /\ maxrec \in Nat /\ maxrec <= Len(file)
  BY Numbers DEF TypeOK
<1>2. PICK u : Steps(u, file, maxrec) /\ Collected(file, maxrec) = u[maxrec]
  BY <1>1, Collect
<1>3. maxrec \in 0..maxrec
  BY <1>1
<1> QED BY <1>2, <1>3, RecordsCollected DEF Steps

LEMMA RecordsAppended ==
  ASSUME TypeOK, CountsInFile, NEW r \in Record, file' = Put(maxrec, r), maxrec' = maxrec + 1
  PROVE  \E p \in 1..(Len(Records) + 1) : Records' = Table!InsertAt(Records, p, r)
<1>1. PICK f, g, n : f = file /\ g = file' /\ n = maxrec
  OBVIOUS
<1>2. /\ f \in Seq(Record \union {Deleted}) /\ n \in Nat /\ n <= Len(f) /\ Deleted \notin Record
  BY <1>1, Numbers DEF TypeOK
<1>3. /\ g \in Seq(Record \union {Deleted}) /\ n + 1 \in Nat /\ n + 1 <= Len(g) /\ g[n + 1] = r
      /\ AgreeTo(f, g, n)
  <2>1. /\ Put(n, r) \in Seq(Record \union {Deleted})
        /\ Len(Put(n, r)) = (IF n < Len(file) THEN Len(file) ELSE n + 1)
        /\ Put(n, r)[n + 1] = r
        /\ \A p \in 0..(Len(file) - 1) : p # n => Put(n, r)[p + 1] = file[p + 1]
    <3>1. n \in Nat /\ n <= Len(file)
      BY <1>1, <1>2
    <3> HIDE DEF TypeOK
    <3> QED BY <3>1, PutProperties
  <2>2. Put(n, r) = g
    BY <1>1
  <2>3. ASSUME NEW s \in 1..n PROVE f[s] = g[s]
    <3>1. s - 1 \in 0..(Len(file) - 1) /\ s - 1 # n /\ (s - 1) + 1 = s
      BY <1>1, <1>2
    <3> QED BY <1>1, <2>1, <2>2, <3>1
  <2> QED BY <1>1, <1>2, <2>1, <2>2, <2>3 DEF AgreeTo
<1>4. PICK u : Steps(u, f, n) /\ Collected(f, n) = u[n]
  BY <1>2, Collect
<1> DEFINE m == n + 1
<1>m. m \in Nat /\ m <= Len(g) /\ n <= m /\ n <= n /\ n < m /\ n \in 0..n
  BY <1>2, <1>3
<1> HIDE DEF m
<1>5. PICK v : Steps(v, g, m) /\ Collected(g, m) = v[m]
  BY <1>3, <1>m, Collect
<1>6. Records = u[n] /\ Records' = v[m]
  BY <1>1, <1>4, <1>5, RecordsCollected DEF m
<1>7. v[n] = u[n]
  <2>1. SameTo(u, v, n)
    BY <1>2, <1>3, <1>m, <1>4, <1>5, SameSteps
  <2> QED BY <1>m, <2>1 DEF SameTo
<1>8. v[n + 1] = With(v[n], g[n + 1]) /\ u[n] \in Seq(Record)
  BY <1>2, <1>m, <1>4, <1>5 DEF Steps
<1>9. Records' = Append(Records, r) /\ Records \in Seq(Record)
  BY <1>2, <1>3, <1>6, <1>7, <1>8 DEF With, m
<1>10. Records' = Table!InsertAt(Records, Len(Records) + 1, r)
  BY <1>9, InsertAtEnd
<1>11. Len(Records) + 1 \in 1..(Len(Records) + 1)
  BY <1>9
<1> QED BY <1>10, <1>11

\* While no restart read old counts, an insert is an insert into the promised table.
LEMMA InsertIs ==
  ASSUME TableOK, sound, NEW r \in Record, Insert(r)
  PROVE  Table!Insert
<1>0. TypeOK /\ CountsInFile /\ nrecs = Cardinality(ActiveSlots)
  BY DEF TableOK, CountsExact
<1>1. PICK phys \in 0..maxrec :
           /\ phys \notin ActiveSlots /\ phys < Slots
           /\ file' = Put(phys, r) /\ nrecs' = nrecs + 1
           /\ \/ phys \in Visible /\ nrecs < maxrec /\ maxrec' = maxrec
              \/ phys = maxrec /\ nrecs = maxrec /\ maxrec' = maxrec + 1
              \/ phys = maxrec /\ nrecs < maxrec /\ maxrec' = maxrec /\ ActiveSlots = Visible
  BY <1>0, InsertStep
<1>2. nrecs < maxrec => ActiveSlots # Visible
  BY <1>0, ActiveFinite, Numbers
<1>3. \E p \in 1..(Len(Records) + 1) : Records' = Table!InsertAt(Records, p, r)
  <2>1. CASE phys \in Visible /\ maxrec' = maxrec
    BY <1>0, <1>1, <2>1, RecordsInserted
  <2>2. CASE phys = maxrec /\ maxrec' = maxrec + 1
    BY <1>0, <1>1, <2>2, RecordsAppended
  <2> QED BY <1>1, <1>2, <2>1, <2>2
<1> QED BY <1>3 DEF Table!Insert

LEMMA UpdateIs ==
  ASSUME TableOK, NEW phys \in ActiveSlots, NEW r \in Record, Write(phys, r), maxrec' = maxrec
  PROVE  Table!Update
<1>1. file' = Put(phys, r)
  BY DEF Write
<1>2. \E p \in 1..Len(Records) : Records' = [Records EXCEPT ![p] = r]
  BY <1>1, RecordsUpdated DEF TableOK
<1> QED BY <1>2 DEF Table!Update

LEMMA DeleteIs ==
  ASSUME TableOK, NEW phys, Erase(phys), maxrec' = maxrec
  PROVE  Table!Delete
<1>1. file' = Put(phys, Deleted) /\ phys \in ActiveSlots
  BY DEF Erase
<1>2. \E p \in 1..Len(Records) : Records' = Table!RemoveAt(Records, p)
  BY <1>1, RecordsDeleted DEF TableOK
<1> QED BY <1>2 DEF Table!Delete

LEMMA RecordsSame ==
  ASSUME file' = file, maxrec' = maxrec
  PROVE  Records' = Records
BY RecordsCollected

LEMMA TableInit == Init => Table!Init
<1> SUFFICES ASSUME Init PROVE Table!Init
  OBVIOUS
<1>1. /\ file = <<>> /\ nrecs = 0 /\ maxrec = 0 /\ config = <<0, 0>> /\ sound = TRUE
  BY DEF Init, Empty
<1>2. file \in Seq(Record \union {Deleted}) /\ maxrec \in Nat /\ maxrec <= Len(file)
  BY <1>1
<1>3. PICK u : Steps(u, file, maxrec) /\ Collected(file, maxrec) = u[maxrec]
  BY <1>2, Collect
<1>4. Records = <<>>
  BY <1>1, <1>3, RecordsCollected DEF Steps
<1>5. (config = counts) = TRUE
  BY <1>1 DEF counts
<1> QED BY <1>1, <1>4, <1>5, Zenon DEF Table!Init

\* A step of the table is one of the promised table, or none.
LEMMA TableSteps == IInv /\ [Next]_vars => [Table!Next]_(Table!vars)
<1> SUFFICES ASSUME IInv, [Next]_vars PROVE Table!Next \/ UNCHANGED Table!vars
  OBVIOUS
<1>0. TableOK
  BY DEF IInv
<1>1. CASE ~sound
  BY <1>1, Zenon DEF Table!Next
<1> SUFFICES ASSUME sound PROVE Table!Next \/ UNCHANGED Table!vars
  BY <1>1
<1>b. (config = counts) \in BOOLEAN /\ (config' = counts') \in BOOLEAN
  OBVIOUS
<1>2. ASSUME Table!Insert \/ Table!Delete, sound' = sound PROVE Table!Next
  <2>1. Table!Change
    BY <1>2, <1>b, Zenon DEF Table!Change
  <2> QED BY <2>1, Zenon DEF Table!Next
<1>3. ASSUME Table!Update, sound' = sound, UNCHANGED counts, config' = config PROVE Table!Next
  <2>1. Table!Change
    BY <1>3, Zenon DEF Table!Change
  <2> QED BY <2>1, Zenon DEF Table!Next
<1>4. ASSUME file' = file, UNCHANGED counts, config' \in {config, counts}, sound' = sound
      PROVE  Table!Next \/ UNCHANGED Table!vars
  <2>1. maxrec' = maxrec /\ counts' = counts
    BY <1>4 DEF counts
  <2>2. Records' = Records
    BY <1>4, <2>1, RecordsSame
  <2>3. CASE config' = config
    BY <1>4, <2>1, <2>2, <2>3, Zenon DEF Table!vars
  <2>4. CASE config' = counts
    <3>1. Table!Save
      BY <1>4, <2>1, <2>2, <2>4, Zenon DEF Table!Save
    <3> QED BY <3>1, Zenon DEF Table!Next
  <2> QED BY <1>4, <2>3, <2>4
<1>5. ASSUME InsertPatient \/ \E r \in Record : InsertRecord(r) PROVE Table!Next
  <2>1. PICK r \in Record : Insert(r) /\ sound' = sound
    BY <1>5 DEF InsertPatient, InsertRecord, Changes
  <2> QED BY <1>0, <1>2, <2>1, InsertIs
<1>6. ASSUME NEW pid \in Record, DeletePatient(pid) PROVE Table!Next
  <2>1. Erase(Lookup(pid)) /\ maxrec' = maxrec /\ sound' = sound
    BY <1>6 DEF DeletePatient
  <2> QED BY <1>0, <1>2, <2>1, DeleteIs
<1>7. ASSUME NEW n \in Nat, DeleteRecord(n) PROVE Table!Next
  <2>1. PICK phys : Erase(phys) /\ maxrec' = maxrec /\ sound' = sound
    BY <1>7 DEF DeleteRecord, Delete, Changes
  <2> QED BY <1>0, <1>2, <2>1, DeleteIs
<1>8. ASSUME NEW n \in Nat, NEW r \in Record, UpdateRecord(n, r) PROVE Table!Next
  <2>1. PICK phys \in LogicalSlots(n) : Write(phys, r)
    BY <1>8 DEF UpdateRecord, Update
  <2>2. phys \in ActiveSlots
    BY <2>1 DEF LogicalSlots, IsLogical, ActiveSlots
  <2>3. UNCHANGED counts /\ config' = config /\ sound' = sound /\ maxrec' = maxrec
    BY <1>8 DEF UpdateRecord, Changes, counts
  <2> QED BY <1>0, <1>3, <2>1, <2>2, <2>3, UpdateIs
<1>9. ASSUME NEW pid \in Record, UpdatePatient(pid) PROVE Table!Next \/ UNCHANGED Table!vars
  <2>1. UNCHANGED vars
    BY <1>9, UpdatePatientOK
  <2> QED BY <1>4, <2>1 DEF vars, counts
<1>10. ASSUME NextPhase \/ InsertFails \/ Lookups \/ ReadBack \/ Save \/ Build \/ UNCHANGED vars
       PROVE  Table!Next \/ UNCHANGED Table!vars
  <2>1. file' = file /\ UNCHANGED counts /\ config' \in {config, counts} /\ sound' = sound
    BY <1>10 DEF NextPhase, InsertFails, Lookups, ReadBack, Save, Build, vars
  <2> QED BY <1>4, <2>1
<1>11. ASSUME Restart PROVE Table!Next \/ UNCHANGED Table!vars
  <2>1. /\ nrecs' = config[1] /\ maxrec' = config[2] /\ config' = config /\ file' = file
        /\ sound' = (sound /\ config = counts)
    BY <1>11 DEF Restart
  <2>2. CASE config = counts
    <3>1. config = <<nrecs, maxrec>>
      BY <2>2 DEF counts
    <3>2. nrecs' = nrecs /\ maxrec' = maxrec
      BY <2>1, <3>1
    <3>3. UNCHANGED counts
      BY <3>2 DEF counts
    <3>4. sound' = sound
      BY <2>1, <2>2, Zenon DEF IInv, TableOK, TypeOK
    <3> QED BY <1>4, <2>1, <3>3, <3>4
  <2>3. CASE config # counts
    <3>1. Table!RestartOld
      BY <2>1, <2>3, Zenon DEF Table!RestartOld
    <3> QED BY <3>1, Zenon DEF Table!Next
  <2> QED BY <2>2, <2>3
<1>s. 0..(Slots - 1) \subseteq Nat
  BY IsamAssumption
<1> QED
  BY <1>5, <1>6, <1>7, <1>8, <1>9, <1>10, <1>11, <1>s DEF Next, DoctorNext, AnyNext

\* The file of slots with its counts is the table that is promised: a sequence of records.
THEOREM TableImplements == Spec => Implements
BY Inductive, TableInit, TableSteps, PTL DEF Spec, Implements, Table!Spec

-----------------------------------------------------------------------------
(* The stream of an answer *)

WorkerSteps == {"none", "check", "claim", "stream", "add", "wait", "gone"}
WorkerState == [at : WorkerSteps, text : Seq(Bytes), finished : BOOLEAN]

\* Where the program reads there is something to read, and room for it.
StreamTypes ==
  /\ StreamTypeOK
  /\ worker \in [Workers -> WorkerState]
  /\ cpu = "read" => chunk # <<>>
  /\ cpu # "idle" => Len(got) < ReaderSize /\ result = "none"

\* Threads that are not started yet.
ToStart(w) ==
  \/ w[1] > request
  \/ w[1] = request /\ cpu \in {"reset", "payload"}
  \/ w[1] = request /\ w[2] = 120 /\ cpu = "send"

\* A thread holds a text only while it hands it over, and has seen the end only after
\* it streamed.
Shapes ==
  \A w \in Workers :
    /\ ToStart(w) => worker[w] = NotStarted
    /\ worker[w].at \notin {"add", "wait"} => worker[w].text = <<>>
    /\ worker[w].finished => worker[w].at \in {"stream", "gone"}

\* No other thread comes farther than to the flag.
OthersWait ==
  \A w \in Workers : Alive(w) =>
    /\ w[1] = request /\ cpu \notin {"reset", "payload"}
    /\ w # voice => worker[w].at \in {"check", "claim"}

\* Before there is a stream.
Unanswered ==
  voice = NoWorker =>
    /\ answer = <<>> /\ got = <<>> /\ result # "end"
    /\ cpu # "reset" => chunk = <<>> /\ ~complete

\* The answer is what was received, what waits in the chunk, and what the thread holds.
Streamed ==
  voice # NoWorker =>
    /\ cpu \notin {"reset", "payload"} /\ worker[voice].at # "none"
    /\ answer = (got \o chunk) \o Kept(worker[voice].text)
    /\ complete = worker[voice].finished
    /\ result = "end" => worker[voice].finished /\ chunk = <<>>

(* WorkerSteps of the threads *)

LEMMA WorkerMoves ==
  ASSUME worker \in [Workers -> WorkerState], NEW w \in Workers, NEW s \in WorkerSteps,
         worker' = [worker EXCEPT ![w].at = s]
  PROVE  /\ worker' \in [Workers -> WorkerState]
         /\ worker'[w].at = s
         /\ worker'[w].text = worker[w].text /\ worker'[w].finished = worker[w].finished
         /\ \A v \in Workers \ {w} : worker'[v] = worker[v]
  BY DEF WorkerState

LEMMA WorkerHolds ==
  ASSUME worker \in [Workers -> WorkerState], NEW w \in Workers, NEW s \in WorkerSteps,
         NEW x \in Seq(Bytes),
         worker' = [worker EXCEPT ![w].at = s, ![w].text = x]
  PROVE  /\ worker' \in [Workers -> WorkerState]
         /\ worker'[w].at = s
         /\ worker'[w].text = x /\ worker'[w].finished = worker[w].finished
         /\ \A v \in Workers \ {w} : worker'[v] = worker[v]
  BY DEF WorkerState

LEMMA WorkerFinishes ==
  ASSUME worker \in [Workers -> WorkerState], NEW w \in Workers,
         worker' = [worker EXCEPT ![w].finished = TRUE]
  PROVE  /\ worker' \in [Workers -> WorkerState]
         /\ worker'[w].at = worker[w].at
         /\ worker'[w].text = worker[w].text /\ worker'[w].finished = TRUE
         /\ \A v \in Workers \ {w} : worker'[v] = worker[v]
  BY DEF WorkerState

LEMMA SignalMoves ==
  ASSUME worker \in [Workers -> WorkerState], worker' = Signalled
  PROVE  /\ worker' \in [Workers -> WorkerState]
         /\ \A v \in Workers :
              /\ worker'[v].at = IF worker[v].at = "wait" THEN "add" ELSE worker[v].at
              /\ worker'[v].text = worker[v].text /\ worker'[v].finished = worker[v].finished
<1>1. ASSUME NEW v \in Workers
      PROVE  /\ worker'[v] \in WorkerState
             /\ worker'[v].at = IF worker[v].at = "wait" THEN "add" ELSE worker[v].at
             /\ worker'[v].text = worker[v].text /\ worker'[v].finished = worker[v].finished
  <2>1. worker'[v] = IF worker[v].at = "wait" THEN [worker[v] EXCEPT !.at = "add"] ELSE worker[v]
    BY DEF Signalled
  <2>2. worker[v] \in WorkerState
    OBVIOUS
  <2> QED BY <2>1, <2>2 DEF WorkerState, WorkerSteps
<1>2. worker' = [v \in Workers |-> worker'[v]]
  BY DEF Signalled
<1> QED BY <1>1, <1>2

\* What is kept of a text is a text that the chunk has room for.
LEMMA KeptFits ==
  ASSUME NEW x \in Seq(Bytes)
  PROVE  Kept(x) \in Seq(Bytes) /\ Len(Kept(x)) < ChunkSize
<1>1. ChunkSize \in Nat /\ ChunkSize >= 2 /\ Len(x) \in Nat
  BY StreamAssumption
<1>2. CASE Len(x) >= ChunkSize
  <2>1. ChunkSize - 1 \in 1..Len(x)
    BY <1>1, <1>2
  <2>2. SubSeq(x, 1, ChunkSize - 1) \in Seq(Bytes) /\ Len(SubSeq(x, 1, ChunkSize - 1)) = ChunkSize - 1
    BY <1>1, <2>1
  <2> QED BY <1>1, <1>2, <2>2 DEF Kept
<1>3. CASE ~(Len(x) >= ChunkSize)
  BY <1>1, <1>3 DEF Kept
<1> QED BY <1>2, <1>3

LEMMA EmptyText ==
  /\ <<>> \in Seq(Bytes) /\ Len(<<>>) = 0
  /\ 0 < ChunkSize /\ 0 < ReaderSize /\ 0 <= ReaderSize
  BY StreamAssumption

LEMMA ConcatEmpty ==
  ASSUME NEW x \in Seq(Bytes) PROVE x \o <<>> = x /\ <<>> \o x = x
  OBVIOUS

LEMMA KeptNothing == Kept(<<>>) = <<>>
  BY StreamAssumption DEF Kept

LEMMA TextIsText ==
  ASSUME StreamTypes, deltas < MaxDeltas, NEW n \in DeltaSizes
  PROVE  Text(n) \in Seq(Bytes)
<1>1. n \in Nat /\ MaxDeltas \in Nat /\ deltas + 1 \in 1..MaxDeltas
  BY StreamAssumption DEF StreamTypes, StreamTypeOK
<1>2. Text(n) \in [1..n -> Bytes]
  BY <1>1 DEF Text, Bytes
<1> QED BY <1>1, <1>2

LEMMA ChunkHead ==
  ASSUME chunk \in Seq(Bytes), chunk # <<>>
  PROVE  /\ Head(chunk) \in Bytes /\ Tail(chunk) \in Seq(Bytes)
         /\ chunk = <<Head(chunk)>> \o Tail(chunk)
         /\ Len(Tail(chunk)) = Len(chunk) - 1
  OBVIOUS

(* Every step keeps the types *)

LEMMA StreamTypesInit == ASSUME StreamInit PROVE StreamTypes
<1>1. NotStarted \in WorkerState
  BY DEF NotStarted, WorkerState, WorkerSteps
<1>2. worker \in [Workers -> WorkerState]
  BY <1>1 DEF StreamInit
<1>3. /\ 0 \in 0..MaxRequests /\ 0 \in 0..MaxDeltas
  BY StreamAssumption
<1>4. StreamTypeOK
  BY <1>2, <1>3, EmptyText DEF StreamInit, StreamTypeOK, WorkerState, WorkerSteps
<1> QED BY <1>2, <1>4 DEF StreamInit, StreamTypes

\* A step that changes only the threads keeps the types if the threads keep theirs.
LEMMA WorkersKeepTypes ==
  ASSUME StreamTypes, worker' \in [Workers -> WorkerState], chunk' = chunk, complete' = complete,
         streaming' \in BOOLEAN, deltas' \in 0..MaxDeltas, got' = got, result' = result,
         cpu' = cpu, request' = request, voice' \in Workers \union {NoWorker},
         answer' \in Seq(Bytes), disturbed' \in BOOLEAN
  PROVE  StreamTypes'
<1>1. StreamTypeOK'
  BY DEF StreamTypes, StreamTypeOK, WorkerState, WorkerSteps
<1> QED BY <1>1 DEF StreamTypes

LEMMA WorkTypes ==
  ASSUME StreamTypes, NEW w \in Workers, Work(w)
  PROVE  StreamTypes'
<1> USE DEF response, history
<1>0. /\ worker \in [Workers -> WorkerState] /\ worker[w] \in WorkerState
      /\ streaming \in BOOLEAN /\ deltas \in 0..MaxDeltas /\ voice \in Workers \union {NoWorker}
      /\ answer \in Seq(Bytes) /\ disturbed \in BOOLEAN /\ StreamTypeOK
  BY DEF StreamTypes, StreamTypeOK
<1>1. CASE Check(w)
  <2>1. \E s \in WorkerSteps : worker' = [worker EXCEPT ![w].at = s]
    BY <1>1 DEF Check, To, WorkerSteps
  <2>2. worker' \in [Workers -> WorkerState]
    BY <1>0, <2>1, WorkerMoves
  <2> QED BY <1>0, <1>1, <2>2, WorkersKeepTypes DEF Check
<1>2. CASE Claim(w)
  <2>1. "stream" \in WorkerSteps /\ worker' = [worker EXCEPT ![w].at = "stream"]
    BY <1>2 DEF Claim, To, WorkerSteps
  <2>2. worker' \in [Workers -> WorkerState]
    BY <1>0, <2>1, WorkerMoves
  <2>3. <<>> \in Seq(Bytes)
    OBVIOUS
  <2>4. disturbed' \in BOOLEAN
    <3>1. CASE disturbed BY <1>2, <3>1 DEF Claim
    <3>2. CASE ~disturbed BY <1>2, <3>2 DEF Claim
    <3> QED BY <3>1, <3>2
  <2> QED BY <1>0, <1>2, <2>2, <2>3, <2>4, WorkersKeepTypes DEF Claim
<1>3. CASE Delta(w)
  <2>1. PICK n \in DeltaSizes :
          /\ worker' = [worker EXCEPT ![w].at = "add", ![w].text = Text(n)]
          /\ answer' = IF w = voice /\ ~disturbed THEN answer \o Kept(Text(n)) ELSE answer
    BY <1>3 DEF Delta
  <2>2. Text(n) \in Seq(Bytes)
    BY <1>3, TextIsText DEF Delta
  <2>3. worker' \in [Workers -> WorkerState]
    BY <1>0, <2>1, <2>2, WorkerHolds DEF WorkerSteps
  <2>4. answer' \in Seq(Bytes)
    BY <1>0, <2>1, <2>2, KeptFits
  <2>5. deltas' \in 0..MaxDeltas
    BY <1>0, <1>3, StreamAssumption DEF Delta
  <2> QED BY <1>0, <1>3, <2>3, <2>4, <2>5, WorkersKeepTypes DEF Delta
<1>4. CASE Finish(w)
  <2>1. worker' \in [Workers -> WorkerState]
    BY <1>0, <1>4, WorkerFinishes DEF Finish
  <2>2. StreamTypeOK'
    BY <1>0, <1>4, <2>1 DEF Finish, StreamTypeOK, WorkerState, WorkerSteps
  <2> QED BY <1>4, <2>1, <2>2 DEF Finish, StreamTypes
<1>5. CASE Add(w)
  <2>1. CASE chunk # <<>>
    <3>1. worker' \in [Workers -> WorkerState]
      BY <1>0, <1>5, <2>1, WorkerMoves DEF Add, To, WorkerSteps
    <3> QED BY <1>0, <1>5, <2>1, <3>1, WorkersKeepTypes DEF Add
  <2>2. CASE chunk = <<>>
    <3>1. worker' \in [Workers -> WorkerState]
      <4>1. <<>> \in Seq(Bytes)
        OBVIOUS
      <4> QED BY <1>0, <1>5, <2>2, <4>1, WorkerHolds DEF Add, WorkerSteps
    <3>2. chunk' \in Seq(Bytes) /\ Len(chunk') < ChunkSize
      BY <1>0, <1>5, <2>2, KeptFits DEF Add, WorkerState
    <3>3. StreamTypeOK'
      BY <1>0, <1>5, <3>1, <3>2 DEF Add, StreamTypeOK, WorkerState, WorkerSteps
    <3>4. cpu # "read"
      BY <2>2 DEF StreamTypes
    <3> QED BY <1>5, <3>1, <3>3, <3>4 DEF Add, StreamTypes
  <2> QED BY <2>1, <2>2
<1>6. CASE CurlEnds(w)
  <2>1. worker' \in [Workers -> WorkerState]
    BY <1>0, <1>6, WorkerMoves DEF CurlEnds, To, WorkerSteps
  <2> QED BY <1>0, <1>6, <2>1, WorkersKeepTypes DEF CurlEnds
<1> QED BY <1>1, <1>2, <1>3, <1>4, <1>5, <1>6 DEF Work

LEMMA StartTypes ==
  ASSUME StreamTypes, NEW port \in {120, 121}, request \in 1..MaxRequests, Starts(port)
  PROVE  worker' \in [Workers -> WorkerState]
<1>1. <<request, port>> \in Workers
  BY DEF Workers
<1>2. CASE streaming
  BY <1>2 DEF Starts, StreamTypes
<1>3. CASE ~streaming
  BY <1>1, <1>3, WorkerMoves DEF Starts, StreamTypes, WorkerSteps
<1> QED BY <1>2, <1>3

\* While the program is busy there is a request.
Asked == cpu # "idle" => request \in 1..MaxRequests

LEMMA ReadTypes ==
  ASSUME StreamTypes, Read PROVE StreamTypes'
<1> USE DEF response, history
<1>1. /\ chunk \in Seq(Bytes) /\ chunk # <<>> /\ got \in Seq(Bytes) /\ Len(got) < ReaderSize
      /\ Len(chunk) < ChunkSize /\ result = "none" /\ StreamTypeOK
      /\ worker \in [Workers -> WorkerState]
  BY DEF Read, Take, StreamTypes, StreamTypeOK
<1>2. /\ chunk' \in Seq(Bytes) /\ Len(chunk') < ChunkSize
      /\ got' \in Seq(Bytes) /\ Len(got') = Len(got) + 1 /\ Len(got') <= ReaderSize
  BY <1>1, ChunkHead, StreamAssumption DEF Read, Take
<1>3. worker' \in [Workers -> WorkerState]
  BY <1>1, SignalMoves DEF Read
<1>4. \/ cpu' = "idle" /\ result' = "full"
      \/ cpu' = "poll" /\ result' = "none" /\ Len(got') < ReaderSize
  BY <1>1, <1>2, StreamAssumption DEF Read, Take, Stops
<1>5. StreamTypeOK'
  BY <1>1, <1>2, <1>3, <1>4 DEF Read, Take, StreamTypeOK, WorkerState, WorkerSteps
<1> QED BY <1>2, <1>3, <1>4, <1>5 DEF StreamTypes

LEMMA ProgramTypes ==
  ASSUME StreamTypes, Asked, Ask \/ Chat PROVE StreamTypes' /\ Asked'
<1> USE DEF response, history
<1>0. StreamTypeOK /\ worker \in [Workers -> WorkerState] /\ MaxRequests \in Nat /\ ReaderSize >= 1
  BY StreamAssumption DEF StreamTypes
<1>1. CASE Ask
  <2>1. disturbed' \in BOOLEAN
    <3>1. CASE \E w \in Workers : Alive(w) BY <1>1, <3>1 DEF Ask
    <3>2. CASE ~\E w \in Workers : Alive(w) BY <1>1, <3>2 DEF Ask
    <3> QED BY <3>1, <3>2
  <2>2. request' \in 1..MaxRequests /\ request' \in 0..MaxRequests
    BY <1>0, <1>1 DEF Ask, StreamTypeOK
  <2>3. got' = <<>> /\ answer' = <<>> /\ voice' = NoWorker /\ cpu' = "reset" /\ result' = "none"
    BY <1>1 DEF Ask
  <2>4. StreamTypeOK'
    BY <1>0, <1>1, <2>1, <2>2, <2>3, EmptyText DEF Ask, StreamTypeOK
  <2> QED BY <1>0, <1>1, <2>2, <2>3, <2>4, EmptyText DEF Ask, StreamTypes, Asked
<1>2. CASE ResetResponse
  <2>1. StreamTypeOK'
    BY <1>0, <1>2, EmptyText DEF ResetResponse, StreamTypeOK
  <2> QED BY <1>0, <1>2, <2>1 DEF ResetResponse, StreamTypes, Asked
<1>3. CASE EndPayload \/ Send
  <2>1. request \in 1..MaxRequests /\ cpu # "idle"
    BY <1>3 DEF EndPayload, Send, Asked
  <2>2. worker' \in [Workers -> WorkerState]
    BY <1>3, <2>1, StartTypes DEF EndPayload, Send
  <2>3. StreamTypeOK'
    BY <1>0, <1>3, <2>2 DEF EndPayload, Send, Starts, StreamTypeOK, WorkerState, WorkerSteps
  <2> QED BY <1>3, <2>1, <2>2, <2>3 DEF EndPayload, Send, Starts, StreamTypes, Asked
<1>4. CASE Poll
  <2>1. StreamTypeOK'
    BY <1>0, <1>4 DEF Poll, Stops, StreamTypeOK
  <2> QED BY <1>0, <1>4, <2>1 DEF Poll, Stops, StreamTypes, Asked
<1>5. CASE Read
  <2>1. request \in 1..MaxRequests /\ request' = request
    BY <1>5 DEF Read, Take, Asked
  <2> QED BY <1>5, <2>1, ReadTypes DEF Asked
<1> QED BY <1>1, <1>2, <1>3, <1>4, <1>5 DEF Chat

\* Every variable keeps its type: the chunk never holds more than its size, and the
\* reader's buffer is never exceeded (add_response_data, ch_recv).
THEOREM StreamTypesKept == StreamSpec => []StreamTypeOK
<1>1. StreamInit => StreamTypes /\ Asked
  BY StreamTypesInit DEF StreamInit, Asked
<1>2. StreamTypes /\ Asked /\ [StreamNext]_streamVars => StreamTypes' /\ Asked'
  <2> SUFFICES ASSUME StreamTypes, Asked, [StreamNext]_streamVars PROVE StreamTypes' /\ Asked'
    OBVIOUS
  <2>1. CASE Ask \/ Chat
    BY <2>1, ProgramTypes
  <2>2. ASSUME NEW w \in Workers, Work(w) PROVE StreamTypes' /\ Asked'
    <3>1. cpu' = cpu /\ request' = request
      BY <2>2 DEF Work, Check, Claim, Delta, Finish, Add, CurlEnds
    <3> QED BY <2>2, <3>1, WorkTypes DEF Asked
  <2>3. CASE UNCHANGED streamVars
    BY <2>3 DEF streamVars, StreamTypes, StreamTypeOK, Asked
  <2> QED BY <2>1, <2>2, <2>3 DEF StreamNext
<1>3. StreamTypes => StreamTypeOK
  BY DEF StreamTypes
<1> QED BY <1>1, <1>2, <1>3, PTL DEF StreamSpec

-----------------------------------------------------------------------------
(* The answer that is streamed *)

StreamInv == StreamTypes /\ Asked /\ Shapes /\ (~disturbed => OthersWait /\ Unanswered /\ Streamed)

LEMMA StreamInvInit == ASSUME StreamInit PROVE StreamInv
<1>1. StreamTypes /\ Asked
  BY StreamTypesInit DEF StreamInit, Asked
<1>2. \A w \in Workers : worker[w] = NotStarted
  BY DEF StreamInit
<1> QED BY <1>1, <1>2 DEF StreamInit, StreamInv, Shapes, NotStarted, OthersWait, Alive,
        Unanswered, Streamed

\* Nothing starts or ends while a thread steps.
LEMMA WorkLeaves ==
  ASSUME NEW w \in Workers, Work(w)
  PROVE  /\ UNCHANGED <<cpu, request, got, result>>
         /\ \A v : ToStart(v)' = ToStart(v)
<1>1. UNCHANGED <<cpu, request, got, result>>
  BY DEF Work, Check, Claim, Delta, Finish, Add, CurlEnds
<1> QED BY <1>1 DEF ToStart

\* A thread that steps was started.
LEMMA WorkerStarted ==
  ASSUME Shapes, NEW w \in Workers, Work(w)
  PROVE  ~ToStart(w) /\ Alive(w)
<1>1. worker[w].at \notin {"none", "gone"}
  BY DEF Work, Check, Claim, Delta, Finish, Add, CurlEnds, At
<1> QED BY <1>1 DEF Shapes, NotStarted, Alive

LEMMA CheckStep ==
  ASSUME StreamInv, NEW w \in Workers, Check(w)
  PROVE  StreamInv'
<1>0. StreamTypes /\ Asked /\ Shapes /\ worker \in [Workers -> WorkerState]
  BY DEF StreamInv, StreamTypes
<1>a. Work(w)
  BY DEF Work
<1>1. StreamTypes' /\ Asked'
  BY <1>0, <1>a, WorkTypes, WorkLeaves DEF Asked
<1>2. PICK s \in {"gone", "claim"} : worker' = [worker EXCEPT ![w].at = s]
  BY DEF Check, To
<1>3. /\ worker'[w].at = s
      /\ worker'[w].text = worker[w].text /\ worker'[w].finished = worker[w].finished
      /\ \A v \in Workers \ {w} : worker'[v] = worker[v]
  BY <1>0, <1>2, WorkerMoves DEF WorkerSteps
<1>4. worker[w].at = "check" /\ UNCHANGED <<chunk, complete, cpu, request, got, result, voice, answer, disturbed>>
  BY DEF Check, At, response, history
<1>5. worker[w].text = <<>> /\ ~worker[w].finished
  BY <1>0, <1>4 DEF Shapes
<1>6. Shapes'
  BY <1>0, <1>a, <1>3, <1>5, WorkLeaves, WorkerStarted DEF Shapes
<1>7. ASSUME ~disturbed PROVE (OthersWait /\ Unanswered /\ Streamed)'
  <2>1. OthersWait /\ Unanswered /\ Streamed
    BY <1>7 DEF StreamInv
  <2>2. OthersWait'
    BY <2>1, <1>3, <1>4 DEF OthersWait, Alive
  <2>3. Unanswered'
    BY <2>1, <1>4 DEF Unanswered
  <2>4. ASSUME voice # NoWorker PROVE Streamed'
    <3>1. voice \in Workers /\ voice' = voice
      BY <2>4, <1>0, <1>4 DEF StreamTypes, StreamTypeOK
    <3>2. worker'[voice].text = worker[voice].text
      BY <3>1, <1>3
    <3>3. worker'[voice].finished = worker[voice].finished
      BY <3>1, <1>3
    <3>4. worker'[voice].at # "none"
      BY <3>1, <1>3, <2>1, <2>4 DEF Streamed
    <3>5. Kept(worker[voice].text)' = Kept(worker[voice].text)
      BY <3>1, <3>2 DEF Kept
    <3> QED BY <2>1, <2>4, <3>1, <3>3, <3>4, <3>5, <1>4 DEF Streamed
  <2>5. Streamed'
    BY <2>4, <1>4 DEF Streamed
  <2> QED BY <2>2, <2>3, <2>5
<1> QED BY <1>1, <1>4, <1>6, <1>7 DEF StreamInv

LEMMA ClaimStep ==
  ASSUME StreamInv, NEW w \in Workers, Claim(w)
  PROVE  StreamInv'
<1>0. StreamTypes /\ Asked /\ Shapes /\ worker \in [Workers -> WorkerState]
  BY DEF StreamInv, StreamTypes
<1>a. Work(w)
  BY DEF Work
<1>1. StreamTypes' /\ Asked'
  BY <1>0, <1>a, WorkTypes, WorkLeaves DEF Asked
<1>3. /\ worker'[w].at = "stream"
      /\ worker'[w].text = worker[w].text /\ worker'[w].finished = worker[w].finished
      /\ \A v \in Workers \ {w} : worker'[v] = worker[v]
  BY <1>0, WorkerMoves DEF WorkerSteps, Claim, To
<1>4. /\ worker[w].at = "claim" /\ UNCHANGED <<chunk, complete, cpu, request, got, result>>
      /\ voice' = w /\ answer' = <<>>
      /\ disturbed' = (disturbed \/ voice # NoWorker \/ w[1] # request)
  BY DEF Claim, At, response
<1>5. worker[w].text = <<>> /\ ~worker[w].finished
  BY <1>0, <1>4 DEF Shapes
<1>6. Shapes'
  BY <1>0, <1>a, <1>3, <1>5, WorkLeaves, WorkerStarted DEF Shapes
<1>7. ASSUME ~disturbed' PROVE (OthersWait /\ Unanswered /\ Streamed)'
  <2>1. ~disturbed /\ voice = NoWorker /\ w[1] = request /\ w # NoWorker
    BY <1>7, <1>4, NoWorkerAssumption
  <2>2. OthersWait /\ Unanswered
    BY <2>1 DEF StreamInv
  <2>3. cpu \notin {"reset", "payload"}
    BY <2>2, <1>a, <1>0, WorkerStarted DEF OthersWait
  <2>4. chunk = <<>> /\ ~complete /\ got = <<>> /\ result # "end"
    BY <2>1, <2>2, <2>3 DEF Unanswered
  <2>5. OthersWait'
    <3>1. ASSUME NEW v \in Workers, Alive(v)', v # w
          PROVE  v[1] = request /\ worker'[v].at \in {"check", "claim"}
      <4>1. Alive(v) /\ worker'[v] = worker[v]
        BY <3>1, <1>3 DEF Alive
      <4>2. v # voice
        BY <2>1, NoWorkerAssumption
      <4> QED BY <2>2, <4>1, <4>2 DEF OthersWait
    <3> QED BY <2>1, <2>3, <3>1, <1>4 DEF OthersWait
  <2>6. complete = worker'[w].finished
    BY <2>4, <1>3, <1>5, <1>0 DEF StreamTypes, StreamTypeOK
  <2>7. <<>> = (<<>> \o <<>>) \o Kept(<<>>)
    BY KeptNothing
  <2>8. Streamed'
    BY <2>1, <2>3, <2>4, <2>6, <2>7, <1>3, <1>4, <1>5 DEF Streamed, Kept
  <2>9. Unanswered'
    BY <2>1, <1>4 DEF Unanswered
  <2> QED BY <2>5, <2>8, <2>9
<1> QED BY <1>1, <1>6, <1>7 DEF StreamInv

\* A thread that streams undisturbed is the voice, and the chunk is in step with it.
LEMMA StreamingVoice ==
  ASSUME StreamInv, ~disturbed, NEW w \in Workers, worker[w].at \in {"stream", "add", "wait"}
  PROVE  /\ w = voice /\ voice # NoWorker
         /\ OthersWait /\ Streamed
         /\ w[1] = request /\ cpu \notin {"reset", "payload"}
<1>1. OthersWait /\ Streamed /\ Alive(w)
  BY DEF StreamInv, Alive
<1>2. w = voice
  BY <1>1 DEF OthersWait
<1> QED BY <1>1, <1>2, NoWorkerAssumption DEF OthersWait

LEMMA DeltaStep ==
  ASSUME StreamInv, NEW w \in Workers, Delta(w)
  PROVE  StreamInv'
<1>0. StreamTypes /\ Asked /\ Shapes /\ worker \in [Workers -> WorkerState]
  BY DEF StreamInv, StreamTypes
<1>a. Work(w)
  BY DEF Work
<1>1. StreamTypes' /\ Asked'
  BY <1>0, <1>a, WorkTypes, WorkLeaves DEF Asked
<1>2. PICK n \in DeltaSizes :
        /\ worker' = [worker EXCEPT ![w].at = "add", ![w].text = Text(n)]
        /\ answer' = IF w = voice /\ ~disturbed THEN answer \o Kept(Text(n)) ELSE answer
  BY DEF Delta
<1>3. Text(n) \in Seq(Bytes)
  BY <1>0, TextIsText DEF Delta
<1>4. /\ worker'[w].at = "add" /\ worker'[w].text = Text(n)
      /\ worker'[w].finished = worker[w].finished
      /\ \A v \in Workers \ {w} : worker'[v] = worker[v]
  BY <1>0, <1>2, <1>3, WorkerHolds DEF WorkerSteps
<1>5. /\ worker[w].at = "stream" /\ ~worker[w].finished
      /\ UNCHANGED <<chunk, complete, cpu, request, got, result, voice, disturbed>>
  BY DEF Delta, At, response
<1>6. Shapes'
  BY <1>0, <1>a, <1>4, <1>5, WorkLeaves, WorkerStarted DEF Shapes
<1>7. ASSUME ~disturbed PROVE (OthersWait /\ Unanswered /\ Streamed)'
  <2>1. /\ w = voice /\ voice # NoWorker /\ OthersWait /\ Streamed
        /\ w[1] = request /\ cpu \notin {"reset", "payload"}
    BY <1>5, <1>7, StreamingVoice
  <2>2. OthersWait'
    BY <2>1, <1>4, <1>5 DEF OthersWait, Alive
  <2>3. worker[w].text = <<>>
    BY <1>0, <1>5 DEF Shapes
  <2>4. answer = (got \o chunk) \o Kept(<<>>)
    BY <2>1, <2>3 DEF Streamed
  <2>5. got \in Seq(Bytes) /\ chunk \in Seq(Bytes)
    BY <1>0 DEF StreamTypes, StreamTypeOK
  <2>6. answer = got \o chunk
    <3>1. got \o chunk \in Seq(Bytes)
      BY <2>5
    <3>2. (got \o chunk) \o <<>> = got \o chunk
      BY <3>1, ConcatEmpty
    <3> QED BY <2>4, <3>2, KeptNothing
  <2>7. answer' = (got \o chunk) \o Kept(Text(n))
    BY <1>2, <1>7, <2>1, <2>6
  <2>8. Streamed'
    BY <2>1, <2>7, <1>4, <1>5 DEF Streamed, Kept
  <2> QED BY <2>1, <2>2, <2>8, <1>5 DEF Unanswered
<1> QED BY <1>1, <1>5, <1>6, <1>7 DEF StreamInv

LEMMA FinishStep ==
  ASSUME StreamInv, NEW w \in Workers, Finish(w)
  PROVE  StreamInv'
<1>0. StreamTypes /\ Asked /\ Shapes /\ worker \in [Workers -> WorkerState]
  BY DEF StreamInv, StreamTypes
<1>a. Work(w)
  BY DEF Work
<1>1. StreamTypes' /\ Asked'
  BY <1>0, <1>a, WorkTypes, WorkLeaves DEF Asked
<1>4. /\ worker'[w].at = worker[w].at /\ worker'[w].text = worker[w].text
      /\ worker'[w].finished = TRUE
      /\ \A v \in Workers \ {w} : worker'[v] = worker[v]
  BY <1>0, WorkerFinishes DEF Finish
<1>5. /\ worker[w].at = "stream" /\ complete' = TRUE
      /\ UNCHANGED <<chunk, cpu, request, got, result, voice, answer, disturbed>>
  BY DEF Finish, At, history
<1>6. Shapes'
  BY <1>0, <1>a, <1>4, <1>5, WorkLeaves, WorkerStarted DEF Shapes
<1>7. ASSUME ~disturbed PROVE (OthersWait /\ Unanswered /\ Streamed)'
  <2>1. /\ w = voice /\ voice # NoWorker /\ OthersWait /\ Streamed
    BY <1>5, <1>7, StreamingVoice
  <2>2. OthersWait'
    BY <2>1, <1>4, <1>5 DEF OthersWait, Alive
  <2>3. Streamed'
    BY <2>1, <1>4, <1>5 DEF Streamed, Kept
  <2> QED BY <2>1, <2>2, <2>3, <1>5 DEF Unanswered
<1> QED BY <1>1, <1>5, <1>6, <1>7 DEF StreamInv

LEMMA AddStep ==
  ASSUME StreamInv, NEW w \in Workers, Add(w)
  PROVE  StreamInv'
<1>0. StreamTypes /\ Asked /\ Shapes /\ worker \in [Workers -> WorkerState]
  BY DEF StreamInv, StreamTypes
<1>a. Work(w)
  BY DEF Work
<1>1. StreamTypes' /\ Asked'
  BY <1>0, <1>a, WorkTypes, WorkLeaves DEF Asked
<1>2. /\ worker[w].at = "add"
      /\ UNCHANGED <<complete, cpu, request, got, result, voice, answer, disturbed>>
  BY DEF Add, At, history
<1>3. ~worker[w].finished
  BY <1>0, <1>2 DEF Shapes
<1>4. CASE chunk # <<>>
  <2>1. /\ worker'[w].at = "wait" /\ chunk' = chunk
        /\ worker'[w].text = worker[w].text /\ worker'[w].finished = worker[w].finished
        /\ \A v \in Workers \ {w} : worker'[v] = worker[v]
    BY <1>0, <1>4, WorkerMoves DEF WorkerSteps, Add, To
  <2>2. Shapes'
    BY <1>0, <1>a, <1>3, <2>1, WorkLeaves, WorkerStarted DEF Shapes
  <2>3. ASSUME ~disturbed PROVE (OthersWait /\ Unanswered /\ Streamed)'
    <3>1. /\ w = voice /\ voice # NoWorker /\ OthersWait /\ Streamed
      BY <1>2, <2>3, StreamingVoice
    <3>2. OthersWait'
      BY <3>1, <1>2, <2>1 DEF OthersWait, Alive
    <3>3. Streamed'
      BY <3>1, <1>2, <2>1 DEF Streamed, Kept
    <3> QED BY <3>1, <3>2, <3>3, <1>2 DEF Unanswered
  <2> QED BY <1>1, <1>2, <2>2, <2>3 DEF StreamInv
<1>5. CASE chunk = <<>>
  <2>0. worker' = [worker EXCEPT ![w].at = "stream", ![w].text = <<>>] /\ chunk' = Kept(worker[w].text)
    BY <1>5 DEF Add
  <2>1. /\ worker'[w].at = "stream" /\ worker'[w].text = <<>>
        /\ worker'[w].finished = worker[w].finished
        /\ \A v \in Workers \ {w} : worker'[v] = worker[v]
    BY <1>0, <2>0, WorkerHolds, EmptyText DEF WorkerSteps
  <2>2. Shapes'
    BY <1>0, <1>a, <1>3, <2>1, WorkLeaves, WorkerStarted DEF Shapes
  <2>3. ASSUME ~disturbed PROVE (OthersWait /\ Unanswered /\ Streamed)'
    <3>1. /\ w = voice /\ voice # NoWorker /\ OthersWait /\ Streamed
      BY <1>2, <2>3, StreamingVoice
    <3>2. OthersWait'
      BY <3>1, <1>2, <2>1 DEF OthersWait, Alive
    <3>3. worker[w].text \in Seq(Bytes) /\ got \in Seq(Bytes)
      BY <1>0 DEF WorkerState, StreamTypes, StreamTypeOK
    <3>4. chunk' \in Seq(Bytes)
      BY <2>0, <3>3, KeptFits
    <3>5. answer = (got \o <<>>) \o chunk'
      BY <3>1, <1>5, <2>0 DEF Streamed
    <3>6. answer = (got \o chunk') \o <<>>
      BY <3>3, <3>4, <3>5
    <3>7. answer = (got \o chunk') \o Kept(<<>>)
      BY <3>6, KeptNothing
    <3>8. result # "end"
      BY <3>1, <1>3 DEF Streamed
    <3>9. Streamed'
      BY <3>1, <3>7, <3>8, <1>2, <2>1 DEF Streamed, Kept
    <3> QED BY <3>1, <3>2, <3>9, <1>2 DEF Unanswered
  <2> QED BY <1>1, <1>2, <2>2, <2>3 DEF StreamInv
<1> QED BY <1>4, <1>5

LEMMA CurlEndsStep ==
  ASSUME StreamInv, NEW w \in Workers, CurlEnds(w)
  PROVE  StreamInv'
<1>0. StreamTypes /\ Asked /\ Shapes /\ worker \in [Workers -> WorkerState]
  BY DEF StreamInv, StreamTypes
<1>a. Work(w)
  BY DEF Work
<1>1. StreamTypes' /\ Asked'
  BY <1>0, <1>a, WorkTypes, WorkLeaves DEF Asked
<1>4. /\ worker'[w].at = "gone" /\ worker'[w].text = worker[w].text
      /\ worker'[w].finished = worker[w].finished
      /\ \A v \in Workers \ {w} : worker'[v] = worker[v]
  BY <1>0, WorkerMoves DEF CurlEnds, To, WorkerSteps
<1>5. /\ worker[w].at = "stream"
      /\ UNCHANGED <<chunk, complete, cpu, request, got, result, voice, answer, disturbed>>
  BY DEF CurlEnds, At, response, history
<1>6. Shapes'
  BY <1>0, <1>a, <1>4, <1>5, WorkLeaves, WorkerStarted DEF Shapes
<1>7. ASSUME ~disturbed PROVE (OthersWait /\ Unanswered /\ Streamed)'
  <2>1. /\ w = voice /\ voice # NoWorker /\ OthersWait /\ Streamed
    BY <1>5, <1>7, StreamingVoice
  <2>2. OthersWait'
    BY <2>1, <1>4, <1>5 DEF OthersWait, Alive
  <2>3. Streamed'
    BY <2>1, <1>4, <1>5 DEF Streamed, Kept
  <2> QED BY <2>1, <2>2, <2>3, <1>5 DEF Unanswered
<1> QED BY <1>1, <1>5, <1>6, <1>7 DEF StreamInv

(* WorkerSteps of the program *)

LEMMA AskStep ==
  ASSUME StreamInv, Ask PROVE StreamInv'
<1>0. StreamTypes /\ Asked /\ Shapes
  BY DEF StreamInv
<1>1. StreamTypes' /\ Asked'
  BY <1>0, ProgramTypes
<1>2. /\ request' = request + 1 /\ got' = <<>> /\ result' = "none" /\ cpu' = "reset"
      /\ voice' = NoWorker /\ answer' = <<>> /\ worker' = worker
      /\ disturbed' = \E w \in Workers : Alive(w)
  BY DEF Ask
<1>3. request \in Nat /\ \A w \in Workers : w[1] \in Nat
  BY <1>0, StreamAssumption DEF StreamTypes, StreamTypeOK, Workers
<1>4. ASSUME NEW w \in Workers, ToStart(w)' PROVE ToStart(w)
  BY <1>2, <1>3, <1>4 DEF ToStart
<1>5. Shapes'
  BY <1>0, <1>2, <1>4 DEF Shapes
<1>6. ASSUME ~disturbed' PROVE (OthersWait /\ Unanswered /\ Streamed)'
  <2>1. \A w \in Workers : ~Alive(w)'
    BY <1>2, <1>6 DEF Alive
  <2> QED BY <2>1, <1>2 DEF OthersWait, Unanswered, Streamed
<1> QED BY <1>1, <1>5, <1>6 DEF StreamInv

LEMMA ResetStep ==
  ASSUME StreamInv, ResetResponse PROVE StreamInv'
<1>0. StreamTypes /\ Asked /\ Shapes
  BY DEF StreamInv
<1>1. StreamTypes' /\ Asked'
  BY <1>0, ProgramTypes DEF Chat
<1>2. /\ cpu = "reset" /\ cpu' = "payload" /\ chunk' = <<>> /\ complete' = FALSE
      /\ UNCHANGED <<worker, request, got, result, voice, answer, disturbed>>
  BY DEF ResetResponse, history
<1>3. Shapes'
  BY <1>0, <1>2 DEF Shapes, ToStart
<1>4. ASSUME ~disturbed PROVE (OthersWait /\ Unanswered /\ Streamed)'
  <2>1. OthersWait /\ Unanswered /\ Streamed
    BY <1>4 DEF StreamInv
  <2>2. voice = NoWorker /\ \A w \in Workers : ~Alive(w)
    BY <2>1, <1>2 DEF OthersWait, Streamed
  <2> QED BY <2>1, <2>2, <1>2 DEF OthersWait, Alive, Unanswered, Streamed
<1> QED BY <1>1, <1>2, <1>3, <1>4 DEF StreamInv

\* The request starts a thread, or finds the flag set.
LEMMA StartStep ==
  ASSUME StreamInv, EndPayload \/ Send PROVE StreamInv'
<1>0. StreamTypes /\ Asked /\ Shapes /\ worker \in [Workers -> WorkerState]
  BY DEF StreamInv, StreamTypes
<1>1. StreamTypes' /\ Asked'
  BY <1>0, ProgramTypes DEF Chat
<1>2. PICK port \in {120, 121} :
        /\ Starts(port)
        /\ \/ cpu = "payload" /\ cpu' = "send" /\ port = 121
           \/ cpu = "send" /\ cpu' = "poll" /\ port = 120
  BY DEF EndPayload, Send
<1>3. UNCHANGED <<chunk, complete, request, got, result, voice, answer, disturbed>>
  BY <1>2 DEF Starts, response, history
<1> DEFINE new == <<request, port>>
<1>4. new \in Workers /\ new[1] = request /\ new[2] = port
  BY <1>0, <1>2 DEF Asked, Workers
<1>5. ToStart(new) /\ ~ToStart(new)'
  BY <1>2, <1>3, <1>4, <1>0, StreamAssumption DEF ToStart, StreamTypes, StreamTypeOK
<1>6. worker[new] = NotStarted
  BY <1>0, <1>4, <1>5 DEF Shapes
<1>7. /\ worker'[new].at \in {"none", "check"}
      /\ worker'[new].text = <<>> /\ ~worker'[new].finished
      /\ \A v \in Workers \ {new} : worker'[v] = worker[v]
  <2>1. CASE streaming
    BY <1>2, <1>6, <2>1 DEF Starts, NotStarted
  <2>2. CASE ~streaming
    BY <1>0, <1>2, <1>4, <1>6, <2>2, WorkerMoves DEF Starts, NotStarted, WorkerSteps
  <2> QED BY <2>1, <2>2
<1>8. ASSUME NEW w \in Workers, ToStart(w)' PROVE ToStart(w) /\ w # new
  BY <1>2, <1>3, <1>5, <1>8 DEF ToStart
<1> HIDE DEF new
<1>9. Shapes'
  <2>1. ASSUME NEW w \in Workers
        PROVE  /\ ToStart(w)' => worker'[w] = NotStarted
               /\ worker'[w].at \notin {"add", "wait"} => worker'[w].text = <<>>
               /\ worker'[w].finished => worker'[w].at \in {"stream", "gone"}
    <3>1. CASE w = new
      BY <3>1, <1>7, <1>8
    <3>2. CASE w # new
      <4>1. worker'[w] = worker[w]
        BY <3>2, <1>7
      <4>2. ToStart(w)' => ToStart(w)
        BY <1>8
      <4> QED BY <4>1, <4>2, <1>0 DEF Shapes
    <3> QED BY <3>1, <3>2
  <2> QED BY <2>1 DEF Shapes
<1>10. ASSUME ~disturbed PROVE (OthersWait /\ Unanswered /\ Streamed)'
  <2>1. OthersWait /\ Unanswered /\ Streamed
    BY <1>10 DEF StreamInv
  <2>2. cpu' \notin {"reset", "payload"} /\ cpu # "reset"
    BY <1>2
  <2>3. new # voice
    <3>1. CASE voice = NoWorker
      BY <3>1, <1>4, NoWorkerAssumption
    <3>2. CASE voice # NoWorker
      BY <3>2, <2>1, <1>6 DEF Streamed, NotStarted
    <3> QED BY <3>1, <3>2
  <2>4. OthersWait'
    <3>1. ASSUME NEW w \in Workers, Alive(w)'
          PROVE  w[1] = request /\ (w # voice => worker'[w].at \in {"check", "claim"})
      <4>1. CASE w = new
        BY <4>1, <3>1, <1>4, <1>7 DEF Alive
      <4>2. CASE w # new
        BY <4>2, <3>1, <2>1, <1>7 DEF Alive, OthersWait
      <4> QED BY <4>1, <4>2
    <3> QED BY <3>1, <2>2, <1>3 DEF OthersWait
  <2>5. Unanswered'
    BY <2>1, <2>2, <1>3 DEF Unanswered
  <2>6. voice # NoWorker => worker'[voice] = worker[voice]
    BY <2>3, <1>7, <1>0 DEF StreamTypes, StreamTypeOK
  <2>7. Streamed'
    BY <2>1, <2>2, <2>6, <1>3 DEF Streamed, Kept
  <2> QED BY <2>4, <2>5, <2>7
<1> QED BY <1>1, <1>3, <1>9, <1>10 DEF StreamInv

LEMMA PollStep ==
  ASSUME StreamInv, Poll PROVE StreamInv'
<1>0. StreamTypes /\ Asked /\ Shapes
  BY DEF StreamInv
<1>1. StreamTypes' /\ Asked'
  BY <1>0, ProgramTypes DEF Chat
<1>2. /\ cpu = "poll" /\ cpu' \in {"read", "idle"}
      /\ UNCHANGED <<chunk, complete, worker, request, got, voice, answer, disturbed>>
      /\ result' = "end" => result = "end" \/ (chunk = <<>> /\ complete)
  BY DEF Poll, Stops, response, history
<1>3. Shapes'
  BY <1>0, <1>2 DEF Shapes, ToStart
<1>4. ASSUME ~disturbed PROVE (OthersWait /\ Unanswered /\ Streamed)'
  <2>1. OthersWait /\ Unanswered /\ Streamed
    BY <1>4 DEF StreamInv
  <2>2. OthersWait'
    BY <2>1, <1>2 DEF OthersWait, Alive
  <2>3. Unanswered'
    BY <2>1, <1>2 DEF Unanswered
  <2>4. Streamed'
    BY <2>1, <1>2 DEF Streamed, Kept
  <2> QED BY <2>2, <2>3, <2>4
<1> QED BY <1>1, <1>2, <1>3, <1>4 DEF StreamInv

LEMMA ReadStep ==
  ASSUME StreamInv, Read PROVE StreamInv'
<1>0. StreamTypes /\ Asked /\ Shapes /\ worker \in [Workers -> WorkerState]
  BY DEF StreamInv, StreamTypes
<1>1. StreamTypes' /\ Asked'
  BY <1>0, ProgramTypes DEF Chat
<1>2. /\ cpu = "read" /\ cpu' \in {"poll", "idle"}
      /\ got' = Append(got, Head(chunk)) /\ chunk' = Tail(chunk)
      /\ UNCHANGED <<complete, request, voice, answer, disturbed>>
      /\ result' # "end"
  <2>1. cpu = "read" /\ result = "none"
    BY <1>0 DEF Read, Take, StreamTypes
  <2> QED BY <2>1 DEF Read, Take, Stops, history
<1>3. \A v \in Workers :
        /\ worker'[v].at = (IF worker[v].at = "wait" THEN "add" ELSE worker[v].at)
           \/ worker'[v].at = worker[v].at
        /\ worker'[v].text = worker[v].text /\ worker'[v].finished = worker[v].finished
        /\ ~Alive(v) => worker'[v] = worker[v]
  <2>1. CASE worker' = worker
    BY <2>1
  <2>2. CASE worker' = Signalled
    <3>1. \A v \in Workers : ~Alive(v) => worker'[v] = worker[v]
      BY <2>2 DEF Signalled, Alive
    <3> QED BY <2>2, <3>1, <1>0, SignalMoves
  <2> QED BY <2>1, <2>2 DEF Read
<1>4. ASSUME NEW w \in Workers, ToStart(w)' PROVE ToStart(w)
  BY <1>2, <1>4 DEF ToStart
<1>5. Shapes'
  <2>1. ASSUME NEW w \in Workers
        PROVE  /\ ToStart(w)' => worker'[w] = NotStarted
               /\ worker'[w].at \notin {"add", "wait"} => worker'[w].text = <<>>
               /\ worker'[w].finished => worker'[w].at \in {"stream", "gone"}
    <3>1. ToStart(w) => worker[w] = NotStarted /\ ~Alive(w)
      BY <1>0 DEF Shapes, NotStarted, Alive
    <3>2. /\ worker[w].at \notin {"add", "wait"} => worker[w].text = <<>>
          /\ worker[w].finished => worker[w].at \in {"stream", "gone"}
      BY <1>0 DEF Shapes
    <3> QED BY <3>1, <3>2, <1>3, <1>4
  <2> QED BY <2>1 DEF Shapes
<1>6. ASSUME ~disturbed PROVE (OthersWait /\ Unanswered /\ Streamed)'
  <2>1. OthersWait /\ Unanswered /\ Streamed
    BY <1>6 DEF StreamInv
  <2>2. chunk \in Seq(Bytes) /\ chunk # <<>> /\ got \in Seq(Bytes)
    BY <1>0, <1>2 DEF StreamTypes, StreamTypeOK
  <2>3. voice # NoWorker
    BY <2>1, <2>2, <1>2 DEF Unanswered
  <2>4. voice \in Workers
    BY <2>3, <1>0 DEF StreamTypes, StreamTypeOK
  <2>5. OthersWait'
    BY <2>1, <1>2, <1>3 DEF OthersWait, Alive
  <2>6. got \o chunk = got' \o chunk'
    <3>1. PICK b \in Bytes, rest \in Seq(Bytes) :
            chunk = <<b>> \o rest /\ b = Head(chunk) /\ rest = Tail(chunk)
      BY <2>2, ChunkHead
    <3>2. got' = got \o <<b>> /\ chunk' = rest
      BY <2>2, <3>1, <1>2
    <3>3. got \o (<<b>> \o rest) = (got \o <<b>>) \o rest
      BY <2>2, <3>1
    <3> QED BY <3>1, <3>2, <3>3
  <2>7. Streamed'
    BY <2>1, <2>3, <2>4, <2>6, <1>2, <1>3 DEF Streamed, Kept
  <2> QED BY <2>3, <2>5, <2>7, <1>2 DEF Unanswered
<1> QED BY <1>1, <1>2, <1>5, <1>6 DEF StreamInv

LEMMA StreamInvStep ==
  ASSUME StreamInv, [StreamNext]_streamVars PROVE StreamInv'
<1>1. ASSUME NEW w \in Workers, Work(w) PROVE StreamInv'
  BY <1>1, CheckStep, ClaimStep, DeltaStep, FinishStep, AddStep, CurlEndsStep DEF Work
<1>2. CASE Ask \/ Chat
  BY <1>2, AskStep, ResetStep, StartStep, PollStep, ReadStep DEF Chat
<1>3. CASE UNCHANGED streamVars
  BY <1>3 DEF streamVars, StreamInv, StreamTypes, StreamTypeOK, Asked, Shapes, ToStart,
     OthersWait, Alive, Unanswered, Streamed, Kept
<1> QED BY <1>1, <1>2, <1>3 DEF StreamNext

LEMMA StreamInvAlways == StreamSpec => []StreamInv
<1>1. StreamInit => StreamInv
  BY StreamInvInit
<1>2. StreamInv /\ [StreamNext]_streamVars => StreamInv'
  BY StreamInvStep
<1> QED BY <1>1, <1>2, PTL DEF StreamSpec

\* Undisturbed, the reader has the beginning of the answer to its own request, nothing
\* lost or doubled between the callback and the reader (add_response_data, openai_input).
THEOREM AnswersFromStart == StreamSpec => []AnswerFromStart
<1>1. StreamInv => AnswerFromStart
  <2> SUFFICES ASSUME StreamInv, ~disturbed PROVE IsPrefix(got, answer)
    BY DEF AnswerFromStart
  <2>1. StreamTypes /\ Unanswered /\ Streamed /\ got \in Seq(Bytes) /\ chunk \in Seq(Bytes)
    BY DEF StreamInv, StreamTypes, StreamTypeOK
  <2>2. CASE voice = NoWorker
    BY <2>1, <2>2 DEF Unanswered, IsPrefix
  <2>3. CASE voice # NoWorker
    <3> DEFINE held == Kept(worker[voice].text)
    <3>1. voice \in Workers /\ worker[voice].text \in Seq(Bytes)
      BY <2>1, <2>3 DEF StreamTypes, StreamTypeOK
    <3>2. held \in Seq(Bytes)
      BY <3>1, KeptFits
    <3>3. answer = (got \o chunk) \o held
      BY <2>1, <2>3 DEF Streamed
    <3> HIDE DEF held
    <3>4. chunk \o held \in Seq(Bytes)
      BY <2>1, <3>2
    <3>5. (got \o chunk) \o held = got \o (chunk \o held)
      BY <2>1, <3>2, ConcatAssociative
    <3>a. PICK rest \in Seq(Bytes) : answer = got \o rest
      BY <3>3, <3>4, <3>5
    <3>6. /\ Len(answer) = Len(got) + Len(rest) /\ Len(got) \in Nat /\ Len(rest) \in Nat
          /\ \A i \in 1..Len(got) : answer[i] = got[i]
      BY <2>1, <3>a
    <3>7. SubSeq(got, 1, Len(got)) = SubSeq(answer, 1, Len(got))
      BY <2>1, <3>a, <3>6
    <3> QED BY <3>6, <3>7 DEF IsPrefix
  <2> QED BY <2>2, <2>3
<1> QED BY <1>1, StreamInvAlways, PTL

\* Undisturbed, a reader that is told the end has the whole answer (the status of port
\* 123 is 0 only when the chunk is empty and the response complete).
THEOREM EndsAfterAnswer == StreamSpec => []EndAfterAnswer
<1>1. StreamInv => EndAfterAnswer
  <2> SUFFICES ASSUME StreamInv, ~disturbed, result = "end"
               PROVE  voice # NoWorker /\ worker[voice].finished /\ got = answer
    BY DEF EndAfterAnswer
  <2>1. StreamTypes /\ Shapes /\ Unanswered /\ Streamed /\ got \in Seq(Bytes)
    BY DEF StreamInv, StreamTypes, StreamTypeOK
  <2>2. voice # NoWorker
    BY <2>1 DEF Unanswered
  <2>3. worker[voice].finished /\ chunk = <<>> /\ voice \in Workers
    BY <2>1, <2>2 DEF Streamed, StreamTypes, StreamTypeOK
  <2>4. worker[voice].text = <<>>
    BY <2>1, <2>3 DEF Shapes
  <2>5. answer = (got \o <<>>) \o <<>>
    BY <2>1, <2>2, <2>3, <2>4, KeptNothing DEF Streamed
  <2>6. answer = got
    BY <2>1, <2>5, ConcatEmpty
  <2> QED BY <2>2, <2>3, <2>6
<1> QED BY <1>1, StreamInvAlways, PTL

-----------------------------------------------------------------------------
(* The callback and the reader *)

\* Undisturbed, the callback waits only for a reader that has something to read.
CallbackWaits == ~disturbed => \A w \in Workers : At(w, "wait") => chunk # <<>>
\* The flag of the stream is somebody's.
SomebodyStreams == streaming => \E w \in Workers : worker[w].at \in {"stream", "add", "wait"}

LEMMA CallbackWaitsStep ==
  ASSUME StreamInv, CallbackWaits, [StreamNext]_streamVars
  PROVE  CallbackWaits'
<1>0. StreamTypes /\ worker \in [Workers -> WorkerState] /\ chunk \in Seq(Bytes)
  BY DEF StreamInv, StreamTypes, StreamTypeOK
<1> USE DEF CallbackWaits, At
<1>1. CASE Ask
  BY <1>1 DEF Ask, Alive
<1>2. CASE ResetResponse
  <2>1. cpu = "reset" /\ UNCHANGED <<worker, disturbed>>
    BY <1>2 DEF ResetResponse, history
  <2>2. ~disturbed => \A w \in Workers : ~Alive(w)
    BY <2>1 DEF StreamInv, OthersWait
  <2> QED BY <2>1, <2>2 DEF Alive
<1>3. CASE EndPayload \/ Send
  <2>1. UNCHANGED <<chunk, disturbed>>
    BY <1>3 DEF EndPayload, Send, Starts, response, history
  <2>2. ASSUME NEW w \in Workers, worker'[w].at = "wait" PROVE worker[w].at = "wait"
    <3>1. \/ worker' = worker
          \/ \E v : worker' = [worker EXCEPT ![v].at = "check"]
      BY <1>3 DEF EndPayload, Send, Starts
    <3> QED BY <1>0, <2>2, <3>1 DEF WorkerState
  <2> QED BY <2>1, <2>2
<1>4. CASE Poll
  BY <1>4 DEF Poll, response, history
<1>5. CASE Read
  <2>1. chunk # <<>> /\ chunk' = Tail(chunk) /\ disturbed' = disturbed
    BY <1>0, <1>5 DEF Read, Take, history, StreamTypes
  <2>2. CASE Len(chunk) = 1 /\ worker' = Signalled
    <3>1. \A w \in Workers : worker'[w].at # "wait"
      BY <1>0, <2>2, SignalMoves
    <3> QED BY <3>1
  <2>3. CASE Len(chunk) # 1
    <3>1. Len(chunk) \in Nat /\ Len(chunk) # 0 /\ Len(chunk') = Len(chunk) - 1
      BY <1>0, <2>1
    <3>2. Len(chunk') # 0
      BY <2>3, <3>1
    <3>3. chunk' # <<>>
      BY <3>2, EmptyText
    <3> QED BY <3>3
  <2> QED BY <1>5, <2>2, <2>3 DEF Read
<1>6. ASSUME NEW w \in Workers, Check(w) \/ Claim(w) \/ CurlEnds(w) PROVE CallbackWaits'
  <2>1. chunk' = chunk
    BY <1>6 DEF Check, Claim, CurlEnds, response
  <2>a. ~disturbed' => ~disturbed
    <3>1. \/ disturbed' = disturbed
          \/ disturbed' = (disturbed \/ voice # NoWorker \/ w[1] # request)
      BY <1>6 DEF Check, Claim, CurlEnds, history
    <3> QED BY <3>1
  <2>2. \E s \in {"gone", "claim", "stream"} : worker' = [worker EXCEPT ![w].at = s]
    BY <1>6 DEF Check, Claim, CurlEnds, To
  <2>3. \A v \in Workers : worker'[v].at = "wait" => worker[v].at = "wait"
    BY <1>0, <2>2 DEF WorkerState
  <2> QED BY <2>1, <2>a, <2>3
<1>7. ASSUME NEW w \in Workers, Delta(w) PROVE CallbackWaits'
  <2>1. UNCHANGED <<chunk, disturbed>> /\ \E n : worker' = [worker EXCEPT ![w].at = "add", ![w].text = Text(n)]
    BY <1>7 DEF Delta, response
  <2>2. \A v \in Workers : worker'[v].at = "wait" => worker[v].at = "wait"
    BY <1>0, <2>1 DEF WorkerState
  <2> QED BY <2>1, <2>2
<1>8. ASSUME NEW w \in Workers, Finish(w) PROVE CallbackWaits'
  <2>1. UNCHANGED <<chunk, disturbed>> /\ worker' = [worker EXCEPT ![w].finished = TRUE]
    BY <1>8 DEF Finish, history
  <2>2. \A v \in Workers : worker'[v].at = worker[v].at
    BY <1>0, <2>1 DEF WorkerState
  <2> QED BY <2>1, <2>2
<1>9. ASSUME NEW w \in Workers, Add(w) PROVE CallbackWaits'
  <2>1. worker[w].at = "add" /\ disturbed' = disturbed
    BY <1>9 DEF Add, history
  <2>2. CASE chunk # <<>>
    BY <1>9, <2>2 DEF Add
  <2>3. CASE chunk = <<>>
    <3>1. worker' = [worker EXCEPT ![w].at = "stream", ![w].text = <<>>]
      BY <1>9, <2>3 DEF Add
    <3>2. \A v \in Workers : worker'[v].at = "wait" => worker[v].at = "wait"
      BY <1>0, <3>1 DEF WorkerState
    <3> QED BY <2>1, <2>3, <3>2
  <2> QED BY <2>2, <2>3
<1>10. CASE UNCHANGED streamVars
  BY <1>10 DEF streamVars
<1> QED BY <1>1, <1>2, <1>3, <1>4, <1>5, <1>6, <1>7, <1>8, <1>9, <1>10
        DEF StreamNext, Chat, Work

LEMMA SomebodyStreamsStep ==
  ASSUME StreamInv, SomebodyStreams, [StreamNext]_streamVars
  PROVE  SomebodyStreams'
<1>0. worker \in [Workers -> WorkerState]
  BY DEF StreamInv, StreamTypes
<1> USE DEF SomebodyStreams
<1>1. CASE UNCHANGED <<streaming, worker>>
  BY <1>1
<1>2. CASE ~streaming'
  BY <1>2
<1>3. CASE EndPayload \/ Send
  <2>1. streaming' = streaming /\ (streaming => worker' = worker)
    BY <1>3 DEF EndPayload, Send, Starts
  <2> QED BY <2>1
<1>4. CASE Read
  <2>1. streaming' = streaming /\ (worker' = worker \/ worker' = Signalled)
    BY <1>4 DEF Read, Take
  <2>2. CASE worker' = Signalled
    <3>1. \A w \in Workers : worker[w].at \in {"stream", "add", "wait"} => worker'[w].at \in {"stream", "add"}
      BY <1>0, <2>2, SignalMoves
    <3> QED BY <2>1, <3>1
  <2> QED BY <1>1, <2>1, <2>2
<1>5. ASSUME NEW w \in Workers, Check(w) PROVE SomebodyStreams'
  <2>1. streaming' = streaming /\ worker[w].at = "check"
        /\ \E s : worker' = [worker EXCEPT ![w].at = s]
    BY <1>5 DEF Check, At, To
  <2>2. \A v \in Workers : worker[v].at # "check" => worker'[v] = worker[v]
    BY <1>0, <2>1
  <2> QED BY <2>1, <2>2
<1>6. ASSUME NEW w \in Workers, Claim(w) \/ Delta(w) \/ Finish(w) \/ Add(w)
      PROVE  SomebodyStreams'
  <2>1. worker'[w].at \in {"stream", "add", "wait"}
    <3>1. CASE Claim(w)
      BY <1>0, <3>1 DEF Claim, To, WorkerState
    <3>2. CASE Delta(w)
      BY <1>0, <3>2 DEF Delta, WorkerState
    <3>3. CASE Finish(w)
      BY <1>0, <3>3 DEF Finish, At, WorkerState
    <3>4. CASE Add(w)
      BY <1>0, <3>4 DEF Add, To, WorkerState
    <3> QED BY <1>6, <3>1, <3>2, <3>3, <3>4
  <2> QED BY <2>1
<1>7. ASSUME NEW w \in Workers, CurlEnds(w) PROVE SomebodyStreams'
  BY <1>7 DEF CurlEnds
<1>8. CASE Ask \/ ResetResponse \/ Poll \/ UNCHANGED streamVars
  <2>1. UNCHANGED <<streaming, worker>>
    BY <1>8 DEF Ask, ResetResponse, Poll, streamVars
  <2> QED BY <1>1, <2>1
<1> QED BY <1>3, <1>4, <1>5, <1>6, <1>7, <1>8 DEF StreamNext, Chat, Work

\* No wake-up of the callback is missed, and a stream that keeps others from starting is
\* one that somebody brings to its end (add_response_data, openai_thread).
THEOREM CallbackWaitsInTurn == StreamSpec => []CallbackWaitsForReader
<1>1. StreamInit => CallbackWaits /\ SomebodyStreams
  BY DEF StreamInit, CallbackWaits, SomebodyStreams, At, NotStarted
<1>2. StreamInv /\ CallbackWaits /\ SomebodyStreams /\ [StreamNext]_streamVars
        => CallbackWaits' /\ SomebodyStreams'
  BY CallbackWaitsStep, SomebodyStreamsStep
<1>3. CallbackWaits /\ SomebodyStreams => CallbackWaitsForReader
  BY DEF CallbackWaits, SomebodyStreams, CallbackWaitsForReader
<1> QED BY <1>1, <1>2, <1>3, StreamInvAlways, PTL DEF StreamSpec

-----------------------------------------------------------------------------
(* The stream of an answer implements StreamCopy *)

LEMMA SamePrefix ==
  ASSUME NEW s, NEW t, IsPrefix(s, t)
  PROVE  Copies!IsPrefix(s, t)
  BY DEF IsPrefix, Copies!IsPrefix

LEMMA LongerPrefix ==
  ASSUME NEW s \in Seq(Bytes), NEW t \in Seq(Bytes)
  PROVE  Copies!IsPrefix(s, s \o t)
<1> DEFINE u == s \o t
<1>1. u \in Seq(Bytes) /\ Len(u) = Len(s) + Len(t) /\ \A i \in 1..Len(s) : u[i] = s[i]
  OBVIOUS
<1> HIDE DEF u
<1>2. Len(s) \in Nat /\ Len(t) \in Nat /\ Len(s) <= Len(u)
  BY <1>1
<1>3. SubSeq(s, 1, Len(s)) = SubSeq(u, 1, Len(s))
  BY <1>1, <1>2
<1>4. Copies!IsPrefix(s, u)
  BY <1>2, <1>3 DEF Copies!IsPrefix
<1> QED BY <1>4 DEF u

\* The end of the answer, as the copy of the mapping sees it.
Complete == voice # NoWorker /\ worker[voice].finished

LEMMA CopyUnchanged ==
  ASSUME UNCHANGED <<request, answer, got, result, disturbed>>, Complete' <=> Complete
  PROVE  UNCHANGED Copies!vars
  BY DEF Copies!vars, Complete

LEMMA CompleteKept ==
  ASSUME StreamInv, voice' = voice,
         \A w \in Workers : worker'[w].finished = worker[w].finished
  PROVE  Complete' <=> Complete
<1>1. voice # NoWorker => voice \in Workers
  BY DEF StreamInv, StreamTypes, StreamTypeOK
<1> QED BY <1>1 DEF Complete

LEMMA CopyAsks == ASSUME Ask PROVE Copies!Begin
  BY DEF Ask, Copies!Begin

LEMMA CopyPolls ==
  ASSUME StreamInv, AnswerFromStart, EndAfterAnswer', Poll
  PROVE  Copies!Read \/ Copies!Unpromised \/ UNCHANGED Copies!vars
<1>1. /\ UNCHANGED <<request, answer, got, disturbed, voice, worker>>
      /\ result = "none" /\ result' \in {"none", "end", "timeout"} /\ got \in Seq(Bytes)
  BY DEF Poll, Stops, history, StreamInv, StreamTypes, StreamTypeOK
<1>2. CASE result' = "none"
  BY <1>1, <1>2, CopyUnchanged DEF Complete
<1>3. CASE disturbed
  BY <1>1, <1>3 DEF Copies!Unpromised
<1>4. CASE ~disturbed /\ result' # "none"
  <2>1. Copies!IsPrefix(got, answer)
    BY <1>4, SamePrefix DEF AnswerFromStart
  <2>2. Copies!IsPrefix(got, got')
    BY <1>1 DEF Copies!IsPrefix
  <2>3. result' = "end" => Complete /\ got = answer
    BY <1>1, <1>4 DEF EndAfterAnswer, Complete
  <2> QED BY <1>1, <1>4, <2>1, <2>2, <2>3 DEF Copies!Read, Complete
<1> QED BY <1>2, <1>3, <1>4

LEMMA CopyReads ==
  ASSUME StreamInv, AnswerFromStart', Read
  PROVE  Copies!Read \/ Copies!Unpromised
<1>1. /\ UNCHANGED <<request, answer, disturbed, voice>>
      /\ got' = Append(got, Head(chunk))
      /\ result = "none" /\ result' \in {"none", "full"}
  BY DEF Read, Take, Stops, history, StreamInv, StreamTypes
<1>2. got \in Seq(Bytes) /\ Head(chunk) \in Bytes /\ worker \in [Workers -> WorkerState]
  <2>1. chunk \in Seq(Bytes) /\ chunk # <<>>
    BY DEF Read, Take, StreamInv, StreamTypes, StreamTypeOK
  <2> QED BY <2>1, ChunkHead DEF StreamInv, StreamTypes, StreamTypeOK
<1>3. Complete' <=> Complete
  <2>1. worker' = worker \/ worker' = Signalled
    BY DEF Read
  <2>2. \A w \in Workers : worker'[w].finished = worker[w].finished
    BY <1>2, <2>1, SignalMoves
  <2> QED BY <1>1, <2>2, CompleteKept
<1>4. CASE disturbed
  BY <1>1, <1>4 DEF Copies!Unpromised
<1>5. CASE ~disturbed
  <2>1. Copies!IsPrefix(got', answer)
    BY <1>1, <1>5, SamePrefix DEF AnswerFromStart
  <2>2. Copies!IsPrefix(got, got')
    <3>1. <<Head(chunk)>> \in Seq(Bytes) /\ got' = got \o <<Head(chunk)>>
      BY <1>1, <1>2
    <3> QED BY <1>2, <3>1, LongerPrefix
  <2> QED BY <1>1, <1>3, <1>5, <2>1, <2>2 DEF Copies!Read, Complete
<1> QED BY <1>4, <1>5

LEMMA CopyClaims ==
  ASSUME StreamInv, NEW w \in Workers, Claim(w)
  PROVE  Copies!Spoil \/ Copies!Unpromised \/ UNCHANGED Copies!vars
<1>1. /\ UNCHANGED <<request, got, result>> /\ worker[w].at = "claim"
      /\ voice' = w /\ answer' = <<>>
      /\ disturbed' = (disturbed \/ voice # NoWorker \/ w[1] # request)
      /\ worker' = [worker EXCEPT ![w].at = "stream"]
  BY DEF Claim, At, To
<1>2. worker \in [Workers -> WorkerState] /\ disturbed \in BOOLEAN
  BY DEF StreamInv, StreamTypes, StreamTypeOK
<1>3. CASE disturbed'
  BY <1>1, <1>3 DEF Copies!Spoil
<1>4. CASE ~disturbed'
  <2>1. ~disturbed /\ voice = NoWorker /\ disturbed' = disturbed
    BY <1>1, <1>2, <1>4
  <2>2. answer = <<>>
    BY <2>1 DEF StreamInv, Unanswered
  <2>3. ~worker[w].finished
    BY <1>1 DEF StreamInv, Shapes
  <2>4. ~worker'[w].finished
    BY <1>1, <1>2, <2>3, WorkerMoves DEF WorkerSteps
  <2>5. ~Complete /\ ~Complete'
    BY <1>1, <2>1, <2>4 DEF Complete
  <2> QED BY <1>1, <2>1, <2>2, <2>5, CopyUnchanged
<1> QED BY <1>3, <1>4

LEMMA CopyGrows ==
  ASSUME StreamInv, NEW w \in Workers, Delta(w)
  PROVE  Copies!Grow \/ UNCHANGED Copies!vars
<1>0. worker \in [Workers -> WorkerState] /\ answer \in Seq(Bytes)
  BY DEF StreamInv, StreamTypes, StreamTypeOK
<1>1. UNCHANGED <<request, got, result, voice, disturbed>> /\ ~worker[w].finished
  BY DEF Delta
<1>2. PICK n \in DeltaSizes :
        /\ worker' = [worker EXCEPT ![w].at = "add", ![w].text = Text(n)]
        /\ answer' = IF w = voice /\ ~disturbed THEN answer \o Kept(Text(n)) ELSE answer
  BY DEF Delta
<1>3. Text(n) \in Seq(Bytes)
  BY TextIsText DEF Delta, StreamInv, StreamTypes
<1>4. Complete' <=> Complete
  <2>1. \A v \in Workers : worker'[v].finished = worker[v].finished
    BY <1>0, <1>2, <1>3, WorkerHolds DEF WorkerSteps
  <2> QED BY <1>1, <2>1, CompleteKept
<1>5. CASE w = voice /\ ~disturbed
  <2>1. Copies!IsPrefix(answer, answer')
    BY <1>0, <1>2, <1>3, <1>5, KeptFits, LongerPrefix
  <2>2. ~Complete
    BY <1>1, <1>5 DEF Complete
  <2> QED BY <1>1, <1>4, <2>1, <2>2 DEF Copies!Grow, Complete
<1>6. CASE ~(w = voice /\ ~disturbed)
  BY <1>1, <1>2, <1>4, <1>6, CopyUnchanged
<1> QED BY <1>5, <1>6

LEMMA CopyCloses ==
  ASSUME StreamInv, NEW w \in Workers, Finish(w)
  PROVE  Copies!Close \/ UNCHANGED Copies!vars
<1>1. UNCHANGED <<request, answer, got, result, voice, disturbed>>
  BY DEF Finish, history
<1>2. Complete => Complete'
  <2>1. worker \in [Workers -> WorkerState] /\ (voice # NoWorker => voice \in Workers)
    BY DEF StreamInv, StreamTypes, StreamTypeOK
  <2>2. worker'[w].finished = TRUE /\ \A v \in Workers \ {w} : worker'[v] = worker[v]
    BY <2>1, WorkerFinishes DEF Finish
  <2> QED BY <1>1, <2>1, <2>2 DEF Complete
<1>3. CASE Complete \/ ~Complete'
  BY <1>1, <1>2, <1>3, CopyUnchanged
<1>4. CASE ~Complete /\ Complete'
  BY <1>1, <1>4 DEF Copies!Close, Complete
<1> QED BY <1>3, <1>4

\* Starting a thread, handing over, and the end of curl are not seen.
LEMMA CopyRests ==
  ASSUME StreamInv,
         \/ ResetResponse \/ EndPayload \/ Send
         \/ \E w \in Workers : Check(w) \/ Add(w) \/ CurlEnds(w)
  PROVE  UNCHANGED Copies!vars
<1>0. worker \in [Workers -> WorkerState]
  BY DEF StreamInv, StreamTypes
<1>1. UNCHANGED <<request, answer, got, result, voice, disturbed>>
  BY DEF ResetResponse, EndPayload, Send, Starts, Check, Add, CurlEnds, history
<1>2. \/ worker' = worker
      \/ \E w, s : worker' = [worker EXCEPT ![w].at = s]
      \/ \E w : worker' = [worker EXCEPT ![w].at = "stream", ![w].text = <<>>]
  BY DEF ResetResponse, EndPayload, Send, Starts, Check, Add, CurlEnds, To
<1>3. ASSUME NEW v \in Workers
      PROVE  worker'[v].finished = worker[v].finished
  <2>1. ASSUME NEW w, NEW s, worker' = [worker EXCEPT ![w].at = s]
        PROVE  worker'[v].finished = worker[v].finished
    BY <1>0, <2>1 DEF WorkerState
  <2>2. ASSUME NEW w, worker' = [worker EXCEPT ![w].at = "stream", ![w].text = <<>>]
        PROVE  worker'[v].finished = worker[v].finished
    BY <1>0, <2>2 DEF WorkerState
  <2> QED BY <1>2, <2>1, <2>2
<1> QED BY <1>1, <1>3, CompleteKept, CopyUnchanged

LEMMA CopyStep ==
  /\ StreamInv /\ AnswerFromStart /\ AnswerFromStart' /\ EndAfterAnswer'
  /\ [StreamNext]_streamVars
  => [Copies!Next]_(Copies!vars)
<1> SUFFICES ASSUME StreamInv, AnswerFromStart, AnswerFromStart', EndAfterAnswer',
                    [StreamNext]_streamVars
             PROVE  Copies!Next \/ UNCHANGED Copies!vars
  OBVIOUS
<1>1. CASE UNCHANGED streamVars
  BY <1>1, CopyUnchanged DEF streamVars, Complete
<1>2. CASE Ask \/ Chat
  BY <1>2, CopyAsks, CopyRests, CopyPolls, CopyReads DEF Chat, Copies!Next
<1>3. ASSUME NEW w \in Workers, Work(w)
      PROVE  Copies!Next \/ UNCHANGED Copies!vars
  BY <1>3, CopyRests, CopyClaims, CopyGrows, CopyCloses DEF Work, Copies!Next
<1> QED BY <1>1, <1>2, <1>3 DEF StreamNext

\* Over deltas, chunks, waits and polls, what the reader has is a copy of the answer to
\* its own request, as long as no other stream is in its way.
THEOREM StreamImplements == StreamSpec => AnswerCopied
<1>1. StreamInit => Copies!Init
  BY DEF StreamInit, Copies!Init
<1> QED BY <1>1, CopyStep, StreamInvAlways, AnswersFromStart, EndsAfterAnswer, PTL
        DEF StreamSpec, AnswerCopied, Copies!Spec

-----------------------------------------------------------------------------
(* What the chat program remembers *)

\* The slots in use are those of the messages, each of its own.
OwnSlots ==
  /\ \A i, j \in DOMAIN rows : rows[i] = rows[j] => i = j
  /\ busy = {rows[i] : i \in DOMAIN rows}

\* Two answers never follow each other, and the program only waits for an answer to a
\* message that it remembers as the last.
Alternate ==
  /\ \A i \in DOMAIN rows :
       i + 1 \in DOMAIN rows => rows[i][1] = "user" \/ rows[i+1][1] = "user"
  /\ place \in {"request", "receive"} => rows # <<>> /\ rows[Len(rows)][1] = "user"

\* RecentShown, message by message.
Remembered ==
  /\ Len(rows) = IF Len(said) < MaxMsg THEN Len(said) ELSE MaxMsg
  /\ \A i \in DOMAIN rows :
       <<rows[i][1], memory[rows[i]]>> = said[(Len(said) - Len(rows)) + i]

ChatInv == ChatTypeOK /\ OwnSlots /\ Alternate /\ Remembered

(* Slots *)

LEMMA SlotFacts ==
  /\ MaxAst \in Nat \ {0} /\ 2 * MaxAst >= MaxMsg /\ 2 * MaxAst <= MaxMsg + 1
  /\ \A s \in AllSlots : s[1] \in {"user", "assistant"} /\ s[2] \in Nat
  /\ SlotsOf("user") = {"user"} \X (1..MaxMsg)
  /\ SlotsOf("assistant") = {"assistant"} \X (1..MaxAst)
<1>1. MaxAst \in Nat \ {0} /\ 2 * MaxAst >= MaxMsg /\ 2 * MaxAst <= MaxMsg + 1
  BY ChatAssumption DEF MaxAst
<1>2. /\ SlotsOf("user") = {"user"} \X (1..MaxMsg)
      /\ SlotsOf("assistant") = {"assistant"} \X (1..MaxAst)
  BY DEF SlotsOf
<1>3. \A s \in AllSlots : s[1] \in {"user", "assistant"} /\ s[2] \in Nat
  BY <1>1, <1>2, ChatAssumption DEF AllSlots
<1> QED BY <1>1, <1>2, <1>3

\* The first free slot is one of the free slots.
LEMMA LowestIsFree ==
  ASSUME NEW slots, slots \subseteq AllSlots, slots # {}
  PROVE  LowestOf(slots) \in slots
<1> DEFINE numbers == {s[2] : s \in slots}
<1>1. numbers \subseteq Nat /\ numbers # {}
  BY SlotFacts
<1>2. PICK n \in numbers : \A m \in numbers : n <= m
  BY <1>1, LeastNatural
<1>3. PICK s \in slots : s[2] = n
  OBVIOUS
<1>4. \A t \in slots : s[2] <= t[2]
  BY <1>2, <1>3
<1>5. \E r \in slots : \A t \in slots : r[2] <= t[2]
  BY <1>4
<1> QED BY <1>5 DEF LowestOf

\* More slots than pigeons.
LEMMA TooManySlots ==
  ASSUME NEW k \in Nat \ {0}, NEW f \in [1..k -> 1..(k - 1)]
  PROVE  \E m, n \in 1..k : m # n /\ f[m] = f[n]
<1>1. /\ IsFiniteSet(1..k) /\ Cardinality(1..k) = k
      /\ IsFiniteSet(1..(k-1)) /\ Cardinality(1..(k-1)) = k - 1
  <2>1. 1 \in Int /\ k \in Int /\ k - 1 \in Int
    OBVIOUS
  <2>2. /\ IsFiniteSet(1..k) /\ Cardinality(1..k) = (IF 1 > k THEN 0 ELSE k - 1 + 1)
        /\ IsFiniteSet(1..(k-1)) /\ Cardinality(1..(k-1)) = (IF 1 > k - 1 THEN 0 ELSE (k - 1) - 1 + 1)
    BY <2>1, FS_Interval
  <2> QED BY <2>2
<1> DEFINE S == 1..k
           T == 1..(k - 1)
<1>2. IsFiniteSet(S) /\ IsFiniteSet(T) /\ Cardinality(T) < Cardinality(S) /\ f \in [S -> T]
  BY <1>1
<1> HIDE DEF S, T
<1>3. \E m, n \in S : m # n /\ f[m] = f[n]
  BY <1>2, FS_PigeonHole, SMTT(30)
<1> QED BY <1>3 DEF S

\* The messages that are left when there is room for one more.
LEMMA StillFacts ==
  ASSUME ChatInv
  PROVE  /\ StillRows \in Seq(AllSlots) /\ Len(StillRows) < MaxMsg
         /\ \A i, j \in DOMAIN StillRows : StillRows[i] = StillRows[j] => i = j
         /\ StillBusy = {StillRows[i] : i \in DOMAIN StillRows}
         /\ \A i \in DOMAIN StillRows : i + 1 \in DOMAIN StillRows =>
              StillRows[i][1] = "user" \/ StillRows[i+1][1] = "user"
         /\ rows # <<>> /\ StillRows # <<>> => StillRows[Len(StillRows)] = rows[Len(rows)]
         /\ Len(StillRows) = IF Len(said) < MaxMsg THEN Len(said) ELSE MaxMsg - 1
         /\ \A i \in DOMAIN StillRows :
              <<StillRows[i][1], memory[StillRows[i]]>> = said[(Len(said) - Len(StillRows)) + i]
<1>1. rows \in Seq(AllSlots) /\ Len(rows) \in 0..MaxMsg /\ said \in Seq({"user", "assistant"} \X TextSizes)
  BY DEF ChatInv, ChatTypeOK
<1>2. CASE Len(rows) # MaxMsg
  <2>1. StillRows = rows /\ StillBusy = busy /\ Len(rows) < MaxMsg
    BY <1>1, <1>2, ChatAssumption DEF StillRows, StillBusy
  <2>2. Len(said) < MaxMsg /\ Len(rows) = Len(said)
    BY <1>1, <1>2, ChatAssumption DEF ChatInv, Remembered
  <2>3. OwnSlots /\ Alternate /\ Remembered
    BY DEF ChatInv
  <2>4. /\ \A i \in DOMAIN rows :
             <<rows[i][1], memory[rows[i]]>> = said[(Len(said) - Len(rows)) + i]
        /\ Len(rows) = IF Len(said) < MaxMsg THEN Len(said) ELSE MaxMsg - 1
    BY <2>2, <2>3 DEF Remembered
  <2>5. /\ \A i, j \in DOMAIN rows : rows[i] = rows[j] => i = j
        /\ busy = {rows[i] : i \in DOMAIN rows}
    BY <2>3 DEF OwnSlots
  <2>6. \A i \in DOMAIN rows : i + 1 \in DOMAIN rows => rows[i][1] = "user" \/ rows[i+1][1] = "user"
    BY <2>3 DEF Alternate
  <2> QED BY <1>1, <2>1, <2>4, <2>5, <2>6
<1>3. CASE Len(rows) = MaxMsg
  <2>1. StillRows = Tail(rows) /\ StillBusy = busy \ {Head(rows)} /\ rows # <<>>
    BY <1>1, <1>3, ChatAssumption DEF StillRows, StillBusy
  <2>2. /\ Tail(rows) \in Seq(AllSlots) /\ Len(Tail(rows)) = MaxMsg - 1
        /\ DOMAIN Tail(rows) = 1..(MaxMsg - 1) /\ DOMAIN rows = 1..MaxMsg
        /\ \A i \in 1..(MaxMsg - 1) : Tail(rows)[i] = rows[i+1]
        /\ Head(rows) = rows[1]
    BY <1>1, <1>3, <2>1, ChatAssumption
  <2>3. \A i, j \in DOMAIN rows : rows[i] = rows[j] => i = j
    BY DEF ChatInv, OwnSlots
  <2>4. \A i, j \in DOMAIN StillRows : StillRows[i] = StillRows[j] => i = j
    BY <2>1, <2>2, <2>3, ChatAssumption
  <2>5. StillBusy = {StillRows[i] : i \in DOMAIN StillRows}
    <3>1. busy = {rows[i] : i \in 1..MaxMsg}
      BY <2>2 DEF ChatInv, OwnSlots
    <3>2. ASSUME NEW s \in StillBusy PROVE s \in {StillRows[i] : i \in DOMAIN StillRows}
      <4>1. PICK i \in 1..MaxMsg : s = rows[i]
        BY <3>1, <3>2, <2>1
      <4>2. i # 1
        BY <3>2, <4>1, <2>1, <2>2
      <4>3. i - 1 \in 1..(MaxMsg - 1) /\ (i - 1) + 1 = i
        BY <4>1, <4>2, ChatAssumption
      <4> QED BY <4>1, <4>3, <2>1, <2>2
    <3>3. ASSUME NEW i \in DOMAIN StillRows PROVE StillRows[i] \in StillBusy
      <4>1. i + 1 \in 1..MaxMsg /\ i + 1 # 1 /\ 1 \in 1..MaxMsg /\ StillRows[i] = rows[i+1]
        BY <2>1, <2>2, ChatAssumption
      <4> QED BY <4>1, <3>1, <2>1, <2>2, <2>3
    <3> QED BY <3>2, <3>3
  <2>6. \A i \in DOMAIN StillRows : i + 1 \in DOMAIN StillRows =>
          StillRows[i][1] = "user" \/ StillRows[i+1][1] = "user"
    BY <2>1, <2>2, ChatAssumption DEF ChatInv, Alternate
  <2>7. StillRows # <<>> => StillRows[Len(StillRows)] = rows[Len(rows)]
    <3>1. StillRows # <<>> => MaxMsg - 1 \in 1..(MaxMsg - 1) /\ (MaxMsg - 1) + 1 = MaxMsg
      BY <2>1, <2>2, ChatAssumption
    <3> QED BY <3>1, <2>1, <2>2, <1>3
  <2>8. Len(said) \in Nat /\ Len(said) >= MaxMsg
    BY <1>1, <1>3, ChatAssumption DEF ChatInv, Remembered
  <2>9. ASSUME NEW i \in DOMAIN StillRows
        PROVE  <<StillRows[i][1], memory[StillRows[i]]>> = said[(Len(said) - Len(StillRows)) + i]
    <3>1. i + 1 \in DOMAIN rows /\ StillRows[i] = rows[i+1]
      BY <2>1, <2>2, ChatAssumption
    <3>2. (Len(said) - Len(rows)) + (i + 1) = (Len(said) - Len(StillRows)) + i
      BY <2>1, <2>2, <2>8, <1>3, ChatAssumption
    <3> QED BY <3>1, <3>2 DEF ChatInv, Remembered
  <2> QED BY <2>1, <2>2, <2>4, <2>5, <2>6, <2>7, <2>8, <2>9, ChatAssumption
<1> QED BY <1>2, <1>3

\* There is a slot for the user's next message: there are as many as messages.
LEMMA UserRoom ==
  ASSUME ChatInv PROVE SlotsOf("user") \ StillBusy # {}
<1> SUFFICES ASSUME SlotsOf("user") \subseteq StillBusy PROVE FALSE
  OBVIOUS
<1> DEFINE at[n \in 1..MaxMsg] == CHOOSE i \in DOMAIN StillRows : StillRows[i] = <<"user", n>>
<1>1. StillRows \in Seq(AllSlots) /\ Len(StillRows) < MaxMsg /\ StillBusy = {StillRows[i] : i \in DOMAIN StillRows}
  BY StillFacts
<1>2. ASSUME NEW n \in 1..MaxMsg
      PROVE  at[n] \in DOMAIN StillRows /\ StillRows[at[n]] = <<"user", n>>
  <2>1. <<"user", n>> \in SlotsOf("user")
    BY SlotFacts
  <2>2. \E i \in DOMAIN StillRows : StillRows[i] = <<"user", n>>
    BY <2>1, <1>1
  <2> QED BY <2>2
<1>3. at \in [1..MaxMsg -> 1..(MaxMsg - 1)]
  <2> HIDE DEF at
  <2>1. \A n \in 1..MaxMsg : at[n] \in 1..(MaxMsg - 1)
    BY <1>1, <1>2, ChatAssumption
  <2> USE DEF at
  <2> QED BY <2>1
<1> HIDE DEF at
<1>4. PICK m, n \in 1..MaxMsg : m # n /\ at[m] = at[n]
  BY <1>3, TooManySlots, ChatAssumption
<1> QED BY <1>2, <1>4

\* There is a slot for the next answer, although there are only half as many: of two
\* neighbours one is the user's, and so is the last.
LEMMA AnswerRoom ==
  ASSUME ChatInv, place = "receive" PROVE SlotsOf("assistant") \ StillBusy # {}
<1> SUFFICES ASSUME SlotsOf("assistant") \subseteq StillBusy PROVE FALSE
  OBVIOUS
<1> DEFINE at[n \in 1..MaxAst] == CHOOSE i \in DOMAIN StillRows : StillRows[i] = <<"assistant", n>>
           pair[n \in 1..MaxAst] == (at[n] + 1) \div 2
<1>1. /\ StillRows \in Seq(AllSlots) /\ Len(StillRows) < MaxMsg
      /\ StillBusy = {StillRows[i] : i \in DOMAIN StillRows}
      /\ \A i \in DOMAIN StillRows : i + 1 \in DOMAIN StillRows =>
           StillRows[i][1] = "user" \/ StillRows[i+1][1] = "user"
      /\ StillRows # <<>> => StillRows[Len(StillRows)][1] = "user"
  BY StillFacts DEF ChatInv, Alternate
<1>2. ASSUME NEW n \in 1..MaxAst
      PROVE  at[n] \in DOMAIN StillRows /\ StillRows[at[n]] = <<"assistant", n>>
  <2>1. <<"assistant", n>> \in SlotsOf("assistant")
    BY SlotFacts
  <2>2. \E i \in DOMAIN StillRows : StillRows[i] = <<"assistant", n>>
    BY <2>1, <1>1
  <2> QED BY <2>2
<1> HIDE DEF at
<1>3. ASSUME NEW n \in 1..MaxAst
      PROVE  at[n] \in Nat /\ at[n] >= 1 /\ at[n] <= MaxMsg - 2
  <2>1. at[n] \in 1..Len(StillRows) /\ Len(StillRows) \in Nat
    BY <1>1, <1>2
  <2>2. StillRows # <<>> /\ StillRows[at[n]][1] = "assistant"
    BY <1>1, <1>2, <2>1
  <2>3. at[n] # Len(StillRows)
    BY <1>1, <2>2
  <2> QED BY <1>1, <2>1, <2>3, ChatAssumption
<1>4. pair \in [1..MaxAst -> 1..(MaxAst - 1)]
  <2>1. ASSUME NEW n \in 1..MaxAst PROVE (at[n] + 1) \div 2 \in 1..(MaxAst - 1)
    BY <1>3, SlotFacts, ChatAssumption
  <2> QED BY <2>1
<1>5. PICK m, n \in 1..MaxAst : m # n /\ pair[m] = pair[n]
  BY <1>4, TooManySlots, SlotFacts
<1>6. (at[m] + 1) \div 2 = (at[n] + 1) \div 2
  BY <1>5
<1>7. at[m] = at[n] \/ at[m] = at[n] + 1 \/ at[n] = at[m] + 1
  BY <1>3, <1>6
<1>8. CASE at[m] = at[n]
  BY <1>8, <1>2, <1>5
<1>9. CASE at[m] = at[n] + 1
  BY <1>9, <1>1, <1>2
<1>10. CASE at[n] = at[m] + 1
  BY <1>10, <1>1, <1>2
<1> QED BY <1>7, <1>8, <1>9, <1>10

\* A message is remembered as the last, in a slot of its own.
LEMMA AddKeeps ==
  ASSUME ChatInv, NEW type \in {"user", "assistant"}, NEW text \in TextSizes,
         SlotsOf(type) \ StillBusy # {},
         type = "user" \/ (StillRows # <<>> => StillRows[Len(StillRows)][1] = "user"),
         AddMessage(type, text)
  PROVE  /\ rows' \in Seq(AllSlots) /\ Len(rows') <= MaxMsg /\ busy' \subseteq AllSlots
         /\ memory' \in [AllSlots -> TextSizes \union {0}]
         /\ said' \in Seq({"user", "assistant"} \X TextSizes)
         /\ OwnSlots' /\ Remembered'
         /\ \A i \in DOMAIN rows' :
              i + 1 \in DOMAIN rows' => rows'[i][1] = "user" \/ rows'[i+1][1] = "user"
         /\ rows' # <<>> /\ rows'[Len(rows')][1] = type
<1> DEFINE free == SlotsOf(type) \ StillBusy
           slot == LowestOf(free)
           n == Len(StillRows)
<1>0. /\ memory \in [AllSlots -> TextSizes \union {0}]
      /\ said \in Seq({"user", "assistant"} \X TextSizes) /\ Len(said) \in Nat
  BY DEF ChatInv, ChatTypeOK
<1>1. slot \in free /\ slot \in AllSlots /\ slot[1] = type /\ slot \notin StillBusy
  <2>1. free \subseteq AllSlots
    BY DEF AllSlots
  <2>2. slot \in free
    BY <2>1, LowestIsFree
  <2>3. \A s \in free : s[1] = type
    BY SlotFacts
  <2> QED BY <2>1, <2>2, <2>3
<1>2. /\ rows' = Append(StillRows, slot) /\ busy' = StillBusy \union {slot}
      /\ memory' = [memory EXCEPT ![slot] = text] /\ said' = Append(said, <<type, text>>)
  BY DEF AddMessage
<1> HIDE DEF slot, free
<1>3. /\ StillRows \in Seq(AllSlots) /\ n \in Nat /\ n < MaxMsg
      /\ \A i, j \in 1..n : StillRows[i] = StillRows[j] => i = j
      /\ StillBusy = {StillRows[i] : i \in 1..n}
      /\ \A i \in 1..n : i + 1 \in 1..n => StillRows[i][1] = "user" \/ StillRows[i+1][1] = "user"
      /\ n = IF Len(said) < MaxMsg THEN Len(said) ELSE MaxMsg - 1
      /\ \A i \in 1..n : <<StillRows[i][1], memory[StillRows[i]]>> = said[(Len(said) - n) + i]
  <2>1. StillRows \in Seq(AllSlots) /\ n < MaxMsg
    BY StillFacts
  <2>2. DOMAIN StillRows = 1..n /\ n \in Nat
    BY <2>1
  <2> QED BY <2>1, <2>2, StillFacts
<1>4. /\ rows' \in Seq(AllSlots) /\ Len(rows') = n + 1 /\ rows'[n + 1] = slot
      /\ \A i \in 1..n : rows'[i] = StillRows[i]
      /\ DOMAIN rows' = 1..(n + 1)
  BY <1>1, <1>2, <1>3
<1>5. \A i \in 1..n : StillRows[i] \in AllSlots /\ StillRows[i] # slot
  BY <1>1, <1>3
<1>6. OwnSlots'
  <2>1. ASSUME NEW i \in 1..(n+1), NEW j \in 1..(n+1), rows'[i] = rows'[j] PROVE i = j
    <3>1. CASE i \in 1..n /\ j \in 1..n
      BY <2>1, <3>1, <1>3, <1>4
    <3>2. CASE i = n + 1 \/ j = n + 1
      BY <2>1, <3>2, <1>3, <1>4, <1>5
    <3> QED BY <3>1, <3>2, <1>3
  <2>2. busy' = {rows'[i] : i \in 1..(n + 1)}
    <3>1. 1..(n + 1) = 1..n \union {n + 1}
      BY <1>3
    <3>2. {rows'[i] : i \in 1..(n + 1)} = {StillRows[i] : i \in 1..n} \union {slot}
      BY <3>1, <1>4
    <3> QED BY <3>2, <1>2, <1>3
  <2> QED BY <2>1, <2>2, <1>4 DEF OwnSlots
<1>7. /\ said' \in Seq({"user", "assistant"} \X TextSizes)
      /\ Len(said') = Len(said) + 1 /\ said'[Len(said) + 1] = <<type, text>>
      /\ \A i \in 1..Len(said) : said'[i] = said[i]
  BY <1>0, <1>2
<1>8. /\ memory' \in [AllSlots -> TextSizes \union {0}]
      /\ memory'[slot] = text /\ \A s \in AllSlots \ {slot} : memory'[s] = memory[s]
  BY <1>0, <1>1, <1>2
<1>9. Remembered'
  <2>1. Len(rows') = IF Len(said') < MaxMsg THEN Len(said') ELSE MaxMsg
    BY <1>0, <1>3, <1>4, <1>7, ChatAssumption
  <2>2. ASSUME NEW i \in 1..(n + 1)
        PROVE  <<rows'[i][1], memory'[rows'[i]]>> = said'[(Len(said') - Len(rows')) + i]
    <3>0. Len(said') - Len(rows') = Len(said) - n /\ Len(said) - n \in Nat
      BY <1>0, <1>3, <1>4, <1>7, ChatAssumption
    <3>1. CASE i = n + 1
      <4>1. (Len(said) - n) + i = Len(said) + 1
        BY <3>1, <1>0, <1>3
      <4>2. rows'[i][1] = type /\ memory'[rows'[i]] = text
        BY <3>1, <1>1, <1>4, <1>8
      <4> QED BY <3>0, <4>1, <4>2, <1>7
    <3>2. CASE i \in 1..n
      <4>1. (Len(said) - n) + i \in 1..Len(said)
        BY <3>0, <3>2, <1>0, <1>3
      <4>2. rows'[i] = StillRows[i] /\ memory'[rows'[i]] = memory[StillRows[i]]
        BY <3>2, <1>4, <1>5, <1>8
      <4> QED BY <3>0, <3>2, <4>1, <4>2, <1>3, <1>7
    <3> QED BY <3>1, <3>2, <1>3
  <2> QED BY <2>1, <2>2, <1>4 DEF Remembered
<1>10. ASSUME NEW i \in DOMAIN rows', i + 1 \in DOMAIN rows'
       PROVE  rows'[i][1] = "user" \/ rows'[i+1][1] = "user"
  <2>1. i \in 1..n
    BY <1>10, <1>3, <1>4
  <2>2. CASE i + 1 \in 1..n
    BY <2>1, <2>2, <1>3, <1>4
  <2>3. CASE i = n
    <3>1. rows'[i+1][1] = type /\ rows'[i] = StillRows[n] /\ StillRows # <<>>
      BY <2>1, <2>3, <1>1, <1>3, <1>4
    <3> QED BY <3>1
  <2> QED BY <2>1, <2>2, <2>3, <1>3
<1>11. Len(rows') <= MaxMsg /\ rows' # <<>> /\ rows'[Len(rows')][1] = type
  BY <1>1, <1>3, <1>4, ChatAssumption
<1>12. busy' \subseteq AllSlots
  BY <1>1, <1>2, <1>3, <1>5
<1> QED BY <1>4, <1>6, <1>7, <1>8, <1>9, <1>10, <1>11, <1>12

(* Steps of the program *)

LEMMA ChatInvInit == ASSUME ChatInit PROVE ChatInv
<1>1. ChatTypeOK
  BY ChatAssumption DEF ChatInit, ChatTypeOK
<1>2. Remembered
  BY ChatAssumption DEF ChatInit, Remembered
<1> QED BY <1>1, <1>2 DEF ChatInit, ChatInv, OwnSlots, Alternate

LEMMA SayStep ==
  ASSUME ChatInv, NEW text \in TextSizes, Say(text) PROVE ChatInv'
<1>1. /\ rows' \in Seq(AllSlots) /\ Len(rows') <= MaxMsg /\ busy' \subseteq AllSlots
      /\ memory' \in [AllSlots -> TextSizes \union {0}]
      /\ said' \in Seq({"user", "assistant"} \X TextSizes)
      /\ OwnSlots' /\ Remembered'
      /\ \A i \in DOMAIN rows' :
           i + 1 \in DOMAIN rows' => rows'[i][1] = "user" \/ rows'[i+1][1] = "user"
      /\ rows' # <<>> /\ rows'[Len(rows')][1] = "user"
  BY UserRoom, AddKeeps DEF Say
<1>2. place' = "request" /\ sent' = sent
  BY DEF Say
<1> QED BY <1>1, <1>2 DEF ChatInv, ChatTypeOK, Alternate

LEMMA ReceiveStep ==
  ASSUME ChatInv, NEW text \in TextSizes, Receive(text) PROVE ChatInv'
<1>0. place = "receive" /\ place' = "chat" /\ sent' = sent /\ AddMessage("assistant", text)
  BY DEF Receive
<1>1. StillRows # <<>> => StillRows[Len(StillRows)][1] = "user"
  BY <1>0, StillFacts DEF ChatInv, Alternate
<1>2. /\ rows' \in Seq(AllSlots) /\ Len(rows') <= MaxMsg /\ busy' \subseteq AllSlots
      /\ memory' \in [AllSlots -> TextSizes \union {0}]
      /\ said' \in Seq({"user", "assistant"} \X TextSizes)
      /\ OwnSlots' /\ Remembered'
      /\ \A i \in DOMAIN rows' :
           i + 1 \in DOMAIN rows' => rows'[i][1] = "user" \/ rows'[i+1][1] = "user"
  BY <1>0, <1>1, AnswerRoom, AddKeeps
<1> QED BY <1>0, <1>2 DEF ChatInv, ChatTypeOK, Alternate

LEMMA RestStep ==
  ASSUME ChatInv,
         \/ StartChat \/ QuitChat \/ Leave \/ ReceiveNothing
         \/ ClearHistory \/ MakeRequest \/ UNCHANGED chatVars
  PROVE  ChatInv'
<1>1. CASE StartChat \/ QuitChat \/ Leave \/ ReceiveNothing \/ UNCHANGED chatVars
  <2>1. UNCHANGED <<rows, busy, memory, sent, said>>
    BY <1>1 DEF StartChat, QuitChat, Leave, ReceiveNothing, Goes, chatVars
  <2>2. place' \in {"menu", "chat", "left"} \/ place' = place
    BY <1>1 DEF StartChat, QuitChat, Leave, ReceiveNothing, Goes, chatVars
  <2> QED BY <2>1, <2>2 DEF ChatInv, ChatTypeOK, OwnSlots, Alternate, Remembered
<1>2. CASE ClearHistory
  <2>1. /\ rows' = <<>> /\ said' = <<>> /\ busy' = {}
        /\ UNCHANGED <<place, memory, sent>> /\ place = "menu"
    BY <1>2 DEF ClearHistory, ChatInv, OwnSlots
  <2>2. Remembered'
    BY <2>1, ChatAssumption DEF Remembered
  <2>3. ChatTypeOK'
    BY <2>1, ChatAssumption DEF ChatInv, ChatTypeOK
  <2> QED BY <2>1, <2>2, <2>3 DEF ChatInv, OwnSlots, Alternate
<1>3. CASE MakeRequest
  <2>1. /\ UNCHANGED <<rows, busy, memory, said>> /\ place = "request"
        /\ \/ place' = "receive" /\ sent' = Included
           \/ place' = "chat" /\ sent' = sent
    BY <1>3 DEF MakeRequest
  <2>2. Included \subseteq 1..MaxMsg
    BY ChatAssumption DEF Included, ChatInv, ChatTypeOK
  <2>3. ChatTypeOK'
    BY <2>1, <2>2 DEF ChatInv, ChatTypeOK
  <2> QED BY <2>1, <2>3 DEF ChatInv, OwnSlots, Alternate, Remembered
<1> QED BY <1>1, <1>2, <1>3

LEMMA ChatInvStep ==
  ASSUME ChatInv, [ChatNext]_chatVars PROVE ChatInv'
<1>1. ASSUME NEW text \in TextSizes, Say(text) \/ Receive(text) PROVE ChatInv'
  BY <1>1, SayStep, ReceiveStep
<1>2. CASE ~\E text \in TextSizes : Say(text) \/ Receive(text)
  BY <1>2, RestStep DEF ChatNext
<1> QED BY <1>1, <1>2

LEMMA ChatInvAlways == ChatSpec => []ChatInv
<1>1. ChatInit => ChatInv
  BY ChatInvInit
<1>2. ChatInv /\ [ChatNext]_chatVars => ChatInv'
  BY ChatInvStep
<1> QED BY <1>1, <1>2, PTL DEF ChatSpec

\* Every variable keeps its type (the arrays of chat.c are not exceeded).
THEOREM ChatTypesKept == ChatSpec => []ChatTypeOK
<1>1. ChatInv => ChatTypeOK
  BY DEF ChatInv
<1> QED BY <1>1, ChatInvAlways, PTL

\* The program shows the last MAX_MSG messages as they were said, for any number of
\* messages and texts: it never lacks a slot, and no slot is used twice (ch_addm).
THEOREM RemembersRecent == ChatSpec => []RecentShown
<1>1. ChatInv => RecentShown
  <2> SUFFICES ASSUME ChatInv PROVE RecentShown
    OBVIOUS
  <2> DEFINE first == Len(said) - Len(rows) + 1
             recent == SubSeq(said, first, Len(said))
  <2>1. /\ rows \in Seq(AllSlots) /\ said \in Seq({"user", "assistant"} \X TextSizes)
        /\ Len(rows) \in Nat /\ Len(said) \in Nat
        /\ Len(rows) = IF Len(said) < MaxMsg THEN Len(said) ELSE MaxMsg
    BY DEF ChatInv, ChatTypeOK, Remembered
  <2>2. first \in Nat /\ first >= 1 /\ Len(said) - first + 1 = Len(rows)
    BY <2>1, ChatAssumption
  <2>3. /\ DOMAIN recent = 1..Len(rows) /\ recent = [i \in 1..Len(rows) |-> recent[i]]
        /\ \A i \in 1..Len(rows) : recent[i] = said[first + i - 1]
    <3> DEFINE S == {"user", "assistant"} \X TextSizes
    <3>1. first \in Int /\ Len(said) \in Int /\ \A i \in first..Len(said) : said[i] \in S
      BY <2>1, <2>2
    <3> HIDE DEF S, first
    <3>2. /\ recent \in Seq(S)
          /\ Len(recent) = IF first <= Len(said) THEN Len(said) - first + 1 ELSE 0
          /\ \A i \in 1..(Len(said) - first + 1) : recent[i] = said[first + i - 1]
      BY <3>1, SubSeqProperties
    <3> HIDE DEF recent
    <3>3. Len(recent) = Len(rows)
      BY <3>1, <3>2, <2>1, <2>2
    <3>4. DOMAIN recent = 1..Len(rows) /\ recent = [i \in 1..Len(rows) |-> recent[i]]
      BY <3>2, <3>3
    <3> QED BY <3>2, <3>4, <2>2
  <2>4. Shown = [i \in 1..Len(rows) |-> <<rows[i][1], memory[rows[i]]>>]
    BY <2>1 DEF Shown
  <2>5. ASSUME NEW i \in 1..Len(rows)
        PROVE  <<rows[i][1], memory[rows[i]]>> = said[first + i - 1]
    <3>1. first + i - 1 = (Len(said) - Len(rows)) + i /\ i \in DOMAIN rows
      BY <2>1
    <3> QED BY <3>1 DEF ChatInv, Remembered
  <2>6. Shown = recent
    BY <2>3, <2>4, <2>5
  <2> QED BY <2>1, <2>6 DEF RecentShown
<1> QED BY <1>1, ChatInvAlways, PTL
=============================================================================
