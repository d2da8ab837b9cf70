------------------------- MODULE GuestMounts_proofs -------------------------
(***************************************************************************)
(* Proofs about GuestMounts for every set of mount points and of data      *)
(* partitions, for every fstab over them, and for any number of kinds of   *)
(* commands that fail: the four safety invariants that MCGuestMounts       *)
(* checks for a few guests.                                                *)
(*                                                                         *)
(* Three tables describe the same mounts: the kernel's (mnt), the          *)
(* Backend's (be.mounts) and the one in pipeline.json (infos, root), and   *)
(* a stage sees only the last two.  The invariant MountInv says how they   *)
(* agree at every place of every stage: what is mounted is in the disk     *)
(* infos (Infos) and recorded (Records), the loops that mount and unmount  *)
(* have just the rest still to do (Pending, Unmounted), and what prepare   *)
(* hands over is whole (Handover).  The orders come from the lengths and   *)
(* depths of the paths: a parent is shorter than what is under it, so      *)
(* sorting puts it first, and the reverse never finds a mount busy.        *)
(***************************************************************************)
EXTENDS GuestMounts, SequenceTheorems, FiniteSetTheorems, WellFoundedInduction, TLAPS

\* What can be mounted: an entry of the guest's table, a probe, and the virtual
\* filesystems of a chroot
Virtual == Entry("virtual", "/proc")
Probes == {Entry(d, Probe) : d \in Partitions \cup Volumes}
Entries == PreparedTable \cup Probes \cup {Virtual}

-----------------------------------------------------------------------------
(* Sequences *)

\* No two mounts of m are at the same path of A.
Single(m, A) == \A i, j \in DOMAIN m : m[i].at = m[j].at /\ m[i].at \in A => i = j

\* What a sequence has after its elements were taken off, added or reversed
LEMMA SeqRange ==
  ASSUME NEW S, NEW s \in Seq(S)
  PROVE  /\ Range(s) \subseteq S /\ (Range(s) = {} <=> s = <<>>)
         /\ s \in Seq(Range(s))
         /\ \A e \in S : Append(s, e) \in Seq(S) /\ Range(Append(s, e)) = Range(s) \cup {e}
         /\ s # <<>> => /\ Head(s) \in S /\ Tail(s) \in Seq(S)
                        /\ Range(s) = {Head(s)} \cup Range(Tail(s))
<1>1. DOMAIN s = 1..Len(s) /\ Len(s) \in Nat /\ \A i \in 1..Len(s) : s[i] \in S
  BY LenProperties, ElementOfSeq
<1>2. Range(s) \subseteq S
  BY <1>1 DEF Range
<1>3. Range(s) = {} <=> s = <<>>
  <2>1. Range(s) = {} => Len(s) = 0
    <3>1. Len(s) # 0 => 1 \in DOMAIN s
      BY <1>1
    <3> QED BY <1>1, <3>1 DEF Range
  <2>2. Len(s) = 0 => s = <<>>
    BY <1>1, EmptySeq
  <2>3. s = <<>> => Range(s) = {}
    BY DEF Range
  <2> QED BY <2>1, <2>2, <2>3
<1>4. ASSUME NEW e \in S
      PROVE  Append(s, e) \in Seq(S) /\ Range(Append(s, e)) = Range(s) \cup {e}
  <2>1. /\ Append(s, e) \in Seq(S) /\ DOMAIN Append(s, e) = 1..(Len(s) + 1)
        /\ \A i \in 1..Len(s) : Append(s, e)[i] = s[i]
        /\ Append(s, e)[Len(s) + 1] = e
    BY AppendProperties, LenProperties
  <2>2. \A i \in 1..(Len(s) + 1) : i \in 1..Len(s) \/ i = Len(s) + 1
    BY <1>1
  <2>3. Range(Append(s, e)) \subseteq Range(s) \cup {e}
    BY <1>1, <2>1, <2>2 DEF Range
  <2>4. Range(s) \subseteq Range(Append(s, e))
    <3>1. \A i \in 1..Len(s) : i \in 1..(Len(s) + 1)
      BY <1>1
    <3> QED BY <1>1, <2>1, <3>1 DEF Range
  <2>5. e \in Range(Append(s, e))
    BY <1>1, <2>1 DEF Range
  <2> QED BY <2>1, <2>3, <2>4, <2>5
<1>5. ASSUME s # <<>>
      PROVE  /\ Head(s) \in S /\ Tail(s) \in Seq(S)
             /\ Range(s) = {Head(s)} \cup Range(Tail(s))
  <2>1. /\ Head(s) \in S /\ Tail(s) \in Seq(S) /\ Len(Tail(s)) = Len(s) - 1 /\ Len(s) # 0
        /\ DOMAIN Tail(s) = 1..(Len(s) - 1)
        /\ \A i \in 1..(Len(s) - 1) : Tail(s)[i] = s[i + 1]
    BY <1>1, <1>5, HeadTailProperties, EmptySeq, LenProperties
  <2>2. Head(s) = s[1]
    BY <1>5
  <2>3. Range(Tail(s)) \subseteq Range(s)
    BY <1>1, <2>1 DEF Range
  <2>4. ASSUME NEW i \in 1..Len(s), i # 1
        PROVE  s[i] \in Range(Tail(s))
    <3>1. i - 1 \in 1..(Len(s) - 1) /\ (i - 1) + 1 = i
      BY <1>1, <2>4
    <3> QED BY <2>1, <3>1 DEF Range
  <2>5. Range(s) \subseteq {Head(s)} \cup Range(Tail(s))
    BY <1>1, <2>2, <2>4 DEF Range
  <2>6. Head(s) \in Range(s)
    BY <1>1, <2>1, <2>2 DEF Range
  <2> QED BY <2>1, <2>3, <2>5, <2>6
<1> QED BY <1>2, <1>3, <1>4, <1>5, SeqOfRange

\* The elements of two sequences, one after the other
LEMMA ConcatRange ==
  ASSUME NEW S, NEW s \in Seq(S), NEW t \in Seq(S)
  PROVE  s \o t \in Seq(S) /\ Range(s \o t) = Range(s) \cup Range(t)
BY ConcatProperties, RangeConcatenation

\* The elements of a sequence that is reversed, and their places
LEMMA ReverseRange ==
  ASSUME NEW S, NEW s \in Seq(S)
  PROVE  /\ Reverse(s) \in Seq(S) /\ Range(Reverse(s)) = Range(s)
         /\ DOMAIN Reverse(s) = 1..Len(s)
         /\ \A i \in 1..Len(s) : Len(s) - i + 1 \in 1..Len(s) /\ Reverse(s)[i] = s[Len(s) - i + 1]
<1>1. DOMAIN s = 1..Len(s) /\ Len(s) \in Nat /\ \A i \in 1..Len(s) : s[i] \in S
  BY LenProperties, ElementOfSeq
<1>2. /\ DOMAIN Reverse(s) = 1..Len(s)
      /\ \A i \in 1..Len(s) : Len(s) - i + 1 \in 1..Len(s) /\ Reverse(s)[i] = s[Len(s) - i + 1]
  BY <1>1 DEF Reverse
<1>3. Reverse(s) \in [1..Len(s) -> S]
  BY <1>1, <1>2 DEF Reverse
<1>4. Reverse(s) \in Seq(S)
  BY <1>1, <1>3, SeqDef
<1>5. Range(Reverse(s)) \subseteq Range(s)
  BY <1>1, <1>2 DEF Range
<1>6. ASSUME NEW i \in 1..Len(s)
      PROVE  s[i] \in Range(Reverse(s))
  <2>1. Len(s) - i + 1 \in 1..Len(s) /\ Len(s) - (Len(s) - i + 1) + 1 = i
    BY <1>1
  <2> QED BY <1>2, <2>1 DEF Range
<1> QED BY <1>1, <1>2, <1>4, <1>5, <1>6 DEF Range

\* A nonempty set of positions has a greatest one.
LEMMA MaxPosition ==
  ASSUME NEW n \in Nat, NEW P \in SUBSET (1..n), P # {}
  PROVE  Max(P) \in P
<1> DEFINE Q == {n - i : i \in P}
<1>1. Q \subseteq Nat /\ Q # {}
  <2>1. \A i \in P : i \in 1..n /\ n - i \in Nat
    OBVIOUS
  <2>2. \E i : i \in P
    OBVIOUS
  <2> QED BY <2>1, <2>2
<1>2. PICK x \in Q : \A y \in Q : <<y, x>> \notin OpToRel(<, Nat)
  <2> HIDE DEF Q
  <2> QED BY <1>1, NatLessThanWellFounded, WFMin
<1>3. PICK i \in P : x = n - i
  OBVIOUS
<1>4. ASSUME NEW j \in P
      PROVE  i >= j
  <2>1. n - j \in Q /\ n - j \in Nat /\ x \in Nat
    OBVIOUS
  <2>2. ~(n - j < x)
    BY <1>2, <2>1 DEF OpToRel
  <2> QED BY <1>3, <2>2
<1> QED BY <1>4 DEF Max

\* What is left when the mount i is taken off
LEMMA TakeOff ==
  ASSUME NEW S, NEW m \in Seq(S), NEW i \in DOMAIN m, NEW A, Single(m, A)
  PROVE  /\ RemoveAt(m, i) \in Seq(S) /\ Single(RemoveAt(m, i), A)
         /\ Range(RemoveAt(m, i)) \subseteq Range(m)
         /\ Range(m) \subseteq Range(RemoveAt(m, i)) \cup {m[i]}
         /\ m[i].at \in A => \A e \in Range(RemoveAt(m, i)) : e.at # m[i].at
<1> DEFINE r == RemoveAt(m, i)
           old(k) == IF k < i THEN k ELSE k + 1
<1>1. DOMAIN m = 1..Len(m) /\ Len(m) \in Nat /\ i \in 1..Len(m) /\ \A k \in 1..Len(m) : m[k] \in S
  BY LenProperties, ElementOfSeq
<1>2. /\ SubSeq(m, 1, i - 1) \in Seq(S) /\ Len(SubSeq(m, 1, i - 1)) = i - 1
      /\ \A k \in 1..(i - 1) : SubSeq(m, 1, i - 1)[k] = m[k]
  <2>1. \A k \in 1..(i - 1) : m[k] \in S /\ 1 + k - 1 = k
    BY <1>1
  <2>2. i - 1 \in Int /\ 1 \in Int /\ (i - 1) - 1 + 1 = i - 1 /\ (1 <= i - 1 \/ i - 1 = 0)
    BY <1>1
  <2> QED BY <2>1, <2>2, SubSeqProperties
<1>3. /\ SubSeq(m, i + 1, Len(m)) \in Seq(S) /\ Len(SubSeq(m, i + 1, Len(m))) = Len(m) - i
      /\ \A k \in 1..(Len(m) - i) : SubSeq(m, i + 1, Len(m))[k] = m[i + k]
  <2>1. \A k \in (i + 1)..Len(m) : m[k] \in S
    BY <1>1
  <2>2. /\ i + 1 \in Int /\ Len(m) \in Int /\ Len(m) - (i + 1) + 1 = Len(m) - i
        /\ (i + 1 <= Len(m) \/ Len(m) - i = 0) /\ \A k \in 1..(Len(m) - i) : i + 1 + k - 1 = i + k
    BY <1>1
  <2> QED BY <2>1, <2>2, SubSeqProperties
<1>4. r \in Seq(S) /\ Len(r) = Len(m) - 1 /\ \A k \in 1..(Len(m) - 1) : r[k] = m[old(k)]
  <2> DEFINE s == SubSeq(m, 1, i - 1)
             t == SubSeq(m, i + 1, Len(m))
  <2>1. /\ r \in Seq(S) /\ Len(r) = (i - 1) + (Len(m) - i)
        /\ \A k \in 1..((i - 1) + (Len(m) - i)) : r[k] = IF k <= i - 1 THEN s[k] ELSE t[k - (i - 1)]
    <3>1. r = s \o t
      BY DEF RemoveAt
    <3>2. s \in Seq(S) /\ t \in Seq(S) /\ Len(s) = i - 1 /\ Len(t) = Len(m) - i
      BY <1>2, <1>3
    <3> HIDE DEF s, t, r
    <3> QED BY <3>1, <3>2, ConcatProperties
  <2>2. (i - 1) + (Len(m) - i) = Len(m) - 1
    BY <1>1
  <2>3. ASSUME NEW k \in 1..(Len(m) - 1)
        PROVE  r[k] = m[old(k)]
    <3>1. CASE k < i
      BY <1>1, <1>2, <2>1, <2>2, <3>1
    <3>2. CASE ~(k < i)
      <4>1. k - (i - 1) \in 1..(Len(m) - i) /\ i + (k - (i - 1)) = k + 1 /\ ~(k <= i - 1)
        BY <1>1, <3>2
      <4> QED BY <1>3, <2>1, <2>2, <3>2, <4>1
    <3> QED BY <3>1, <3>2
  <2> QED BY <2>1, <2>2, <2>3
<1>5. DOMAIN r = 1..(Len(m) - 1)
  BY <1>4, LenProperties
<1>6. \A k \in 1..(Len(m) - 1) : old(k) \in 1..Len(m) /\ old(k) # i
  BY <1>1
<1>7. \A k, l \in 1..(Len(m) - 1) : old(k) = old(l) => k = l
  BY <1>1
<1>8. ASSUME NEW j \in 1..Len(m), j # i
      PROVE  \E k \in 1..(Len(m) - 1) : old(k) = j
  <2>1. CASE j < i
    BY <1>1, <2>1
  <2>2. CASE ~(j < i)
    <3>1. j - 1 \in 1..(Len(m) - 1) /\ old(j - 1) = j
      BY <1>1, <1>8, <2>2
    <3> QED BY <3>1
  <2> QED BY <2>1, <2>2
<1> HIDE DEF old, r
<1>9. Range(r) \subseteq Range(m) /\ Range(m) \subseteq Range(r) \cup {m[i]}
  <2>1. \A k \in DOMAIN r : r[k] \in Range(m)
    BY <1>1, <1>4, <1>5, <1>6 DEF Range
  <2>2. ASSUME NEW j \in DOMAIN m, j # i
        PROVE  m[j] \in Range(r)
    BY <1>1, <1>4, <1>5, <1>8, <2>2 DEF Range
  <2>3. Range(r) \subseteq Range(m)
    BY <2>1 DEF Range
  <2> QED BY <2>2, <2>3 DEF Range
<1>10. Single(r, A)
  BY <1>1, <1>4, <1>5, <1>6, <1>7 DEF Single
<1>11. m[i].at \in A => \A e \in Range(r) : e.at # m[i].at
  BY <1>1, <1>4, <1>5, <1>6 DEF Single, Range
<1> QED BY <1>4, <1>9, <1>10, <1>11 DEF r

\* A mount at a path where nothing is mounted, or where it does not matter
LEMMA PutOn ==
  ASSUME NEW S, NEW m \in Seq(S), NEW e \in S, NEW A, Single(m, A),
         e.at \in A => \A f \in Range(m) : f.at # e.at
  PROVE  Single(Append(m, e), A)
<1>1. /\ DOMAIN m = 1..Len(m) /\ Len(m) \in Nat /\ DOMAIN Append(m, e) = 1..(Len(m) + 1)
      /\ \A i \in 1..Len(m) : Append(m, e)[i] = m[i] /\ m[i] \in Range(m)
      /\ Append(m, e)[Len(m) + 1] = e
  BY AppendProperties, LenProperties DEF Range
<1>2. \A i \in 1..(Len(m) + 1) : i \in 1..Len(m) \/ i = Len(m) + 1
  BY <1>1
<1> QED BY <1>1, <1>2 DEF Single

-----------------------------------------------------------------------------
(* The guest's table and its orders *)

\* The guest does not change.
Guest == layout \in Layouts /\ fstab \in (IF layout \in WindowsLayouts THEN WindowsPlanner ELSE Fstabs)

\* The entry for "/"
SystemRoot == Entry(System, "/")

\* Parents are mounted before their children and unmounted after them.
ParentsFirst(s) == \A i, j \in DOMAIN s : i < j => ~Above(s[j].at, s[i].at)
ChildrenFirst(s) == \A i, j \in DOMAIN s : i < j => ~Above(s[i].at, s[j].at)

\* The entries of the table differ in their mount points, and only "/" is on
\* the system's device.
LEMMA TableFacts ==
  ASSUME Guest
  PROVE  /\ System \in {"p2"} \cup Volumes /\ System \notin DataPartitions
         /\ SystemRoot \in PreparedTable
         /\ \A e \in PreparedTable :
              /\ e = Entry(e.dev, e.at) /\ e.dev \in Partitions \cup Volumes /\ e.at \in Paths
              /\ e.at = "/" <=> e = SystemRoot
              /\ e.dev = System <=> e = SystemRoot
              /\ e # SystemRoot => e.dev \in DataPartitions
         /\ \A e, f \in PreparedTable : e.at = f.at => e = f
<1>1. System \in {"p2"} \cup Volumes /\ System \notin DataPartitions
  BY GuestsAssumption DEF Guest, System, Layouts, WindowsLayouts, Volumes
<1>2. /\ fstab \in Seq([dev : DataPartitions \cup {"root"}, at : Paths])
      /\ layout \in WindowsLayouts => \A i \in DOMAIN fstab : fstab[i].dev # "root" /\ fstab[i].at = "/boot/efi" /\ i = 1
  <2>1. CASE layout \notin WindowsLayouts
    BY <2>1, GuestsAssumption DEF Guest
  <2>2. CASE layout \in WindowsLayouts /\ fstab = << >>
    BY <2>2
  <2>3. CASE layout \in WindowsLayouts /\ \E d \in DataPartitions : fstab = << Entry(d, "/boot/efi") >>
    <3>1. PICK d \in DataPartitions : fstab = << Entry(d, "/boot/efi") >>
      BY <2>3
    <3>2. Entry(d, "/boot/efi") \in [dev : DataPartitions \cup {"root"}, at : Paths]
      BY PathsAssumption DEF Entry
    <3>3. d # "root"
      BY GuestsAssumption
    <3>4. /\ DOMAIN fstab = {1} /\ fstab[1] = Entry(d, "/boot/efi")
          /\ fstab \in Seq([dev : DataPartitions \cup {"root"}, at : Paths])
      BY <3>1, <3>2
    <3> QED BY <3>3, <3>4 DEF Entry
  <2> QED BY <2>1, <2>2, <2>3 DEF Guest, WindowsPlanner
<1>3. DOMAIN fstab = 1..Len(fstab) /\ Len(fstab) \in Nat
      /\ \A i \in DOMAIN fstab : fstab[i] \in [dev : DataPartitions \cup {"root"}, at : Paths]
  <2> DEFINE T == [dev : DataPartitions \cup {"root"}, at : Paths]
  <2>1. fstab \in Seq(T)
    BY <1>2
  <2> HIDE DEF T
  <2>2. DOMAIN fstab = 1..Len(fstab) /\ Len(fstab) \in Nat /\ \A i \in DOMAIN fstab : fstab[i] \in T
    BY <2>1, LenProperties, ElementOfSeq
  <2> QED BY <2>2 DEF T
<1>4. ASSUME NEW e \in Planned
      PROVE  \E i \in DOMAIN fstab :
               /\ e = fstab[i] /\ e.at # "/" /\ e.dev # "root"
               /\ \A j \in DOMAIN fstab : j < i => fstab[j].at # e.at
  <2>1. CASE layout \in WindowsLayouts
    <3>1. PICK i \in DOMAIN fstab : e = fstab[i]
      BY <1>4, <2>1 DEF Planned, Range
    <3>2. e.dev # "root" /\ e.at = "/boot/efi" /\ \A j \in DOMAIN fstab : j = i
      BY <1>2, <2>1, <3>1
    <3>3. \A j \in DOMAIN fstab : ~(j < i)
      BY <1>3, <3>2
    <3> QED BY <3>1, <3>2, <3>3
  <2>2. CASE layout \notin WindowsLayouts
    <3>1. PICK i \in DOMAIN fstab : /\ e = fstab[i] /\ e.at # "/" /\ e.dev # "root"
                                    /\ \A k \in 1..(i - 1) : fstab[k].at # e.at
      BY <1>4, <2>2 DEF Planned, LinuxPlanner
    <3>2. \A j \in DOMAIN fstab : j < i => j \in 1..(i - 1)
      BY <1>3
    <3> QED BY <3>1, <3>2
  <2> QED BY <2>1, <2>2
<1>5. \A e \in Planned : e \in [dev : DataPartitions, at : Paths] /\ e.at # "/"
  BY <1>3, <1>4
<1>6. ASSUME NEW e \in Planned, NEW f \in Planned, e.at = f.at
      PROVE  e = f
  <2>1. PICK i \in DOMAIN fstab : e = fstab[i] /\ \A j \in DOMAIN fstab : j < i => fstab[j].at # e.at
    BY <1>4
  <2>2. PICK j \in DOMAIN fstab : f = fstab[j] /\ \A k \in DOMAIN fstab : k < j => fstab[k].at # f.at
    BY <1>4
  <2>3. ~(i < j) /\ ~(j < i) /\ i \in Nat /\ j \in Nat
    BY <1>3, <1>6, <2>1, <2>2
  <2>4. i = j
    BY <2>3
  <2> QED BY <2>1, <2>2, <2>4
<1>7. /\ SystemRoot.dev = System /\ SystemRoot.at = "/"
      /\ SystemRoot = Entry(SystemRoot.dev, SystemRoot.at)
      /\ "/" \in Paths /\ System \in Partitions \cup Volumes
  BY <1>1, PathsAssumption DEF SystemRoot, Entry, Partitions
<1>8. \A e \in Planned : /\ e = Entry(e.dev, e.at) /\ e.dev \in DataPartitions /\ e.at \in Paths /\ e.at # "/"
                         /\ e.dev # System /\ e # SystemRoot /\ e.dev \in Partitions
  BY <1>1, <1>5, <1>7 DEF Entry, Partitions
<1>9. PreparedTable = {SystemRoot} \cup Planned
  BY DEF PreparedTable, SystemRoot
<1> HIDE DEF SystemRoot
<1> QED BY <1>1, <1>6, <1>7, <1>8, <1>9

\* What the fstab has beside "/" is no entry for "/".
LEMMA PlannedFacts ==
  ASSUME Guest
  PROVE  SystemRoot \notin Planned
<1>1. SystemRoot.at = "/"
  BY DEF SystemRoot, Entry
<1>2. CASE layout \in WindowsLayouts
  <2>1. fstab = << >> \/ \E d \in DataPartitions : fstab = << Entry(d, "/boot/efi") >>
    BY <1>2 DEF Guest, WindowsPlanner
  <2>2. \A i \in DOMAIN fstab : fstab[i].at = "/boot/efi"
    BY <2>1 DEF Entry
  <2> QED BY <1>1, <1>2, <2>2 DEF Planned, Range
<1>3. CASE layout \notin WindowsLayouts
  BY <1>1, <1>3 DEF Planned, LinuxPlanner
<1> QED BY <1>2, <1>3

\* The devices are finitely many.
LEMMA FiniteDevices == IsFiniteSet(Partitions \cup Volumes)
<1>1. IsFiniteSet({"p2", "mapper", "lv", "ldm"})
  <2>1. \A x : IsFiniteSet({x})
    BY FS_Singleton
  <2>2. IsFiniteSet({"p2"} \cup {"mapper"})
    BY <2>1, FS_Union
  <2>3. IsFiniteSet({"lv"} \cup {"ldm"})
    BY <2>1, FS_Union
  <2>4. IsFiniteSet(({"p2"} \cup {"mapper"}) \cup ({"lv"} \cup {"ldm"}))
    BY <2>2, <2>3, FS_Union
  <2>5. ({"p2"} \cup {"mapper"}) \cup ({"lv"} \cup {"ldm"}) = {"p2", "mapper", "lv", "ldm"}
    OBVIOUS
  <2> QED BY <2>4, <2>5
<1>2. Partitions \cup Volumes = DataPartitions \cup {"p2", "mapper", "lv", "ldm"}
  BY DEF Partitions, Volumes
<1> QED BY <1>1, <1>2, FS_Union, GuestsAssumption

\* The table is finite.
LEMMA FiniteTable ==
  ASSUME Guest
  PROVE  IsFiniteSet(PreparedTable)
<1> DEFINE D == Partitions \cup Volumes
           R == [dev : D, at : Paths]
           f == [x \in D \X Paths |-> [dev |-> x[1], at |-> x[2]]]
<1>1. IsFiniteSet(D)
  BY FiniteDevices
<1>2. IsFiniteSet(D \X Paths)
  BY <1>1, FS_Product, PathsAssumption
<1>3. f \in Surjection(D \X Paths, R)
  <2>1. f \in [D \X Paths -> R]
    OBVIOUS
  <2>2. ASSUME NEW e \in R
        PROVE  \E x \in D \X Paths : f[x] = e
    <3>1. <<e.dev, e.at>> \in D \X Paths /\ f[<<e.dev, e.at>>] = e
      OBVIOUS
    <3> QED BY <3>1
  <2> HIDE DEF f, R, D
  <2> QED BY <2>1, <2>2 DEF Surjection
<1>4. IsFiniteSet(R)
  <2> HIDE DEF f, R, D
  <2> QED BY <1>2, <1>3, FS_Surjection
<1>5. PreparedTable \subseteq R
  <2>1. \A e \in PreparedTable : e = Entry(e.dev, e.at) /\ e.dev \in D /\ e.at \in Paths
    BY TableFacts
  <2> QED BY <2>1 DEF Entry
<1> HIDE DEF R
<1> QED BY <1>4, <1>5, FS_Subset

\* What ordering a part of the table returns: a sequence with the same entries,
\* parents in front of their children and "/" in front of all.
LEMMA OrderFacts ==
  ASSUME Guest, NEW S, S \subseteq PreparedTable, NEW key, key \in {Length, Depth}, NEW s \in OrdersBy(key, S)
  PROVE  /\ s \in Seq(S) /\ s \in Seq(PreparedTable) /\ Range(s) = S
         /\ Single(s, Paths) /\ ParentsFirst(s)
         /\ SystemRoot \in S => s # <<>> /\ Head(s) = SystemRoot
<1>1. IsFiniteSet(S) /\ Cardinality(S) \in Nat
  BY FiniteTable, FS_Subset, FS_CardinalityType
<1>2. /\ s \in [1..Cardinality(S) -> S] /\ Range(s) = S /\ IsInjective(s)
      /\ \A i, j \in DOMAIN s : i < j => key[s[i].at] <= key[s[j].at]
  BY DEF OrdersBy
<1>3. s \in Seq(S) /\ DOMAIN s = 1..Len(s) /\ Len(s) \in Nat
  BY <1>1, <1>2, SeqDef, LenProperties
<1>4. s \in Seq(PreparedTable)
  BY <1>3, SeqMonotonic
<1>5. \A i \in DOMAIN s : s[i] \in S /\ s[i] \in PreparedTable /\ s[i].at \in Paths
  BY <1>2, TableFacts
<1>6. \A i, j \in DOMAIN s : s[i].at = s[j].at => i = j
  BY <1>2, <1>5, TableFacts DEF IsInjective
<1>7. \A p, q \in Paths : Above(p, q) => key[p] < key[q] /\ key[p] \in Nat /\ key[q] \in Nat
  <2>1. \A p, q \in Paths : Above(p, q) => <<p, q>> \in Under
    BY PathsAssumption DEF Above
  <2> QED BY <2>1, PathsAssumption
<1>8. \A i, j \in DOMAIN s : i < j => ~Above(s[j].at, s[i].at)
  BY <1>2, <1>5, <1>7
<1>9. ASSUME SystemRoot \in S
      PROVE  s # <<>> /\ Head(s) = SystemRoot
  <2>1. PICK i \in DOMAIN s : s[i] = SystemRoot
    BY <1>2, <1>9 DEF Range
  <2>2. s # <<>> /\ 1 \in DOMAIN s /\ Head(s) = s[1]
    BY <1>3, <2>1
  <2>3. CASE i = 1
    BY <2>1, <2>2, <2>3
  <2>4. CASE i # 1
    <3>1. 1 < i /\ s[1].at \in Paths /\ s[1].at # "/" /\ s[i].at = "/"
      BY <1>3, <1>5, <1>6, <2>1, <2>2, <2>4, TableFacts
    <3>2. Above(s[i].at, s[1].at)
      BY <3>1, PathsAssumption DEF Above
    <3> QED BY <1>8, <2>1, <2>2, <3>1, <3>2
  <2> QED BY <2>3, <2>4
<1> QED BY <1>2, <1>3, <1>4, <1>6, <1>8, <1>9 DEF Single, ParentsFirst

\* A path is not above itself, and nothing is under a probe or the virtual
\* filesystems.
LEMMA AboveFacts ==
  /\ \A p : ~Above(p, p)
  /\ \A q : ~Above(Probe, q) /\ ~Above("/proc", q)
<1>1. \A p, q : <<p, q>> \in Under => p \in Paths /\ q \in Paths /\ Length[p] < Length[q]
  BY PathsAssumption
<1>2. \A p \in Paths : ~(Length[p] < Length[p])
  <2>1. \A p \in Paths : Length[p] \in Nat
    BY PathsAssumption
  <2>2. \A n \in Nat : ~(n < n)
    OBVIOUS
  <2> QED BY <2>1, <2>2
<1>3. Probe \notin Paths /\ "/proc" \notin Paths
  BY PathsAssumption DEF Probe
<1>4. \A p : ~Above(p, p)
  BY <1>1, <1>2 DEF Above
<1>5. \A q : ~Above(Probe, q) /\ ~Above("/proc", q)
  BY <1>1, <1>3 DEF Above, Probe
<1> QED BY <1>4, <1>5

\* The first entry is before the others, and the others keep their order.
LEMMA TailOrder ==
  ASSUME NEW S, NEW s \in Seq(S), s # <<>>, NEW A
  PROVE  /\ Single(s, A) => /\ Single(Tail(s), A)
                            /\ Head(s).at \in A => \A f \in Range(Tail(s)) : f.at # Head(s).at
         /\ ParentsFirst(s) => /\ ParentsFirst(Tail(s))
                               /\ \A f \in Range(Tail(s)) : ~Above(f.at, Head(s).at)
         /\ ChildrenFirst(s) => /\ ChildrenFirst(Tail(s))
                                /\ \A f \in Range(Tail(s)) : ~Above(Head(s).at, f.at)
<1>1. /\ DOMAIN s = 1..Len(s) /\ Len(s) \in Nat /\ Len(s) # 0 /\ Head(s) = s[1]
      /\ DOMAIN Tail(s) = 1..(Len(s) - 1) /\ \A i \in 1..(Len(s) - 1) : Tail(s)[i] = s[i + 1]
  BY HeadTailProperties, EmptySeq, LenProperties
<1>2. \A i \in DOMAIN Tail(s) : i + 1 \in DOMAIN s /\ 1 < i + 1 /\ 1 \in DOMAIN s /\ Tail(s)[i] = s[i + 1] /\ i + 1 # 1
  BY <1>1
<1>3. \A i, j \in DOMAIN Tail(s) : (i < j => i + 1 < j + 1) /\ (i + 1 = j + 1 => i = j)
  BY <1>1
<1>4. Single(s, A) => Single(Tail(s), A) /\ (Head(s).at \in A => \A f \in Range(Tail(s)) : f.at # Head(s).at)
  BY <1>1, <1>2, <1>3 DEF Single, Range
<1>5. ParentsFirst(s) => ParentsFirst(Tail(s)) /\ \A f \in Range(Tail(s)) : ~Above(f.at, Head(s).at)
  BY <1>1, <1>2, <1>3 DEF ParentsFirst, Range
<1>6. ChildrenFirst(s) => ChildrenFirst(Tail(s)) /\ \A f \in Range(Tail(s)) : ~Above(Head(s).at, f.at)
  BY <1>1, <1>2, <1>3 DEF ChildrenFirst, Range
<1> QED BY <1>4, <1>5, <1>6

\* A mount that is above none of the others can be made last.
LEMMA AppendOrder ==
  ASSUME NEW S, NEW m \in Seq(S), NEW e \in S, ParentsFirst(m), \A f \in Range(m) : ~Above(e.at, f.at)
  PROVE  ParentsFirst(Append(m, e))
<1>1. /\ DOMAIN m = 1..Len(m) /\ Len(m) \in Nat /\ DOMAIN Append(m, e) = 1..(Len(m) + 1)
      /\ \A i \in 1..Len(m) : Append(m, e)[i] = m[i] /\ m[i] \in Range(m)
      /\ Append(m, e)[Len(m) + 1] = e
  BY AppendProperties, LenProperties DEF Range
<1>2. \A i, j \in 1..(Len(m) + 1) : i < j => i \in 1..Len(m) /\ (j \in 1..Len(m) \/ j = Len(m) + 1)
  BY <1>1
<1> QED BY <1>1, <1>2 DEF ParentsFirst

\* What was mounted with parents first is unmounted in the reverse order, after
\* a mount v that is above none of it.
LEMMA ReverseOrder ==
  ASSUME NEW S, NEW s \in Seq(S), ParentsFirst(s)
  PROVE  /\ ChildrenFirst(Reverse(s))
         /\ \A v \in S : (\A q : ~Above(v.at, q)) => ChildrenFirst(<<v>> \o Reverse(s))
<1>1. DOMAIN s = 1..Len(s) /\ Len(s) \in Nat
  BY LenProperties
<1>2. /\ Reverse(s) \in Seq(S) /\ DOMAIN Reverse(s) = 1..Len(s)
      /\ \A i \in 1..Len(s) : Len(s) - i + 1 \in 1..Len(s) /\ Reverse(s)[i] = s[Len(s) - i + 1]
  BY ReverseRange
<1>3. \A i, j \in 1..Len(s) : i < j => Len(s) - j + 1 < Len(s) - i + 1
  BY <1>1
<1>4. ChildrenFirst(Reverse(s))
  BY <1>1, <1>2, <1>3 DEF ParentsFirst, ChildrenFirst
<1>5. ASSUME NEW v \in S, \A q : ~Above(v.at, q)
      PROVE  ChildrenFirst(<<v>> \o Reverse(s))
  <2> DEFINE r == Reverse(s)
             t == <<v>> \o r
  <2>1. r \in Seq(S) /\ <<v>> \in Seq(S) /\ Len(<<v>>) = 1 /\ <<v>>[1] = v
    BY <1>2
  <2>2. Len(r) \in Nat /\ DOMAIN r = 1..Len(r)
    BY <2>1, LenProperties
  <2> HIDE DEF r
  <2>3. /\ t \in Seq(S) /\ Len(t) = 1 + Len(r)
        /\ \A i \in 1..(1 + Len(r)) : t[i] = IF i <= 1 THEN <<v>>[i] ELSE r[i - 1]
    BY <2>1, ConcatProperties
  <2>4. DOMAIN t = 1..(1 + Len(r))
    BY <2>3, LenProperties
  <2> HIDE DEF t
  <2>5. ASSUME NEW i \in DOMAIN t, NEW j \in DOMAIN t, i < j
        PROVE  ~Above(t[i].at, t[j].at)
    <3>1. CASE i = 1
      BY <1>5, <2>1, <2>3, <2>4, <3>1
    <3>2. CASE i # 1
      <4>1. i - 1 \in DOMAIN r /\ j - 1 \in DOMAIN r /\ i - 1 < j - 1 /\ ~(i <= 1) /\ ~(j <= 1)
        BY <2>2, <2>4, <2>5, <3>2
      <4>2. t[i] = r[i - 1] /\ t[j] = r[j - 1]
        BY <2>3, <2>4, <4>1
      <4> QED BY <1>4, <4>1, <4>2 DEF ChildrenFirst, r
    <3> QED BY <3>1, <3>2
  <2> QED BY <2>5 DEF ChildrenFirst, t, r
<1> QED BY <1>4, <1>5

\* Without forgets one entry.
LEMMA WithoutFacts ==
  ASSUME NEW S, NEW s \in Seq(S), NEW t
  PROVE  /\ Without(s, t) \in Seq(S)
         /\ Range(Without(s, t)) \subseteq Range(s)
         /\ Range(s) \subseteq Range(Without(s, t)) \cup {t}
<1>1. CASE t \notin Range(s)
  BY <1>1 DEF Without
<1>2. CASE t \in Range(s)
  <2> DEFINE P == {i \in DOMAIN s : s[i] = t}
  <2>1. DOMAIN s = 1..Len(s) /\ Len(s) \in Nat
    BY LenProperties
  <2>2. P \in SUBSET (1..Len(s)) /\ P # {}
    BY <1>2, <2>1 DEF Range
  <2>3. Max(P) \in P
    BY <2>1, <2>2, MaxPosition
  <2>4. Max(P) \in DOMAIN s /\ s[Max(P)] = t
    BY <2>3
  <2>5. Single(s, {})
    BY DEF Single
  <2>6. Without(s, t) = RemoveAt(s, Max(P))
    BY <1>2 DEF Without
  <2> HIDE DEF P
  <2> QED BY <2>4, <2>5, <2>6, TakeOff
<1> QED BY <1>1, <1>2

\* A set of probes is probed one after the other.
LEMMA ProbesInSeq ==
  ASSUME NEW X \in SUBSET Probes
  PROVE  SetToSeq(X) \in Seq(Probes)
<1> DEFINE D == Partitions \cup Volumes
           f == [d \in D |-> Entry(d, Probe)]
<1>1. IsFiniteSet(Probes)
  <2>1. f \in Surjection(D, Probes)
    BY DEF Surjection, Probes
  <2> HIDE DEF D, f
  <2> QED BY <2>1, FiniteDevices, FS_Surjection DEF D
<1>2. IsFiniteSet(X) /\ Cardinality(X) \in Nat
  BY <1>1, FS_Subset, FS_CardinalityType
<1>3. ExistsBijection(1..Cardinality(X), X)
  BY <1>2, FS_CardinalityType
<1>4. \E g \in [1..Cardinality(X) -> X] : IsInjective(g)
  BY <1>3 DEF ExistsBijection, Bijection, Injection, IsInjective
<1>5. SetToSeq(X) \in [1..Cardinality(X) -> X]
  BY <1>4 DEF SetToSeq
<1>6. SetToSeq(X) \in Seq(X)
  BY <1>2, <1>5, SeqDef
<1> QED BY <1>6, SeqMonotonic

\* Sequences of probes, or of entries of the table, are sequences of mounts.
LEMMA ProbesAreEntries ==
  Seq(Probes) \subseteq Seq(Entries) /\ Seq(PreparedTable) \subseteq Seq(Entries) /\ <<>> \in Seq(Entries)
<1>1. Probes \subseteq Entries /\ PreparedTable \subseteq Entries
  BY DEF Entries
<1> QED BY <1>1, SeqMonotonic, EmptySeq

\* What a Backend records, and the disk infos
Backends ==
  [mounts : Seq(PreparedTable), probes : Seq(Probes), maps : BOOLEAN, ldm : BOOLEAN, disk : BOOLEAN]
InfosShape == DOMAIN infos \subseteq Partitions \cup Volumes /\ infos \in [DOMAIN infos -> Paths \cup {""}]

\* The state is well formed: a Backend records mounts of the guest's table and
\* its probes, and only the system's device is ever chosen as the root.
Shape ==
  /\ kind \in {"direct", "qemu"} /\ shared \in BOOLEAN /\ (shared => kind = "qemu")
  /\ Guest
  /\ mnt \in Seq(Entries) /\ open \subseteq Volumes /\ loop \in {"none", "attached", "lazy"}
  /\ be \in Backends /\ InfosShape
  /\ json \in BOOLEAN /\ root \in {"", System} /\ ok \in BOOLEAN
  /\ todo \in Seq(Entries) /\ failed \subseteq Commands

\* Before discovery; after the last umount; the loops of umounts; from attaching
\* to working
Preparing == {"setup", "unlock", "rescan", "precheck"}
Releasing == {"close", "deactivate", "detach"}
Unmounting == {"umount", "sweep"}
Working == {"attach", "remount", "work", "chroot"}

\* Where the stages can be.  Only a prepare that failed tears down, and only a
\* finalize or a clean-up that failed exits instead of being over.
Places ==
  /\ stage \in {"prepare", "convert", "finalize", "cleanup"}
  /\ stage = "prepare" =>
       pc \in Preparing \cup {"discover", "probed", "mount", "release", "teardown", "exit"} \cup Unmounting \cup Releasing
  /\ stage = "convert" => pc \in Working \cup {"exit"}
  /\ stage = "finalize" => pc \in Working \cup Unmounting \cup {"postcheck", "exit", "over"} \cup Releasing
  /\ stage = "cleanup" =>
       pc \in {"attach", "remount", "mountroot", "teardown", "exit", "over"} \cup Unmounting \cup Releasing
  /\ pc = "remount" => kind = "qemu" /\ ~shared
  /\ pc = "chroot" => kind = "qemu"
  /\ pc = "sweep" => kind = "direct"
  /\ stage = "prepare" /\ pc \in {"teardown"} \cup Unmounting \cup Releasing => ~ok
  /\ stage \in {"finalize", "cleanup"} /\ pc = "exit" => ~ok

\* prepare has mounted nothing of the guest
Early ==
  stage = "prepare" /\ pc \notin {"mount", "release", "exit"} =>
    /\ ~json /\ be.mounts = <<>> /\ GuestMounted = {}
    /\ \A d \in DOMAIN infos : infos[d] = ""
    /\ pc \notin {"discover", "probed"} => mnt = <<>> /\ be.probes = <<>> /\ root = ""

\* What pipeline.json says: the disk infos, and the table a later stage makes
\* of them and of RootDevice
InInfos(e) == e.dev \in DOMAIN infos /\ infos[e.dev] = e.at
Table == MountEntries(WithRootMount(infos, root))

\* The disk infos name entries of the guest's table, with "/" among them; every
\* mount of the guest is in them, and of a device that is mounted twice the last.
Infos ==
  /\ \A d \in DOMAIN infos : infos[d] # "" => Entry(d, infos[d]) \in PreparedTable /\ InInfos(SystemRoot)
  /\ \A e \in GuestMounted : ~TwiceMounted \/ e = SystemRoot => InInfos(e)
  /\ json => root = "" \/ InInfos(SystemRoot)

\* All the paths where something can be mounted
Everywhere == Paths \cup {Probe, "/proc"}

\* The kernel has at most one mount at a path, but for probes and virtual
\* filesystems whose umount failed; nothing is mounted from a device that does
\* not exist; probes and virtual filesystems are there only while they are used.
Kernel ==
  /\ Single(mnt, Paths) /\ ("umount" \notin failed => Single(mnt, Everywhere))
  /\ \A e \in GuestMounted : Exists(e.dev, open)
  /\ kind = "direct" => Virtual \notin Range(mnt) /\ "ldm" \notin open
  /\ "umount" \notin failed =>
       /\ Virtual \in Range(mnt) => pc = "chroot"
       /\ \A e \in Range(mnt) : e.at = Probe => pc = "probed"
  /\ pc = "probed" => todo # <<>> /\ Head(todo) \in Range(mnt)
  /\ pc \in {"discover", "probed"} => todo \in Seq(Probes)
  /\ pc = "release" => todo \in Seq(Probes)

\* What is mounted and what is still to be mounted is the whole table, without
\* overlap, "/" first; in a fresh appliance no later mount hides an earlier one.
Pending ==
  /\ pc \in {"mount", "remount"} =>
       /\ todo \in Seq(PreparedTable)
       /\ Single(todo, Paths)
       /\ \A e \in Range(mnt), f \in Range(todo) : e.at # f.at
  /\ pc = "mount" =>
       /\ root = System
       /\ \/ todo = <<SystemRoot>> /\ GuestMounted = {} /\ \A d \in DOMAIN infos : infos[d] = ""
          \/ GuestMounted \cup Range(todo) = PreparedTable /\ SystemRoot \notin Range(todo)
  /\ pc = "remount" =>
       /\ mnt \in Seq(PreparedTable) /\ be.mounts = mnt
       /\ ParentsFirst(mnt) /\ ParentsFirst(todo)
       /\ \A e \in Range(mnt), f \in Range(todo) : ~Above(f.at, e.at)
       /\ Range(mnt) \cup Range(todo) = Table
       /\ mnt = <<>> /\ todo # <<>> => Head(todo) = SystemRoot
       /\ mnt # <<>> => SystemRoot \in Range(mnt)

\* What prepare hands over: the root, the table in the disk infos (as far as they
\* can hold it), and the mounts themselves where they outlive the stage
Handed ==
  /\ json /\ root = System /\ InInfos(SystemRoot)
  /\ ~TwiceMounted => \A e \in PreparedTable : InInfos(e)
  /\ kind = "direct" \/ shared => GuestMounted = PreparedTable

\* A stage that was reached finds what was handed over; with an appliance of its
\* own it has mounted what the disk infos say.  The system's device exists until
\* finalize has checked it.
Handover ==
  /\ \/ stage \in {"convert", "finalize"} /\ pc \in Working
     \/ stage \in {"prepare", "convert"} /\ pc \in {"release", "exit"} /\ ok
     => Handed
  /\ pc \in {"work", "chroot"} /\ kind = "qemu" /\ ~shared => GuestMounted = Table
  /\ stage = "finalize" /\ pc \in Unmounting \cup {"postcheck"} => Exists(System, open)
  /\ stage \in {"convert", "finalize"} \/ (stage = "cleanup" /\ pc \in {"attach", "remount", "teardown"}) => json

\* The qemu backend has recorded every mount of the guest, parents first; the
\* direct backend records none in the stages that find them on the host.
Records ==
  /\ kind = "qemu" /\ ~(TwiceMounted /\ shared /\ stage # "prepare") =>
       (pc \in {"mount", "remount", "work", "chroot", "teardown", "umount", "postcheck", "close"} =>
          GuestMounted \subseteq Range(be.mounts))
  /\ pc \in {"work", "chroot", "teardown"} => ParentsFirst(be.mounts)
  /\ stage # "prepare" => be.probes = <<>> /\ (kind = "direct" \/ pc = "attach" => be.mounts = <<>>)

\* While no umount failed, what is mounted is still in the list of umounts, which
\* goes from the children to their parents, and nothing is left after it.
Unmounted ==
  /\ pc \in Unmounting =>
       /\ todo \in Seq(Entries)
       /\ ChildrenFirst(todo)
  /\ "umount" \notin failed /\ ~(TwiceMounted /\ shared) =>
       /\ pc = "sweep" \/ (pc = "umount" /\ kind = "qemu") => Range(mnt) \subseteq Range(todo)
       /\ pc \in {"postcheck"} \cup Releasing => mnt = <<>>

\* While no command failed, the mappers, the volumes and the loop device of the
\* host are given back in that order.
Clean ==
  /\ kind = "direct" /\ pc \in {"exit", "mountroot"} => stage # "cleanup" \/ (pc = "mountroot" /\ ~json)
  /\ kind = "direct" /\ json /\ stage # "prepare" /\ pc \notin {"attach", "exit", "mountroot", "over"} => be.disk
  /\ failed = {} /\ json /\ ~(TwiceMounted /\ shared) =>
       /\ pc = "over" \/ (stage = "cleanup" /\ pc \in {"exit", "mountroot"}) => mnt = <<>>
       /\ kind = "direct" /\ layout # "lvm_on_luks" =>
            /\ pc = "deactivate" => "mapper" \notin open
            /\ pc = "detach" => open = {}
            /\ pc = "over" => open = {} /\ loop = "none"

\* The inductive invariant
MountInv ==
  Shape /\ Places /\ Early /\ Infos /\ Kernel /\ Pending /\ Handover /\ Records /\ Unmounted /\ Clean

-----------------------------------------------------------------------------
(* What does not change, and what the parts are about *)

\* A step that leaves the guest alone leaves its table alone.
LEMMA Fixed ==
  ASSUME Guest, UNCHANGED guest
  PROVE  /\ Guest' /\ kind' = kind /\ shared' = shared /\ layout' = layout
         /\ System' = System /\ SystemRoot' = SystemRoot
         /\ Planned' = Planned /\ PreparedTable' = PreparedTable /\ Entries' = Entries
         /\ Backends' = Backends
         /\ TwiceMounted' <=> TwiceMounted
<1>1. layout' = layout /\ fstab' = fstab /\ kind' = kind /\ shared' = shared
  BY DEF guest
<1>2. Guest'
  BY <1>1 DEF Guest
<1>3. System' = System
  BY <1>1 DEF System
<1>4. Planned' = Planned
  BY <1>1 DEF Planned, LinuxPlanner
<1>5. SystemRoot' = SystemRoot /\ PreparedTable' = PreparedTable
  BY <1>3, <1>4 DEF SystemRoot, PreparedTable
<1>6. TwiceMounted' <=> TwiceMounted
  BY <1>4 DEF TwiceMounted
<1> QED BY <1>1, <1>2, <1>3, <1>4, <1>5, <1>6 DEF Entries, Backends

\* A step keeps the state well formed if it keeps every variable so.
LEMMA ShapeStep ==
  ASSUME Shape, UNCHANGED guest, mnt' \in Seq(Entries), open' \subseteq Volumes, loop' \in {"none", "attached", "lazy"},
         be' \in Backends, InfosShape', json' \in BOOLEAN, root' \in {"", System}, ok' \in BOOLEAN,
         todo' \in Seq(Entries), failed' \subseteq Commands
  PROVE  Shape'
<1>1. Guest
  BY DEF Shape
<1>2. kind' \in {"direct", "qemu"} /\ shared' \in BOOLEAN /\ (shared' => kind' = "qemu")
  BY DEF Shape, guest
<1>3. Entries' = Entries /\ System' = System /\ Backends' = Backends /\ Guest'
  BY <1>1, Fixed
<1> QED BY <1>2, <1>3 DEF Shape

\* What a Backend has recorded
LEMMA BackendFacts ==
  /\ New \in Backends /\ New.mounts = <<>> /\ New.probes = <<>>
  /\ \A b \in Backends : b.mounts \in Seq(PreparedTable) /\ b.probes \in Seq(Probes)
<1> DEFINE S == Seq(PreparedTable)
           P == Seq(Probes)
<1>1. <<>> \in S /\ <<>> \in P
  BY EmptySeq
<1>2. Backends = [mounts : S, probes : P, maps : BOOLEAN, ldm : BOOLEAN, disk : BOOLEAN]
  BY DEF Backends
<1> HIDE DEF S, P
<1>3. New \in Backends /\ New.mounts = <<>> /\ New.probes = <<>>
  BY <1>1, <1>2 DEF New
<1>4. \A b \in Backends : b.mounts \in S /\ b.probes \in P
  BY <1>2
<1> QED BY <1>3, <1>4 DEF S, P

\* The mounts of the guest are those that are in its table.
LEMMA MountedFacts ==
  ASSUME Guest
  PROVE  /\ \A e \in Entries : e \in PreparedTable \/ e \in Probes \/ e = Virtual
         /\ \A e \in PreparedTable : e.at \in Paths /\ e.at # Probe /\ e.dev # "virtual" /\ e.at # "/proc"
         /\ \A e \in Probes : e.at = Probe /\ e.dev # "virtual"
         /\ Virtual.at = "/proc" /\ Virtual.dev = "virtual"
         /\ Probe \notin Paths /\ "/proc" \notin Paths /\ Probe # "/proc"
         /\ \A e \in Entries : e.at \in Everywhere
         /\ \A m : m \in Seq(Entries) => {e \in Range(m) : e.at # Probe /\ e.dev # "virtual"} = Range(m) \cap PreparedTable
<1>1. \A e \in Entries : e \in PreparedTable \/ e \in Probes \/ e = Virtual
  BY DEF Entries
<1>2. /\ Probe \notin Paths /\ "/proc" \notin Paths /\ Probe # "/proc"
      /\ "virtual" \notin Partitions \cup Volumes
  BY PathsAssumption, GuestsAssumption DEF Probe, Partitions, Volumes
<1>3. \A e \in PreparedTable : e.at \in Paths /\ e.at # Probe /\ e.dev # "virtual" /\ e.at # "/proc"
  BY <1>2, TableFacts
<1>4. \A e \in Probes : e.at = Probe /\ e.dev # "virtual"
  BY <1>2 DEF Probes, Entry
<1>5. Virtual.at = "/proc" /\ Virtual.dev = "virtual"
  BY DEF Virtual, Entry
<1>6. ASSUME NEW m \in Seq(Entries)
      PROVE  {e \in Range(m) : e.at # Probe /\ e.dev # "virtual"} = Range(m) \cap PreparedTable
  <2>1. Range(m) \subseteq Entries
    BY SeqRange
  <2> QED BY <1>1, <1>3, <1>4, <1>5, <2>1
<1> QED BY <1>1, <1>2, <1>3, <1>4, <1>5, <1>6 DEF Everywhere

\* What umount of t leaves: it takes off one mount at t's path, and all of them
\* when no umount failed before or the path is one of the guest's.
LEMMA UmountFacts ==
  ASSUME Guest, mnt \in Seq(Entries), Single(mnt, Paths), "umount" \notin failed => Single(mnt, Everywhere),
         NEW t, At(t) # {}, NEW r, r = RemoveAt(mnt, Max(At(t)))
  PROVE  /\ r \in Seq(Entries) /\ Range(r) \subseteq Range(mnt)
         /\ Single(r, Paths) /\ ("umount" \notin failed => Single(r, Everywhere))
         /\ t.at \in Paths \/ "umount" \notin failed => \A e \in Range(r) : e.at # t.at
         /\ \A e \in Range(mnt) : e \in Range(r) \/ e.at = t.at
         /\ t.at \notin Paths => Range(r) \cap PreparedTable = Range(mnt) \cap PreparedTable
<1> DEFINE i == Max(At(t))
<1>1. DOMAIN mnt = 1..Len(mnt) /\ Len(mnt) \in Nat /\ \A k \in 1..Len(mnt) : mnt[k] \in Entries
  BY LenProperties, ElementOfSeq
<1>2. At(t) \in SUBSET (1..Len(mnt))
  BY <1>1 DEF At
<1>3. i \in At(t)
  BY <1>1, <1>2, MaxPosition
<1>4. i \in DOMAIN mnt /\ mnt[i].at = t.at /\ mnt[i] \in Entries
  BY <1>1, <1>2, <1>3 DEF At
<1> HIDE DEF i
<1>5. r = RemoveAt(mnt, i)
  BY DEF i
<1>6. /\ r \in Seq(Entries) /\ Single(r, Paths) /\ Range(r) \subseteq Range(mnt)
      /\ Range(mnt) \subseteq Range(r) \cup {mnt[i]}
      /\ t.at \in Paths => \A e \in Range(r) : e.at # t.at
  BY <1>4, <1>5, TakeOff
<1>7. "umount" \notin failed => Single(r, Everywhere) /\ \A e \in Range(r) : e.at # t.at
  <2>1. mnt[i].at \in Everywhere
    BY <1>4, MountedFacts
  <2> QED BY <1>4, <1>5, <2>1, TakeOff
<1>8. t.at \notin Paths => mnt[i] \notin PreparedTable
  BY <1>4, TableFacts
<1> QED BY <1>4, <1>6, <1>7, <1>8

\* What the disk infos say is a part of the guest's table, with "/".
LEMMA InfosFacts ==
  ASSUME Guest, InfosShape, root \in {"", System},
         \A d \in DOMAIN infos : infos[d] # "" => Entry(d, infos[d]) \in PreparedTable /\ InInfos(SystemRoot)
  PROVE  /\ Table \subseteq PreparedTable
         /\ \A e \in PreparedTable : InInfos(e) => e \in Table
         /\ Table # {} => SystemRoot \in Table
         /\ root = "" \/ InInfos(SystemRoot) => \A e \in Table : InInfos(e)
<1>1. /\ \A e \in PreparedTable : /\ e = Entry(e.dev, e.at) /\ e.at # "" /\ (e.dev = System <=> e = SystemRoot)
                                  /\ e.at = "/" <=> e = SystemRoot
      /\ SystemRoot \in PreparedTable /\ SystemRoot.dev = System /\ SystemRoot.at = "/"
      /\ System # ""
  <2>1. "" \notin Paths /\ "" \notin Volumes
    BY PathsAssumption DEF Volumes
  <2> QED BY <2>1, TableFacts DEF SystemRoot, Entry
<1>2. \A d, p : Entry(d, p).dev = d /\ Entry(d, p).at = p
  BY DEF Entry
<1> DEFINE W == WithRootMount(infos, root)
<1> USE DEF InfosShape
<1>3. CASE W = infos
  <2>1. Table = {Entry(d, infos[d]) : d \in {e \in DOMAIN infos : infos[e] # ""}}
    BY <1>3 DEF Table, MountEntries
  <2>2. Table \subseteq PreparedTable
    BY <2>1
  <2>3. \A e \in PreparedTable : InInfos(e) => e \in Table
    BY <1>1, <2>1 DEF InInfos
  <2>4. Table # {} => SystemRoot \in Table
    BY <1>1, <2>1, <2>3
  <2>5. ASSUME NEW e \in Table
        PROVE  InInfos(e)
    <3>1. PICK d \in DOMAIN infos : e = Entry(d, infos[d])
      BY <2>1
    <3>2. e.dev = d /\ e.at = infos[d]
      BY <1>2, <3>1
    <3> QED BY <3>2 DEF InInfos
  <2> QED BY <2>2, <2>3, <2>4, <2>5
<1>4. CASE W # infos
  <2>1. root = System /\ ~InInfos(SystemRoot)
    BY <1>1, <1>4 DEF WithRootMount, InInfos
  <2>2. \A d \in DOMAIN infos : infos[d] = ""
    BY <2>1
  <2>3. /\ DOMAIN W = DOMAIN infos \cup {System}
        /\ \A d \in DOMAIN W : W[d] = IF d = System THEN "/" ELSE ""
    <3>1. W = [d \in DOMAIN infos \cup {System} |->
                 IF d = System THEN "/" ELSE [e \in DOMAIN infos |-> IF infos[e] = "/" THEN "" ELSE infos[e]][d]]
      BY <1>4, <2>1 DEF WithRootMount, UpdateMountPoint
    <3> QED BY <2>2, <3>1
  <2>4. Table = {SystemRoot}
    <3>1. Table = {Entry(d, W[d]) : d \in {e \in DOMAIN W : W[e] # ""}}
      BY DEF Table, MountEntries
    <3>2. {e \in DOMAIN W : W[e] # ""} = {System}
      BY <2>3
    <3>3. Entry(System, W[System]) = SystemRoot
      BY <2>3 DEF SystemRoot
    <3> HIDE DEF W
    <3> QED BY <3>1, <3>2, <3>3
  <2>5. \A e \in PreparedTable : ~InInfos(e)
    BY <1>1, <2>2 DEF InInfos
  <2> QED BY <1>1, <2>1, <2>4, <2>5
<1> QED BY <1>3, <1>4

\* Setup touches no mount.
LEMMA SetupDisksInv ==
  ASSUME MountInv, SetupDisks
  PROVE  MountInv'
<1> USE DEF Preparing, Releasing, Unmounting, Working
<1>1. Guest /\ UNCHANGED guest
  BY DEF MountInv, Shape, SetupDisks, Activated, Assembled, Fault, Volumes
<1>2. /\ pc = "setup" /\ pc' = "unlock" /\ stage' = stage /\ ok' = ok /\ todo' = todo
      /\ loop' \in {"attached", loop} /\ open \subseteq open' /\ open' \subseteq open \cup Volumes
      /\ (kind = "direct" => open' \subseteq open \cup {"lv"})
      /\ failed' \in {failed, failed \cup {"vgchange"}}
      /\ be' = [[be EXCEPT !.disk = (kind = "direct")] EXCEPT !.ldm = ("ldm" \in open')]
  BY DEF SetupDisks, Activated, Assembled, Fault, Volumes, guest, kernel, record
<1>3. mnt' = mnt /\ GuestMounted' = GuestMounted
  BY DEF SetupDisks, Activated, Assembled, Fault, Volumes, kernel, GuestMounted
<1>4. infos' = infos /\ root' = root /\ json' = json /\ Table' = Table
  BY DEF SetupDisks, Activated, Assembled, Fault, Volumes, record, Table
<1>5. be' \in Backends /\ be'.mounts = be.mounts /\ be'.probes = be.probes
  <2>1. be \in Backends
    BY DEF MountInv, Shape
  <2>2. PICK v \in BOOLEAN : v = (kind = "direct")
    OBVIOUS
  <2>3. PICK w \in BOOLEAN : w = ("ldm" \in open')
    <3>1. ("ldm" \in open') \in BOOLEAN
      OBVIOUS
    <3> QED BY <3>1, Zenon
  <2>4. be' = [[be EXCEPT !.disk = v] EXCEPT !.ldm = w]
    BY <1>2, <2>2, <2>3, Zenon
  <2> QED BY <2>1, <2>2, <2>3, <2>4 DEF Backends
<1>6. Shape'
  BY <1>1, <1>2, <1>3, <1>4, <1>5, ShapeStep DEF MountInv, Shape, InfosShape, Commands
<1>7. Places'
  BY <1>2 DEF MountInv, Places
<1>8. Early'
  BY <1>2, <1>3, <1>4, <1>5 DEF MountInv, Early
<1>9. Infos'
  BY <1>1, <1>2, <1>3, <1>4, Fixed DEF MountInv, Infos, InInfos
<1>10. Kernel'
  BY <1>1, <1>2, <1>3, Fixed DEF MountInv, Kernel, Exists
<1>11. Pending'
  BY <1>2 DEF MountInv, Pending
<1>12. Handover'
  BY <1>2, <1>4 DEF MountInv, Handover
<1>13. Records'
  BY <1>1, <1>2, Fixed DEF MountInv, Records
<1>14. Unmounted'
  BY <1>2 DEF MountInv, Unmounted
<1>15. Clean'
  BY <1>2 DEF MountInv, Places, Clean
<1> QED BY <1>6, <1>7, <1>8, <1>9, <1>10, <1>11, <1>12, <1>13, <1>14, <1>15 DEF MountInv

\* A Setup that fails leads to the teardown with nothing mounted.
LEMMA SetupFailsInv ==
  ASSUME MountInv, SetupFails
  PROVE  MountInv'
<1> USE DEF Preparing, Releasing, Unmounting, Working
<1>1. Guest /\ UNCHANGED guest
  BY DEF MountInv, Shape, SetupFails, Activated, Fault
<1>2. /\ pc = "setup" /\ pc' = "teardown" /\ stage' = stage /\ ok' = FALSE /\ todo' = todo
      /\ loop' \in {"attached", loop} /\ open \subseteq open' /\ open' \subseteq open \cup {"lv"}
      /\ failed' \in {failed, failed \cup {"losetup"}}
      /\ be' \in {be, [be EXCEPT !.disk = (kind = "direct")]}
  BY DEF SetupFails, Activated, Fault, guest, kernel, record
<1>3. mnt' = mnt /\ GuestMounted' = GuestMounted
  BY DEF SetupFails, Activated, Fault, kernel, GuestMounted
<1>4. infos' = infos /\ root' = root /\ json' = json /\ Table' = Table
  BY DEF SetupFails, Activated, Fault, record, Table
<1>5. be' \in Backends /\ be'.mounts = be.mounts /\ be'.probes = be.probes
  <2>1. be \in Backends
    BY DEF MountInv, Shape
  <2>2. PICK v \in BOOLEAN : v = (kind = "direct")
    OBVIOUS
  <2>3. be' = be \/ be' = [be EXCEPT !.disk = v]
    BY <1>2, <2>2, Zenon
  <2> QED BY <2>1, <2>2, <2>3 DEF Backends
<1>6. ParentsFirst(be'.mounts)
  <2>1. be'.mounts = <<>>
    BY <1>2, <1>5 DEF MountInv, Places, Early
  <2> QED BY <2>1 DEF ParentsFirst
<1>7. Shape'
  BY <1>1, <1>2, <1>3, <1>4, <1>5, ShapeStep DEF MountInv, Shape, InfosShape, Commands, Volumes
<1>8. Places'
  BY <1>2 DEF MountInv, Places
<1>9. Early'
  BY <1>2, <1>3, <1>4, <1>5 DEF MountInv, Early
<1>10. Infos'
  BY <1>1, <1>2, <1>3, <1>4, Fixed DEF MountInv, Infos, InInfos
<1>11. Kernel'
  BY <1>1, <1>2, <1>3, Fixed DEF MountInv, Kernel, Exists
<1>12. Pending'
  BY <1>2 DEF MountInv, Pending
<1>13. Handover'
  BY <1>2 DEF MountInv, Places, Handover, Exists
<1>14. Records'
  BY <1>2, <1>3, <1>6 DEF MountInv, Places, Records, Early
<1>15. Unmounted'
  BY <1>2 DEF MountInv, Unmounted
<1>16. Clean'
  BY <1>2 DEF MountInv, Places, Clean
<1> QED BY <1>7, <1>8, <1>9, <1>10, <1>11, <1>12, <1>13, <1>14, <1>15, <1>16 DEF MountInv

\* Nothing to unlock
LEMMA NoKeysInv ==
  ASSUME MountInv, NoKeys
  PROVE  MountInv'
<1> USE DEF Preparing, Releasing, Unmounting, Working
<1>1. Guest /\ UNCHANGED guest
  BY DEF MountInv, Shape, NoKeys
<1>2. /\ pc = "unlock" /\ pc' = "precheck" /\ stage' = stage /\ ok' = ok /\ todo' = todo
      /\ loop' = loop /\ open' = open /\ failed' = failed /\ be' = be
  BY DEF NoKeys, guest, kernel, record
<1>3. mnt' = mnt /\ GuestMounted' = GuestMounted
  BY DEF NoKeys, kernel, GuestMounted
<1>4. infos' = infos /\ root' = root /\ json' = json /\ Table' = Table
  BY DEF NoKeys, record, Table
<1>5. Shape'
  BY <1>1, <1>2, <1>3, <1>4, ShapeStep DEF MountInv, Shape, InfosShape
<1>6. Places'
  BY <1>2 DEF MountInv, Places
<1>7. Early'
  BY <1>2, <1>3, <1>4 DEF MountInv, Early
<1>8. Infos'
  BY <1>1, <1>2, <1>3, <1>4, Fixed DEF MountInv, Infos, InInfos
<1>9. Kernel'
  BY <1>1, <1>2, <1>3, Fixed DEF MountInv, Kernel
<1>10. Pending'
  BY <1>2 DEF MountInv, Pending
<1>11. Handover'
  BY <1>2, <1>4 DEF MountInv, Handover
<1>12. Records'
  BY <1>1, <1>2, Fixed DEF MountInv, Records
<1>13. Unmounted'
  BY <1>2 DEF MountInv, Unmounted
<1>14. Clean'
  BY <1>1, <1>2, <1>4, Fixed DEF MountInv, Clean
<1> QED BY <1>5, <1>6, <1>7, <1>8, <1>9, <1>10, <1>11, <1>12, <1>13, <1>14 DEF MountInv

\* Activating volumes adds devices only.
LEMMA RescanBlockInv ==
  ASSUME MountInv, RescanBlock
  PROVE  MountInv'
<1> USE DEF Preparing, Releasing, Unmounting, Working
<1>1. Guest /\ UNCHANGED guest
  BY DEF MountInv, Shape, RescanBlock, Activated, Fault
<1>2. /\ pc = "rescan" /\ pc' = "precheck" /\ stage' = stage /\ ok' = ok /\ todo' = todo
      /\ loop' = loop /\ open \subseteq open' /\ open' \subseteq open \cup {"lv"}
      /\ failed' \in {failed, failed \cup {"vgchange"}} /\ be' = be
  BY DEF RescanBlock, Activated, Fault, guest, kernel, record
<1>3. mnt' = mnt /\ GuestMounted' = GuestMounted
  BY DEF RescanBlock, Activated, Fault, kernel, GuestMounted
<1>4. infos' = infos /\ root' = root /\ json' = json /\ Table' = Table
  BY DEF RescanBlock, Activated, Fault, record, Table
<1>5. Shape'
  BY <1>1, <1>2, <1>3, <1>4, ShapeStep DEF MountInv, Shape, InfosShape, Commands, Volumes
<1>6. Places'
  BY <1>2 DEF MountInv, Places
<1>7. Early'
  BY <1>2, <1>3, <1>4 DEF MountInv, Early
<1>8. Infos'
  BY <1>1, <1>2, <1>3, <1>4, Fixed DEF MountInv, Infos, InInfos
<1>9. Kernel'
  BY <1>1, <1>2, <1>3, Fixed DEF MountInv, Kernel, Exists
<1>10. Pending'
  BY <1>2 DEF MountInv, Pending
<1>11. Handover'
  BY <1>2, <1>4 DEF MountInv, Handover
<1>12. Records'
  BY <1>1, <1>2, Fixed DEF MountInv, Records
<1>13. Unmounted'
  BY <1>2 DEF MountInv, Unmounted
<1>14. Clean'
  BY <1>1, <1>2, <1>4, Fixed DEF MountInv, Clean
<1> QED BY <1>5, <1>6, <1>7, <1>8, <1>9, <1>10, <1>11, <1>12, <1>13, <1>14 DEF MountInv

\* A converter leaves everything as it found it.
LEMMA ConvertedInv ==
  ASSUME MountInv, Converted
  PROVE  MountInv'
<1> USE DEF Preparing, Releasing, Unmounting, Working
<1>1. Guest /\ UNCHANGED guest
  BY DEF MountInv, Shape, Converted
<1>2. /\ pc = "work" /\ stage = "convert" /\ pc' = "exit" /\ stage' = stage /\ ok' \in BOOLEAN
      /\ todo' = todo
      /\ loop' = loop /\ open' = open /\ failed' = failed /\ be' = be
  BY DEF Converted, guest, kernel, record
<1>3. mnt' = mnt /\ GuestMounted' = GuestMounted
  BY DEF Converted, kernel, GuestMounted
<1>4. infos' = infos /\ root' = root /\ json' = json /\ Table' = Table
  BY DEF Converted, record, Table
<1>5. Shape'
  BY <1>1, <1>2, <1>3, <1>4, ShapeStep DEF MountInv, Shape, InfosShape
<1>6. Places'
  BY <1>2 DEF MountInv, Places
<1>7. Early'
  BY <1>2 DEF MountInv, Early
<1>8. Infos'
  BY <1>1, <1>2, <1>3, <1>4, Fixed DEF MountInv, Infos, InInfos
<1>9. Kernel'
  BY <1>1, <1>2, <1>3, Fixed DEF MountInv, Kernel
<1>10. Pending'
  BY <1>2 DEF MountInv, Pending
<1>11. Handover'
  BY <1>1, <1>2, <1>3, <1>4, Fixed DEF MountInv, Handover, Handed, InInfos
<1>12. Records'
  BY <1>1, <1>2, Fixed DEF MountInv, Records
<1>13. Unmounted'
  BY <1>2 DEF MountInv, Unmounted
<1>14. Clean'
  BY <1>2 DEF MountInv, Clean
<1> QED BY <1>5, <1>6, <1>7, <1>8, <1>9, <1>10, <1>11, <1>12, <1>13, <1>14 DEF MountInv

\* All of the table is mounted when the loop of remounts has come to its end.
LEMMA RemountedInv ==
  ASSUME MountInv, Remounted
  PROVE  MountInv'
<1> USE DEF Preparing, Releasing, Unmounting, Working
<1>1. Guest /\ UNCHANGED guest
  BY DEF MountInv, Shape, Remounted, Ready
<1>2. /\ pc = "remount" /\ todo = <<>> /\ pc' = (IF stage = "cleanup" THEN "teardown" ELSE "work")
      /\ stage' = stage /\ ok' = ok /\ todo' = todo
      /\ loop' = loop /\ open' = open /\ failed' = failed /\ be' = be
  BY DEF Remounted, Ready, guest, kernel, record
<1>3. mnt' = mnt /\ GuestMounted' = GuestMounted
  BY DEF Remounted, Ready, kernel, GuestMounted
<1>4. infos' = infos /\ root' = root /\ json' = json /\ Table' = Table
  BY DEF Remounted, Ready, record, Table
<1>5. GuestMounted = Table
  <2>1. /\ mnt \in Seq(PreparedTable) /\ Range(mnt) \cup Range(todo) = Table /\ Range(todo) = {}
        /\ mnt \in Seq(Entries)
    BY <1>2, SeqRange DEF MountInv, Pending, Shape
  <2>2. Range(mnt) \subseteq PreparedTable
    BY <2>1, SeqRange
  <2> QED BY <1>1, <2>1, <2>2, MountedFacts DEF GuestMounted
<1>6. Shape'
  BY <1>1, <1>2, <1>3, <1>4, ShapeStep DEF MountInv, Shape, InfosShape
<1>7. Places'
  BY <1>2 DEF MountInv, Places
<1>8. Early'
  BY <1>2, <1>3, <1>4 DEF MountInv, Early
<1>9. Infos'
  BY <1>1, <1>2, <1>3, <1>4, Fixed DEF MountInv, Infos, InInfos
<1>10. Kernel'
  BY <1>1, <1>2, <1>3, Fixed DEF MountInv, Kernel
<1>11. Pending'
  BY <1>2 DEF MountInv, Pending
<1>12. Handover'
  BY <1>1, <1>2, <1>3, <1>4, <1>5, Fixed DEF MountInv, Handover, Handed, InInfos, Exists
<1>13. Records'
  BY <1>1, <1>2, <1>3, Fixed DEF MountInv, Records, Pending
<1>14. Unmounted'
  BY <1>2 DEF MountInv, Unmounted
<1>15. Clean'
  BY <1>1, <1>2, <1>4, Fixed DEF MountInv, Clean
<1> QED BY <1>6, <1>7, <1>8, <1>9, <1>10, <1>11, <1>12, <1>13, <1>14, <1>15 DEF MountInv

\* A stage that does not come up has not touched the guest.
LEMMA AttachFailsInv ==
  ASSUME MountInv, AttachFails
  PROVE  MountInv'
<1> USE DEF Preparing, Releasing, Unmounting, Working
<1>1. Guest /\ UNCHANGED guest
  BY DEF MountInv, Shape, AttachFails, Fault
<1>2. /\ pc = "attach" /\ kind = "qemu" /\ pc' = "exit" /\ stage' = stage /\ ok' = FALSE
      /\ todo' = todo
      /\ loop' = loop /\ open' = open /\ failed' = failed \cup {"attach"} /\ be' = be
  BY DEF AttachFails, Fault, guest, kernel, record
<1>3. mnt' = mnt /\ GuestMounted' = GuestMounted
  BY DEF AttachFails, Fault, kernel, GuestMounted
<1>4. infos' = infos /\ root' = root /\ json' = json /\ Table' = Table
  BY DEF AttachFails, Fault, record, Table
<1>5. Shape'
  BY <1>1, <1>2, <1>3, <1>4, ShapeStep DEF MountInv, Shape, InfosShape, Commands
<1>6. Places'
  BY <1>2 DEF MountInv, Places
<1>7. Early'
  BY <1>2 DEF MountInv, Early
<1>8. Infos'
  BY <1>1, <1>2, <1>3, <1>4, Fixed DEF MountInv, Infos, InInfos
<1>9. Kernel'
  BY <1>1, <1>2, <1>3, Fixed DEF MountInv, Kernel
<1>10. Pending'
  BY <1>2 DEF MountInv, Pending
<1>11. Handover'
  BY <1>2, <1>4 DEF MountInv, Handover
<1>12. Records'
  BY <1>2 DEF MountInv, Records
<1>13. Unmounted'
  BY <1>2 DEF MountInv, Unmounted
<1>14. Clean'
  BY <1>1, <1>2, Fixed DEF MountInv, Clean
<1> QED BY <1>5, <1>6, <1>7, <1>8, <1>9, <1>10, <1>11, <1>12, <1>13, <1>14 DEF MountInv

\* Unlocking adds a device only.
LEMMA UnlockInv ==
  ASSUME MountInv, NEW layouts, UnlockWith(layouts)
  PROVE  MountInv'
<1> USE DEF Preparing, Releasing, Unmounting, Working
<1>1. Guest /\ UNCHANGED guest
  BY DEF MountInv, Shape, UnlockWith, Fault
<1>2. /\ pc = "unlock" /\ pc' \in {"rescan", "precheck"} /\ stage' = stage /\ ok' = ok
      /\ todo' = todo
      /\ loop' = loop /\ open \subseteq open' /\ open' \subseteq open \cup {"mapper"}
      /\ failed' \in {failed, failed \cup {"luksOpen"}} /\ be' \in {be, [be EXCEPT !.maps = TRUE]}
  BY DEF UnlockWith, Fault, guest, kernel, record
<1>3. mnt' = mnt /\ GuestMounted' = GuestMounted
  BY DEF UnlockWith, Fault, kernel, GuestMounted
<1>4. infos' = infos /\ root' = root /\ json' = json /\ Table' = Table
  BY DEF UnlockWith, Fault, record, Table
<1>5. be' \in Backends /\ be'.mounts = be.mounts /\ be'.probes = be.probes
  <2>1. be \in Backends
    BY DEF MountInv, Shape
  <2> QED BY <1>2, <2>1 DEF Backends
<1>6. Shape'
  BY <1>1, <1>2, <1>3, <1>4, <1>5, ShapeStep DEF MountInv, Shape, InfosShape, Commands, Volumes
<1>7. Places'
  BY <1>2 DEF MountInv, Places
<1>8. Early'
  BY <1>2, <1>3, <1>4, <1>5 DEF MountInv, Early
<1>9. Infos'
  BY <1>1, <1>2, <1>3, <1>4, Fixed DEF MountInv, Infos, InInfos
<1>10. Kernel'
  BY <1>1, <1>2, <1>3, Fixed DEF MountInv, Kernel, Exists
<1>11. Pending'
  BY <1>2 DEF MountInv, Pending
<1>12. Handover'
  BY <1>2, <1>4 DEF MountInv, Handover
<1>13. Records'
  BY <1>2 DEF MountInv, Places, Records
<1>14. Unmounted'
  BY <1>2 DEF MountInv, Unmounted
<1>15. Clean'
  BY <1>2 DEF MountInv, Places, Clean
<1> QED BY <1>6, <1>7, <1>8, <1>9, <1>10, <1>11, <1>12, <1>13, <1>14, <1>15 DEF MountInv

\* Checking changes nothing; the system's device is there.
LEMMA PostCheckInv ==
  ASSUME MountInv, FSCheck, pc = "postcheck"
  PROVE  MountInv'
<1> USE DEF Preparing, Releasing, Unmounting, Working
<1>1. Guest /\ UNCHANGED guest
  BY DEF MountInv, Shape, FSCheck
<1>2. /\ pc = "postcheck" /\ pc' = "close" /\ stage' = stage /\ ok' = ok /\ todo' = todo
      /\ loop' = loop /\ open' = open /\ failed' = failed /\ be' = be
  BY DEF FSCheck, guest, kernel, record
<1>3. mnt' = mnt /\ GuestMounted' = GuestMounted
  BY DEF FSCheck, kernel, GuestMounted
<1>4. infos' = infos /\ root' = root /\ json' = json /\ Table' = Table
  BY DEF FSCheck, record, Table
<1>5. Shape'
  BY <1>1, <1>2, <1>3, <1>4, ShapeStep DEF MountInv, Shape, InfosShape
<1>6. Places'
  BY <1>2 DEF MountInv, Places
<1>7. Early'
  BY <1>2, <1>3, <1>4 DEF MountInv, Early
<1>8. Infos'
  BY <1>1, <1>2, <1>3, <1>4, Fixed DEF MountInv, Infos, InInfos
<1>9. Kernel'
  BY <1>1, <1>2, <1>3, Fixed DEF MountInv, Kernel
<1>10. Pending'
  BY <1>2 DEF MountInv, Pending
<1>11. Handover'
  BY <1>2, <1>4 DEF MountInv, Handover
<1>12. Records'
  BY <1>1, <1>2, <1>3, Fixed DEF MountInv, Records
<1>13. Unmounted'
  BY <1>1, <1>2, <1>3, Fixed DEF MountInv, Unmounted
<1>14. Clean'
  BY <1>1, <1>2, <1>4, Fixed DEF MountInv, Clean
<1> QED BY <1>5, <1>6, <1>7, <1>8, <1>9, <1>10, <1>11, <1>12, <1>13, <1>14 DEF MountInv

\* Discovery begins with a list of probes.
LEMMA PreCheckInv ==
  ASSUME MountInv, FSCheck, pc = "precheck"
  PROVE  MountInv'
<1> USE DEF Preparing, Releasing, Unmounting, Working
<1>1. Guest /\ UNCHANGED guest
  BY DEF MountInv, Shape, FSCheck
<1>2. /\ pc = "precheck" /\ pc' = "discover" /\ stage' = stage /\ ok' = ok
      /\ todo' = SetToSeq({Entry(d, Probe) : d \in {e \in DataPartitions \cup {System} : Exists(e, open)}})
      /\ loop' = loop /\ open' = open /\ failed' = failed /\ be' = be
  BY DEF FSCheck, guest, kernel, record
<1>3. mnt' = mnt /\ GuestMounted' = GuestMounted
  BY DEF FSCheck, kernel, GuestMounted
<1>4. infos' = infos /\ root' = root /\ json' = json /\ Table' = Table
  BY DEF FSCheck, record, Table
<1>5. todo' \in Seq(Probes)
  <2> DEFINE X == {Entry(d, Probe) : d \in {e \in DataPartitions \cup {System} : Exists(e, open)}}
  <2>1. X \subseteq Probes
    BY <1>1, TableFacts DEF Probes, Partitions
  <2> HIDE DEF X
  <2> QED BY <1>2, <2>1, ProbesInSeq DEF X
<1>6. todo' \in Seq(Entries)
  BY <1>5, ProbesAreEntries
<1>7. Shape'
  BY <1>1, <1>2, <1>3, <1>4, <1>6, ShapeStep DEF MountInv, Shape, InfosShape
<1>8. Places'
  BY <1>2 DEF MountInv, Places
<1>9. Early'
  BY <1>2, <1>3, <1>4 DEF MountInv, Early
<1>10. Infos'
  BY <1>1, <1>2, <1>3, <1>4, Fixed DEF MountInv, Infos, InInfos
<1>11. Kernel'
  BY <1>1, <1>2, <1>3, <1>5, Fixed DEF MountInv, Kernel
<1>12. Pending'
  BY <1>2 DEF MountInv, Pending
<1>13. Handover'
  BY <1>2, <1>4 DEF MountInv, Handover
<1>14. Records'
  BY <1>1, <1>2, Fixed DEF MountInv, Records
<1>15. Unmounted'
  BY <1>2 DEF MountInv, Unmounted
<1>16. Clean'
  BY <1>1, <1>2, <1>4, Fixed DEF MountInv, Clean
<1> QED BY <1>7, <1>8, <1>9, <1>10, <1>11, <1>12, <1>13, <1>14, <1>15, <1>16 DEF MountInv

\* A probe is no mount of the guest.
LEMMA ProbeMountInv ==
  ASSUME MountInv, ProbeMount
  PROVE  MountInv'
<1> USE DEF Preparing, Releasing, Unmounting, Working
<1>1. Guest /\ UNCHANGED guest
  BY DEF MountInv, Shape, ProbeMount, Fault
<1>2. /\ pc = "discover" /\ todo # <<>> /\ stage' = stage /\ ok' = ok /\ loop' = loop
      /\ open' = open
      /\ be' \in {be, [be EXCEPT !.probes = Append(be.probes, Head(todo))]}
      /\ \/ /\ mnt' = Append(mnt, Head(todo)) /\ pc' = "probed" /\ todo' = todo /\ failed' = failed
         \/ /\ mnt' = mnt /\ pc' = "discover" /\ todo' = Tail(todo) /\ failed' = failed \cup {"mount"}
  BY DEF ProbeMount, Fault, guest, kernel, record
<1>3. infos' = infos /\ root' = root /\ json' = json /\ Table' = Table
  BY DEF ProbeMount, Fault, record, Table
<1>4. /\ Head(todo) \in Probes /\ Head(todo) \in Entries /\ Head(todo).at = Probe
      /\ Head(todo).at \notin Paths /\ Head(todo) # Virtual
      /\ todo' \in Seq(Probes) /\ todo' \in Seq(Entries)
  <2>1. todo \in Seq(Probes)
    BY <1>2 DEF MountInv, Kernel
  <2>2. Head(todo) \in Probes /\ Tail(todo) \in Seq(Probes)
    BY <1>2, <2>1, SeqRange
  <2>3. /\ Head(todo).at = Probe /\ Head(todo).at \notin Paths /\ Head(todo) # Virtual
        /\ Head(todo) \in Entries
    BY <1>1, <2>2, MountedFacts DEF Entries
  <2> QED BY <1>2, <2>1, <2>2, <2>3, ProbesAreEntries
<1>5. be' \in Backends /\ be'.mounts = be.mounts
  <2> DEFINE s == Append(be.probes, Head(todo))
  <2>1. be \in Backends
    BY DEF MountInv, Shape
  <2>2. s \in Seq(Probes)
    BY <1>4, <2>1, BackendFacts, SeqRange
  <2>3. be' = be \/ be' = [be EXCEPT !.probes = s]
    BY <1>2
  <2> HIDE DEF s
  <2> QED BY <2>1, <2>2, <2>3 DEF Backends
<1>6. /\ mnt' \in Seq(Entries) /\ GuestMounted' = GuestMounted
      /\ (pc' = "discover" /\ Range(mnt') = Range(mnt)) \/ (pc' = "probed" /\ Range(mnt') = Range(mnt) \cup {Head(todo)})
  <2>1. mnt \in Seq(Entries)
    BY DEF MountInv, Shape
  <2>2. /\ Append(mnt, Head(todo)) \in Seq(Entries)
        /\ Range(Append(mnt, Head(todo))) = Range(mnt) \cup {Head(todo)}
    BY <1>4, <2>1, SeqRange
  <2>3. /\ mnt' \in Seq(Entries)
        /\ (pc' = "discover" /\ Range(mnt') = Range(mnt)) \/ (pc' = "probed" /\ Range(mnt') = Range(mnt) \cup {Head(todo)})
    BY <1>2, <2>1, <2>2
  <2> QED BY <1>4, <2>3 DEF GuestMounted
<1>7. Single(mnt', Paths) /\ ("umount" \notin failed' => Single(mnt', Everywhere))
  <2>1. /\ mnt \in Seq(Entries) /\ Single(mnt, Paths)
        /\ "umount" \notin failed => Single(mnt, Everywhere) /\ \A f \in Range(mnt) : f.at # Probe
    BY <1>2 DEF MountInv, Shape, Kernel
  <2>2. Single(Append(mnt, Head(todo)), Paths)
    BY <1>4, <2>1, PutOn
  <2>3. "umount" \notin failed => Single(Append(mnt, Head(todo)), Everywhere)
    BY <1>4, <2>1, PutOn
  <2> QED BY <1>2, <2>1, <2>2, <2>3
<1>8. Shape'
  BY <1>1, <1>2, <1>3, <1>4, <1>5, <1>6, ShapeStep DEF MountInv, Shape, InfosShape, Commands
<1>9. Places'
  BY <1>2 DEF MountInv, Places
<1>10. Early'
  BY <1>2, <1>3, <1>5, <1>6 DEF MountInv, Early
<1>11. Infos'
  BY <1>1, <1>2, <1>3, <1>6, Fixed DEF MountInv, Infos, InInfos
<1>12. Kernel'
  BY <1>1, <1>2, <1>4, <1>6, <1>7, Fixed DEF MountInv, Kernel, Exists
<1>13. Pending'
  BY <1>2 DEF MountInv, Pending
<1>14. Handover'
  BY <1>2, <1>3 DEF MountInv, Handover
<1>15. Records'
  BY <1>2 DEF MountInv, Places, Records
<1>16. Unmounted'
  BY <1>2 DEF MountInv, Unmounted
<1>17. Clean'
  BY <1>2 DEF MountInv, Places, Clean
<1> QED BY <1>8, <1>9, <1>10, <1>11, <1>12, <1>13, <1>14, <1>15, <1>16, <1>17 DEF MountInv

\* A probe's umount takes off that probe, or it fails and says so.
LEMMA ProbeUnmountInv ==
  ASSUME MountInv, ProbeUnmount
  PROVE  MountInv'
<1> USE DEF Preparing, Releasing, Unmounting, Working
<1>1. Guest /\ UNCHANGED guest
  BY DEF MountInv, Shape, ProbeUnmount, Fault
<1>2. /\ pc = "probed" /\ pc' = "discover" /\ stage' = stage /\ ok' = ok /\ loop' = loop
      /\ open' = open /\ be' = be
      /\ infos' = infos /\ json' = json /\ root' \in {root, System} /\ todo' = Tail(todo)
      /\ \/ mnt' = RemoveAt(mnt, Max(At(Head(todo)))) /\ failed' = failed
         \/ mnt' = mnt /\ failed' = failed \cup {"umount"}
  BY DEF ProbeUnmount, Fault, guest, kernel, record
<1>3. /\ todo # <<>> /\ Head(todo) \in Probes /\ Head(todo).at = Probe /\ Head(todo).at \notin Paths
      /\ todo' \in Seq(Probes) /\ todo' \in Seq(Entries) /\ At(Head(todo)) # {}
  <2>1. todo \in Seq(Probes) /\ todo # <<>> /\ Head(todo) \in Range(mnt)
    BY <1>2 DEF MountInv, Kernel
  <2>2. Head(todo) \in Probes /\ Tail(todo) \in Seq(Probes)
    BY <2>1, SeqRange
  <2>3. Head(todo).at = Probe /\ Head(todo).at \notin Paths
    BY <1>1, <2>2, MountedFacts
  <2>4. At(Head(todo)) # {}
    BY <2>1 DEF At, Range
  <2> QED BY <1>2, <2>1, <2>2, <2>3, <2>4, ProbesAreEntries
<1>4. /\ mnt' \in Seq(Entries) /\ Range(mnt') \subseteq Range(mnt)
      /\ Single(mnt', Paths) /\ ("umount" \notin failed' => Single(mnt', Everywhere))
      /\ "umount" \notin failed' => \A e \in Range(mnt') : e.at # Probe
  <2>1. /\ mnt \in Seq(Entries) /\ Single(mnt, Paths)
        /\ ("umount" \notin failed => Single(mnt, Everywhere))
    BY DEF MountInv, Shape, Kernel
  <2>2. CASE mnt' = mnt /\ failed' = failed \cup {"umount"}
    BY <2>1, <2>2
  <2>3. CASE mnt' = RemoveAt(mnt, Max(At(Head(todo)))) /\ failed' = failed
    BY <1>1, <1>3, <2>1, <2>3, UmountFacts
  <2> QED BY <1>2, <2>2, <2>3
<1>5. GuestMounted' \subseteq GuestMounted
  BY <1>4 DEF GuestMounted
<1>6. Shape'
  BY <1>1, <1>2, <1>3, <1>4, ShapeStep DEF MountInv, Shape, InfosShape, Commands
<1>7. Places'
  BY <1>2 DEF MountInv, Places
<1>8. Early'
  BY <1>2, <1>5 DEF MountInv, Early
<1>9. Infos'
  BY <1>2, <1>5 DEF MountInv, Infos, Early, Places
<1>10. Kernel'
  BY <1>1, <1>2, <1>4, <1>5, Fixed DEF MountInv, Kernel
<1>11. Pending'
  BY <1>2 DEF MountInv, Pending
<1>12. Handover'
  BY <1>2 DEF MountInv, Handover
<1>13. Records'
  BY <1>1, <1>2, Fixed DEF MountInv, Records
<1>14. Unmounted'
  BY <1>2 DEF MountInv, Unmounted
<1>15. Clean'
  BY <1>1, <1>2, Fixed DEF MountInv, Clean
<1> QED BY <1>6, <1>7, <1>8, <1>9, <1>10, <1>11, <1>12, <1>13, <1>14, <1>15 DEF MountInv

\* The selected root is the first to be mounted.
LEMMA SelectInv ==
  ASSUME MountInv, Select
  PROVE  MountInv'
<1> USE DEF Preparing, Releasing, Unmounting, Working
<1>1. Guest /\ UNCHANGED guest
  BY DEF MountInv, Shape, Select
<1>2. /\ pc = "discover" /\ todo = <<>> /\ stage' = stage /\ loop' = loop /\ open' = open
      /\ be' = be
      /\ infos' = infos /\ failed' = failed
      /\ \/ /\ root # "" /\ pc' = "mount" /\ todo' = <<Entry(root, "/")>>
            /\ json' = json /\ root' = root /\ ok' = ok
         \/ /\ pc' = "release" /\ ok' = FALSE /\ root' = "" /\ todo' = Reverse(be.probes) /\ json' \in BOOLEAN
  BY DEF Select, guest, kernel, record
<1>3. mnt' = mnt /\ GuestMounted' = GuestMounted
  BY DEF Select, kernel, GuestMounted
<1>4. Reverse(be.probes) \in Seq(Probes)
  BY BackendFacts, ReverseRange DEF MountInv, Shape
<1>5. ASSUME pc' = "mount"
      PROVE  /\ root = System /\ todo' = <<SystemRoot>> /\ todo' \in Seq(PreparedTable) /\ Single(todo', Paths)
             /\ \A e \in Range(mnt), f \in Range(todo') : e.at # f.at
  <2>1. root = System /\ todo' = <<SystemRoot>>
    BY <1>2, <1>5 DEF MountInv, Shape, SystemRoot
  <2>2. SystemRoot \in PreparedTable /\ SystemRoot.at \in Paths
    BY <1>1, TableFacts
  <2>3. DOMAIN <<SystemRoot>> = {1} /\ Range(<<SystemRoot>>) = {SystemRoot}
    BY DEF Range
  <2>4. GuestMounted = {} /\ mnt \in Seq(Entries)
    BY <1>2 DEF MountInv, Places, Early, Shape
  <2>5. \A e \in Range(mnt) : e.at \notin Paths
    <3>1. Range(mnt) \subseteq Entries
      BY <2>4, SeqRange
    <3> QED BY <1>1, <2>4, <3>1, MountedFacts DEF GuestMounted
  <2>6. Single(todo', Paths)
    BY <2>1, <2>3 DEF Single
  <2> QED BY <2>1, <2>2, <2>3, <2>5, <2>6
<1>6. todo' \in Seq(Entries)
  BY <1>2, <1>4, <1>5, ProbesAreEntries
<1>7. Shape'
  BY <1>1, <1>2, <1>3, <1>6, ShapeStep DEF MountInv, Shape, InfosShape
<1>8. Places'
  BY <1>2 DEF MountInv, Places
<1>9. Early'
  BY <1>2 DEF MountInv, Early
<1>10. Infos'
  <2>1. \A e : InInfos(e)' <=> InInfos(e)
    BY <1>2 DEF InInfos
  <2>2. json' => root' = "" \/ InInfos(SystemRoot)'
    BY <1>1, <1>2, Fixed DEF MountInv, Infos, InInfos
  <2> QED BY <1>1, <1>2, <1>3, <2>1, <2>2, Fixed DEF MountInv, Infos
<1>11. Kernel'
  BY <1>1, <1>2, <1>3, <1>4, Fixed DEF MountInv, Kernel
<1>12. Pending'
  BY <1>1, <1>2, <1>3, <1>5, Fixed DEF MountInv, Places, Pending, Early
<1>13. Handover'
  BY <1>2 DEF MountInv, Places, Handover
<1>14. Records'
  BY <1>2, <1>3 DEF MountInv, Places, Records, Early
<1>15. Unmounted'
  BY <1>2 DEF MountInv, Unmounted
<1>16. Clean'
  BY <1>2 DEF MountInv, Places, Clean
<1> QED BY <1>7, <1>8, <1>9, <1>10, <1>11, <1>12, <1>13, <1>14, <1>15, <1>16 DEF MountInv

\* A mount that fails ends prepare, which hands nothing over.
LEMMA MountFailsInPrepareInv ==
  ASSUME MountInv, MountFails, pc = "mount"
  PROVE  MountInv'
<1> USE DEF Preparing, Releasing, Unmounting, Working
<1>1. Guest /\ UNCHANGED guest
  BY DEF MountInv, Shape, MountFails, Fault
<1>2. /\ pc = "mount" /\ pc' = "release" /\ stage' = stage /\ ok' = FALSE
      /\ todo' = Reverse(be.probes)
      /\ loop' = loop /\ open' = open /\ be' = be /\ failed' \in {failed, failed \cup {"mount"}}
  BY DEF MountFails, Fault, guest, kernel, record
<1>3. mnt' = mnt /\ GuestMounted' = GuestMounted
  BY DEF MountFails, Fault, kernel, GuestMounted
<1>4. infos' = infos /\ root' = root /\ json' = json /\ Table' = Table
  BY DEF MountFails, Fault, record, Table
<1>5. todo' \in Seq(Probes) /\ todo' \in Seq(Entries)
  BY <1>2, BackendFacts, ReverseRange, ProbesAreEntries DEF MountInv, Shape
<1>6. Shape'
  BY <1>1, <1>2, <1>3, <1>4, <1>5, ShapeStep DEF MountInv, Shape, InfosShape, Commands
<1>7. Places'
  BY <1>2 DEF MountInv, Places
<1>8. Early'
  BY <1>2 DEF MountInv, Early
<1>9. Infos'
  BY <1>1, <1>2, <1>3, <1>4, Fixed DEF MountInv, Infos, InInfos
<1>10. Kernel'
  BY <1>1, <1>2, <1>3, <1>5, Fixed DEF MountInv, Kernel
<1>11. Pending'
  BY <1>2 DEF MountInv, Pending
<1>12. Handover'
  BY <1>2, <1>4 DEF MountInv, Handover
<1>13. Records'
  BY <1>1, <1>2, Fixed DEF MountInv, Records
<1>14. Unmounted'
  BY <1>2 DEF MountInv, Unmounted
<1>15. Clean'
  BY <1>1, <1>2, <1>4, Fixed DEF MountInv, Clean
<1> QED BY <1>6, <1>7, <1>8, <1>9, <1>10, <1>11, <1>12, <1>13, <1>14, <1>15 DEF MountInv

\* A mount that fails in a fresh appliance ends the stage; without a fault it is
\* the root that fails, so that nothing is mounted.
LEMMA MountFailsInApplianceInv ==
  ASSUME MountInv, MountFails, pc = "remount"
  PROVE  MountInv'
<1> USE DEF Preparing, Releasing, Unmounting, Working
<1>1. Guest /\ UNCHANGED guest
  BY DEF MountInv, Shape, MountFails, Fault
<1>2. /\ pc = "remount" /\ pc' = "exit" /\ stage' = stage /\ ok' = FALSE /\ todo' = <<>>
      /\ loop' = loop /\ open' = open /\ be' = be
      /\ \/ ~Exists(Head(todo).dev, open) /\ todo # <<>> /\ failed' = failed
         \/ failed' = failed \cup {"mount"}
  BY DEF MountFails, Fault, guest, kernel, record
<1>3. mnt' = mnt /\ GuestMounted' = GuestMounted
  BY DEF MountFails, Fault, kernel, GuestMounted
<1>4. infos' = infos /\ root' = root /\ json' = json /\ Table' = Table
  BY DEF MountFails, Fault, record, Table
<1>5. todo' \in Seq(Entries)
  BY <1>2, ProbesAreEntries
<1>6. failed' = failed /\ failed = {} => mnt' = <<>>
  <2>1. SUFFICES ASSUME failed' = failed, failed = {}, mnt # <<>>
                 PROVE  FALSE
    BY <1>3
  <2>2. ~Exists(Head(todo).dev, open) /\ todo # <<>>
    BY <1>2, <2>1
  <2>3. todo \in Seq(PreparedTable) /\ SystemRoot \in Range(mnt) /\ \A e \in Range(mnt), f \in Range(todo) : e.at # f.at
    BY <1>2, <2>1 DEF MountInv, Pending
  <2>4. Head(todo) \in PreparedTable /\ Head(todo) \in Range(todo)
    BY <2>2, <2>3, SeqRange
  <2>5. Head(todo) # SystemRoot
    BY <2>3, <2>4
  <2>6. Head(todo).dev \in DataPartitions
    BY <1>1, <2>4, <2>5, TableFacts
  <2> QED BY <2>2, <2>6 DEF Exists, Partitions
<1>7. Shape'
  BY <1>1, <1>2, <1>3, <1>4, <1>5, ShapeStep DEF MountInv, Shape, InfosShape, Commands
<1>8. Places'
  BY <1>2 DEF MountInv, Places
<1>9. Early'
  BY <1>2 DEF MountInv, Early
<1>10. Infos'
  BY <1>1, <1>2, <1>3, <1>4, Fixed DEF MountInv, Infos, InInfos
<1>11. Kernel'
  BY <1>1, <1>2, <1>3, Fixed DEF MountInv, Kernel
<1>12. Pending'
  BY <1>2 DEF MountInv, Pending
<1>13. Handover'
  BY <1>2, <1>4 DEF MountInv, Handover
<1>14. Records'
  BY <1>1, <1>2, Fixed DEF MountInv, Records
<1>15. Unmounted'
  BY <1>2 DEF MountInv, Unmounted
<1>16. Clean'
  BY <1>1, <1>2, <1>6, Fixed DEF MountInv, Places, Clean
<1> QED BY <1>7, <1>8, <1>9, <1>10, <1>11, <1>12, <1>13, <1>14, <1>15, <1>16 DEF MountInv

\* prepare ends with the whole table mounted and in the disk infos.
LEMMA PreparedInv ==
  ASSUME MountInv, Prepared
  PROVE  MountInv'
<1> USE DEF Preparing, Releasing, Unmounting, Working
<1>1. Guest /\ UNCHANGED guest
  BY DEF MountInv, Shape, Prepared
<1>2. /\ pc = "mount" /\ todo = <<>> /\ pc' = "release" /\ stage' = stage
      /\ todo' = Reverse(be.probes)
      /\ json' \in BOOLEAN /\ ok' = json' /\ infos' = infos /\ root' = root
      /\ loop' = loop /\ open' = open /\ be' = be /\ failed' = failed
  BY DEF Prepared, guest, kernel, record
<1>3. mnt' = mnt /\ GuestMounted' = GuestMounted
  BY DEF Prepared, kernel, GuestMounted
<1>4. todo' \in Seq(Probes) /\ todo' \in Seq(Entries)
  BY <1>2, BackendFacts, ReverseRange, ProbesAreEntries DEF MountInv, Shape
<1>5. root = System /\ GuestMounted = PreparedTable /\ SystemRoot \in PreparedTable
  <2>1. Range(todo) = {} /\ todo # <<SystemRoot>>
    BY <1>2 DEF Range
  <2> QED BY <1>1, <1>2, <2>1, TableFacts DEF MountInv, Pending
<1>6. InInfos(SystemRoot) /\ (~TwiceMounted => \A e \in PreparedTable : InInfos(e))
  BY <1>5 DEF MountInv, Infos
<1>7. Shape'
  BY <1>1, <1>2, <1>3, <1>4, ShapeStep DEF MountInv, Shape, InfosShape
<1>8. Places'
  BY <1>2 DEF MountInv, Places
<1>9. Early'
  BY <1>2 DEF MountInv, Early
<1>10. Infos'
  BY <1>1, <1>2, <1>3, <1>5, Fixed DEF MountInv, Infos, InInfos
<1>11. Kernel'
  BY <1>1, <1>2, <1>3, <1>4, Fixed DEF MountInv, Kernel
<1>12. Pending'
  BY <1>2 DEF MountInv, Pending
<1>13. Handover'
  BY <1>1, <1>2, <1>3, <1>5, <1>6, Fixed DEF MountInv, Places, Handover, Handed, InInfos, Exists
<1>14. Records'
  BY <1>1, <1>2, Fixed DEF MountInv, Records
<1>15. Unmounted'
  BY <1>2 DEF MountInv, Unmounted
<1>16. Clean'
  BY <1>2 DEF MountInv, Places, Clean
<1> QED BY <1>7, <1>8, <1>9, <1>10, <1>11, <1>12, <1>13, <1>14, <1>15, <1>16 DEF MountInv

\* The appliance of one stage goes with its mounts, a shared one keeps them.
LEMMA ReleaseInv ==
  ASSUME MountInv, Release
  PROVE  MountInv'
<1> USE DEF Preparing, Releasing, Unmounting, Working
<1>1. Guest /\ UNCHANGED guest
  BY DEF MountInv, Shape, Release
<1>2. /\ pc = "release" /\ kind = "qemu" /\ pc' = "exit" /\ stage' = stage /\ ok' = ok
      /\ todo' = todo
      /\ loop' = loop /\ be' = be /\ failed' = failed
      /\ \/ shared /\ mnt' = mnt /\ open' = open
         \/ ~shared /\ mnt' = <<>> /\ open' = {}
  BY DEF Release, guest, kernel, record
<1>3. infos' = infos /\ root' = root /\ json' = json /\ Table' = Table
  BY DEF Release, record, Table
<1>4. \/ shared /\ mnt' = mnt /\ GuestMounted' = GuestMounted
      \/ ~shared /\ mnt' = <<>> /\ GuestMounted' = {} /\ Range(mnt') = {}
  BY <1>2 DEF GuestMounted, Range
<1>5. /\ mnt' \in Seq(Entries) /\ Single(mnt', Paths)
      /\ ("umount" \notin failed => Single(mnt', Everywhere))
  <2>1. Single(<<>>, Paths) /\ Single(<<>>, Everywhere)
    BY DEF Single
  <2> QED BY <1>2, <2>1, ProbesAreEntries DEF MountInv, Shape, Kernel
<1>6. Shape'
  BY <1>1, <1>2, <1>3, <1>5, ShapeStep DEF MountInv, Shape, InfosShape
<1>7. Places'
  BY <1>2 DEF MountInv, Places
<1>8. Early'
  BY <1>2 DEF MountInv, Early
<1>9. Infos'
  BY <1>1, <1>2, <1>3, <1>4, Fixed DEF MountInv, Infos, InInfos
<1>10. Kernel'
  BY <1>1, <1>2, <1>4, <1>5, Fixed DEF MountInv, Kernel
<1>11. Pending'
  BY <1>2 DEF MountInv, Pending
<1>12. Handover'
  BY <1>1, <1>2, <1>3, <1>4, Fixed DEF MountInv, Handover, Handed, InInfos, Exists
<1>13. Records'
  BY <1>1, <1>2, Fixed DEF MountInv, Records
<1>14. Unmounted'
  BY <1>2 DEF MountInv, Unmounted
<1>15. Clean'
  BY <1>2 DEF MountInv, Places, Clean
<1> QED BY <1>6, <1>7, <1>8, <1>9, <1>10, <1>11, <1>12, <1>13, <1>14, <1>15 DEF MountInv

\* A stage begins with a Backend that knows nothing.
LEMMA NextStageInv ==
  ASSUME MountInv, NextStage
  PROVE  MountInv'
<1> USE DEF Preparing, Releasing, Unmounting, Working
<1>1. Guest /\ UNCHANGED guest
  BY DEF MountInv, Shape, NextStage
<1>2. /\ pc = "exit" /\ be' = New /\ todo' = <<>> /\ ok' = TRUE
      /\ loop' = loop /\ open' = open /\ failed' = failed
      /\ \/ ok /\ stage' = (IF stage = "prepare" THEN "convert" ELSE "finalize") /\ pc' = "attach"
         \/ ~ok /\ stage = "cleanup" /\ stage' = stage /\ pc' = "mountroot"
         \/ ~ok /\ stage # "cleanup" /\ stage' = "cleanup" /\ pc' = IF json THEN "attach" ELSE "mountroot"
  BY DEF NextStage, guest, kernel, record
<1>3. mnt' = mnt /\ GuestMounted' = GuestMounted
  BY DEF NextStage, kernel, GuestMounted
<1>4. infos' = infos /\ root' = root /\ json' = json /\ Table' = Table
  BY DEF NextStage, record, Table
<1>5. be' \in Backends /\ be'.mounts = <<>> /\ be'.probes = <<>> /\ todo' \in Seq(Entries)
  BY <1>2, BackendFacts, ProbesAreEntries
<1>6. Shape'
  BY <1>1, <1>2, <1>3, <1>4, <1>5, ShapeStep DEF MountInv, Shape, InfosShape
<1>7. Places'
  BY <1>2 DEF MountInv, Places
<1>8. Early'
  BY <1>2 DEF MountInv, Early
<1>9. Infos'
  BY <1>1, <1>2, <1>3, <1>4, Fixed DEF MountInv, Infos, InInfos
<1>10. Kernel'
  BY <1>1, <1>2, <1>3, Fixed DEF MountInv, Kernel
<1>11. Pending'
  BY <1>2 DEF MountInv, Pending
<1>12. Handover'
  BY <1>1, <1>2, <1>3, <1>4, Fixed DEF MountInv, Places, Handover, Handed, InInfos, Exists
<1>13. Records'
  BY <1>2, <1>5 DEF MountInv, Records
<1>14. Unmounted'
  BY <1>2 DEF MountInv, Unmounted
<1>15. Clean'
  BY <1>1, <1>2, <1>3, <1>4, Fixed DEF MountInv, Clean
<1> QED BY <1>6, <1>7, <1>8, <1>9, <1>10, <1>11, <1>12, <1>13, <1>14, <1>15 DEF MountInv

\* The direct backend finds the mounts on the host.
LEMMA AttachDirectInv ==
  ASSUME MountInv, Attach, kind = "direct"
  PROVE  MountInv'
<1> USE DEF Preparing, Releasing, Unmounting, Working
<1>1. Guest /\ UNCHANGED guest
  BY DEF MountInv, Shape, Attach, Ready, MountInv, Shape
<1>2. /\ pc = "attach" /\ pc' = (IF stage = "cleanup" THEN "teardown" ELSE "work") /\ stage' = stage
      /\ ok' = ok
      /\ todo' = todo /\ be' = [be EXCEPT !.disk = TRUE]
      /\ loop' = loop /\ open' = open /\ failed' = failed
  BY DEF Attach, Ready, MountInv, Shape, guest, kernel, record
<1>3. mnt' = mnt /\ GuestMounted' = GuestMounted
  BY DEF Attach, Ready, MountInv, Shape, kernel, GuestMounted
<1>4. infos' = infos /\ root' = root /\ json' = json /\ Table' = Table
  BY DEF Attach, Ready, MountInv, Shape, record, Table
<1>5. be' \in Backends /\ be'.mounts = be.mounts /\ be'.probes = be.probes /\ be'.disk = TRUE
  <2>1. be \in Backends
    BY DEF MountInv, Shape
  <2> QED BY <1>2, <2>1 DEF Backends
<1>6. ParentsFirst(be'.mounts)
  <2>1. be'.mounts = <<>>
    BY <1>2, <1>5 DEF MountInv, Places, Records
  <2> QED BY <2>1 DEF ParentsFirst
<1>7. Shape'
  BY <1>1, <1>2, <1>3, <1>4, <1>5, ShapeStep DEF MountInv, Shape, InfosShape
<1>8. Places'
  BY <1>2 DEF MountInv, Places
<1>9. Early'
  BY <1>2 DEF MountInv, Places, Early
<1>10. Infos'
  BY <1>1, <1>2, <1>3, <1>4, Fixed DEF MountInv, Infos, InInfos
<1>11. Kernel'
  BY <1>2, <1>3 DEF MountInv, Kernel
<1>12. Pending'
  BY <1>2 DEF MountInv, Pending
<1>13. Handover'
  BY <1>1, <1>2, <1>3, <1>4, Fixed DEF MountInv, Handover, Handed, InInfos
<1>14. Records'
  BY <1>1, <1>2, <1>6, Fixed DEF MountInv, Records
<1>15. Unmounted'
  BY <1>2 DEF MountInv, Unmounted
<1>16. Clean'
  BY <1>2 DEF MountInv, Clean
<1> QED BY <1>7, <1>8, <1>9, <1>10, <1>11, <1>12, <1>13, <1>14, <1>15, <1>16 DEF MountInv

\* A shared appliance's mounts are recorded from the disk infos.
LEMMA AttachSharedInv ==
  ASSUME MountInv, Attach, shared
  PROVE  MountInv'
<1> USE DEF Preparing, Releasing, Unmounting, Working
<1>1. Guest /\ UNCHANGED guest
  BY DEF MountInv, Shape, Attach, Ready, MountInv, Shape
<1>2. /\ pc = "attach" /\ pc' = (IF stage = "cleanup" THEN "teardown" ELSE "work") /\ stage' = stage
      /\ ok' = ok
      /\ todo' = todo /\ kind = "qemu"
      /\ (\E plan \in Plans(WithRootMount(infos, root)) : be' = [be EXCEPT !.mounts = plan])
      /\ loop' = loop /\ open' = open /\ failed' = failed
  BY DEF Attach, Ready, MountInv, Shape, guest, kernel, record
<1>3. mnt' = mnt /\ GuestMounted' = GuestMounted
  BY DEF Attach, Ready, MountInv, Shape, kernel, GuestMounted
<1>4. infos' = infos /\ root' = root /\ json' = json /\ Table' = Table
  BY DEF Attach, Ready, MountInv, Shape, record, Table
<1>5. /\ be' \in Backends /\ ParentsFirst(be'.mounts) /\ Range(be'.mounts) = Table
      /\ be'.probes = be.probes
  <2>1. PICK plan \in Plans(WithRootMount(infos, root)) : be' = [be EXCEPT !.mounts = plan]
    BY <1>2
  <2>2. plan \in OrdersBy(Length, Table) /\ Table \subseteq PreparedTable
    BY <1>1, <2>1, InfosFacts DEF Plans, SortSpecs, Table, MountInv, Shape, Infos
  <2>3. plan \in Seq(PreparedTable) /\ Range(plan) = Table /\ ParentsFirst(plan)
    BY <1>1, <2>2, OrderFacts
  <2>4. be \in Backends
    BY DEF MountInv, Shape
  <2>5. be' \in Backends /\ be'.mounts = plan /\ be'.probes = be.probes
    BY <2>1, <2>3, <2>4 DEF Backends
  <2> QED BY <2>3, <2>5
<1>6. ~TwiceMounted => GuestMounted \subseteq Range(be'.mounts)
  <2>1. \A e \in PreparedTable : InInfos(e) => e \in Table
    BY <1>1, InfosFacts DEF MountInv, Shape, Infos
  <2>2. GuestMounted \subseteq PreparedTable
    BY <1>1, MountedFacts DEF MountInv, Shape, GuestMounted
  <2> QED BY <1>5, <2>1, <2>2 DEF MountInv, Infos
<1>7. Shape'
  BY <1>1, <1>2, <1>3, <1>4, <1>5, ShapeStep DEF MountInv, Shape, InfosShape
<1>8. Places'
  BY <1>2 DEF MountInv, Places
<1>9. Early'
  BY <1>2 DEF MountInv, Places, Early
<1>10. Infos'
  BY <1>1, <1>2, <1>3, <1>4, Fixed DEF MountInv, Infos, InInfos
<1>11. Kernel'
  BY <1>1, <1>2, <1>3, Fixed DEF MountInv, Kernel
<1>12. Pending'
  BY <1>2 DEF MountInv, Pending
<1>13. Handover'
  BY <1>1, <1>2, <1>3, <1>4, Fixed DEF MountInv, Handover, Handed, InInfos
<1>14. Records'
  BY <1>1, <1>2, <1>3, <1>5, <1>6, Fixed DEF MountInv, Places, Records
<1>15. Unmounted'
  BY <1>2 DEF MountInv, Unmounted
<1>16. Clean'
  BY <1>1, <1>2, Fixed DEF MountInv, Clean
<1> QED BY <1>7, <1>8, <1>9, <1>10, <1>11, <1>12, <1>13, <1>14, <1>15, <1>16 DEF MountInv

\* A fresh appliance has the table of the disk infos still to mount.
LEMMA AttachFreshInv ==
  ASSUME MountInv, Attach, kind = "qemu", ~shared
  PROVE  MountInv'
<1> USE DEF Preparing, Releasing, Unmounting, Working
<1>1. Guest /\ UNCHANGED guest
  BY DEF MountInv, Shape, Attach, Assembled
<1>2. /\ pc = "attach" /\ pc' = "remount" /\ stage' = stage /\ ok' = ok
      /\ todo' \in Plans(WithRootMount(infos, root)) /\ kind = "qemu" /\ ~shared
      /\ mnt' = <<>> /\ loop' = loop /\ open' \subseteq {"ldm"} /\ failed' = failed
      /\ be' = [be EXCEPT !.ldm = "ldm" \in open']
  BY DEF Attach, Assembled, guest, kernel, record
<1>3. infos' = infos /\ root' = root /\ json' = json /\ Table' = Table
  BY DEF Attach, Assembled, record, Table
<1>4. be' \in Backends /\ be'.mounts = be.mounts /\ be'.probes = be.probes
  <2>1. be \in Backends
    BY DEF MountInv, Shape
  <2>2. be' = [be EXCEPT !.ldm = TRUE] \/ be' = [be EXCEPT !.ldm = FALSE]
    <3>1. ("ldm" \in open') \in BOOLEAN
      OBVIOUS
    <3> QED BY <1>2, <3>1
  <2> QED BY <2>1, <2>2 DEF Backends
<1>5. /\ todo' \in Seq(PreparedTable) /\ todo' \in Seq(Entries) /\ Range(todo') = Table
      /\ Single(todo', Paths) /\ ParentsFirst(todo')
      /\ todo' # <<>> => Head(todo') = SystemRoot
  <2>1. /\ todo' \in OrdersBy(Length, Table) /\ Table \subseteq PreparedTable
        /\ Table # {} => SystemRoot \in Table
    BY <1>1, <1>2, InfosFacts DEF Plans, SortSpecs, Table, MountInv, Shape, Infos
  <2>2. /\ todo' \in Seq(PreparedTable) /\ Range(todo') = Table /\ Single(todo', Paths)
        /\ ParentsFirst(todo')
        /\ SystemRoot \in Table => Head(todo') = SystemRoot
    BY <1>1, <2>1, OrderFacts
  <2>3. todo' # <<>> => Table # {}
    BY <2>2, SeqRange
  <2> QED BY <2>1, <2>2, <2>3, ProbesAreEntries
<1>6. /\ GuestMounted' = {} /\ Range(mnt') = {} /\ Single(mnt', Paths) /\ Single(mnt', Everywhere)
      /\ mnt' \in Seq(PreparedTable) /\ mnt' \in Seq(Entries) /\ ParentsFirst(mnt')
  <2>1. Range(mnt') = {} /\ Single(mnt', Paths) /\ Single(mnt', Everywhere) /\ ParentsFirst(mnt')
    BY <1>2 DEF Range, Single, ParentsFirst
  <2> QED BY <1>2, <2>1, ProbesAreEntries, EmptySeq DEF GuestMounted
<1>7. Shape'
  BY <1>1, <1>2, <1>3, <1>4, <1>5, <1>6, ShapeStep DEF MountInv, Shape, InfosShape, Volumes
<1>8. Places'
  BY <1>1, <1>2, Fixed DEF MountInv, Places
<1>9. Early'
  BY <1>2 DEF MountInv, Places, Early
<1>10. Infos'
  BY <1>1, <1>2, <1>3, <1>6, Fixed DEF MountInv, Infos, InInfos
<1>11. Kernel'
  BY <1>1, <1>2, <1>6, Fixed DEF MountInv, Kernel
<1>12. Pending'
  BY <1>1, <1>2, <1>3, <1>5, <1>6, Fixed DEF MountInv, Places, Pending, Records
<1>13. Handover'
  BY <1>1, <1>2, <1>3, Fixed DEF MountInv, Handover, Handed, InInfos
<1>14. Records'
  BY <1>2, <1>6 DEF MountInv, Records
<1>15. Unmounted'
  BY <1>2 DEF MountInv, Unmounted
<1>16. Clean'
  BY <1>1, <1>2, Fixed DEF MountInv, Clean
<1> QED BY <1>7, <1>8, <1>9, <1>10, <1>11, <1>12, <1>13, <1>14, <1>15, <1>16 DEF MountInv

\* The virtual filesystems of a chroot are no mount of the guest.
LEMMA MountVirtualFSInv ==
  ASSUME MountInv, MountVirtualFS
  PROVE  MountInv'
<1> USE DEF Preparing, Releasing, Unmounting, Working
<1>1. Guest /\ UNCHANGED guest
  BY DEF MountInv, Shape, MountVirtualFS, Fault, Virtual
<1>2. /\ pc = "work" /\ kind = "qemu" /\ pc' = "chroot" /\ stage' = stage /\ ok' = ok
      /\ todo' = todo
      /\ loop' = loop /\ open' = open /\ be' = be
      /\ \/ mnt' = Append(mnt, Virtual) /\ failed' = failed
         \/ mnt' = mnt /\ failed' = failed \cup {"mount"}
  BY DEF MountVirtualFS, Fault, Virtual, guest, kernel, record
<1>3. infos' = infos /\ root' = root /\ json' = json /\ Table' = Table
  BY DEF MountVirtualFS, Fault, Virtual, record, Table
<1>4. /\ Virtual \in Entries /\ Virtual.at = "/proc" /\ Virtual.dev = "virtual"
      /\ Virtual.at \notin Paths /\ Virtual.at # Probe /\ Virtual \notin PreparedTable
  BY <1>1, MountedFacts DEF Entries
<1>5. /\ mnt' \in Seq(Entries) /\ GuestMounted' = GuestMounted
      /\ Range(mnt') = Range(mnt) \/ Range(mnt') = Range(mnt) \cup {Virtual}
  <2>1. mnt \in Seq(Entries)
    BY DEF MountInv, Shape
  <2>2. /\ Append(mnt, Virtual) \in Seq(Entries)
        /\ Range(Append(mnt, Virtual)) = Range(mnt) \cup {Virtual}
    BY <1>4, <2>1, SeqRange
  <2>3. /\ mnt' \in Seq(Entries)
        /\ Range(mnt') = Range(mnt) \/ Range(mnt') = Range(mnt) \cup {Virtual}
    BY <1>2, <2>1, <2>2
  <2> QED BY <1>4, <2>3 DEF GuestMounted
<1>6. Single(mnt', Paths) /\ ("umount" \notin failed' => Single(mnt', Everywhere))
  <2>1. /\ mnt \in Seq(Entries) /\ Single(mnt, Paths)
        /\ "umount" \notin failed => Single(mnt, Everywhere) /\ Virtual \notin Range(mnt)
    BY <1>2 DEF MountInv, Shape, Kernel
  <2>2. Single(Append(mnt, Virtual), Paths)
    BY <1>4, <2>1, PutOn
  <2>3. \A f \in Range(mnt) : f # Virtual => f.at # "/proc"
    <3>1. Range(mnt) \subseteq Entries
      BY <2>1, SeqRange
    <3> QED BY <1>1, <3>1, MountedFacts
  <2>4. "umount" \notin failed => \A f \in Range(mnt) : f.at # Virtual.at
    BY <1>4, <2>1, <2>3
  <2>5. "umount" \notin failed => Single(Append(mnt, Virtual), Everywhere)
    BY <1>4, <2>1, <2>4, PutOn
  <2> QED BY <1>2, <2>1, <2>2, <2>5
<1>7. Shape'
  BY <1>1, <1>2, <1>3, <1>5, ShapeStep DEF MountInv, Shape, InfosShape, Commands
<1>8. Places'
  BY <1>1, <1>2, Fixed DEF MountInv, Places
<1>9. Early'
  BY <1>2 DEF MountInv, Places, Early
<1>10. Infos'
  BY <1>1, <1>2, <1>3, <1>5, Fixed DEF MountInv, Infos, InInfos
<1>11. Kernel'
  BY <1>1, <1>2, <1>4, <1>5, <1>6, Fixed DEF MountInv, Kernel
<1>12. Pending'
  BY <1>2 DEF MountInv, Pending
<1>13. Handover'
  BY <1>1, <1>2, <1>3, <1>5, Fixed DEF MountInv, Handover, Handed, InInfos, Exists
<1>14. Records'
  BY <1>1, <1>2, <1>5, Fixed DEF MountInv, Records
<1>15. Unmounted'
  BY <1>2 DEF MountInv, Unmounted
<1>16. Clean'
  BY <1>1, <1>2, Fixed DEF MountInv, Clean
<1> QED BY <1>7, <1>8, <1>9, <1>10, <1>11, <1>12, <1>13, <1>14, <1>15, <1>16 DEF MountInv

\* They go with the command, or the umount fails and says so.
LEMMA UnmountVirtualFSInv ==
  ASSUME MountInv, UnmountVirtualFS
  PROVE  MountInv'
<1> USE DEF Preparing, Releasing, Unmounting, Working
<1>1. Guest /\ UNCHANGED guest
  BY DEF MountInv, Shape, UnmountVirtualFS, Fault, Virtual
<1>2. /\ pc = "chroot" /\ pc' = "work" /\ stage' = stage /\ ok' = ok /\ todo' = todo
      /\ loop' = loop /\ open' = open /\ be' = be
      /\ \/ At(Virtual) # {} /\ mnt' = RemoveAt(mnt, Max(At(Virtual))) /\ failed' = failed
         \/ mnt' = mnt /\ failed' = failed \cup {"umount"}
         \/ At(Virtual) = {} /\ mnt' = mnt /\ failed' = failed
  BY DEF UnmountVirtualFS, Fault, Virtual, guest, kernel, record
<1>3. infos' = infos /\ root' = root /\ json' = json /\ Table' = Table
  BY DEF UnmountVirtualFS, Fault, Virtual, record, Table
<1>4. Virtual.at = "/proc" /\ Virtual.at \notin Paths /\ Virtual.at # Probe
  BY <1>1, MountedFacts
<1>5. /\ mnt' \in Seq(Entries) /\ Range(mnt') \subseteq Range(mnt)
      /\ Range(mnt') \cap PreparedTable = Range(mnt) \cap PreparedTable
      /\ Single(mnt', Paths) /\ ("umount" \notin failed' => Single(mnt', Everywhere))
      /\ "umount" \notin failed' => Virtual \notin Range(mnt')
  <2>1. /\ mnt \in Seq(Entries) /\ Single(mnt, Paths)
        /\ ("umount" \notin failed => Single(mnt, Everywhere))
    BY DEF MountInv, Shape, Kernel
  <2>2. CASE mnt' = mnt /\ failed' = failed \cup {"umount"}
    BY <2>1, <2>2
  <2>3. CASE At(Virtual) = {} /\ mnt' = mnt /\ failed' = failed
    <3>1. kind = "qemu"
      BY <1>2 DEF MountInv, Places
    <3>2. Virtual \notin Range(mnt)
      BY <2>3, <3>1 DEF At, Range
    <3> QED BY <2>1, <2>3, <3>2
  <2>4. CASE At(Virtual) # {} /\ mnt' = RemoveAt(mnt, Max(At(Virtual))) /\ failed' = failed
    BY <1>1, <1>4, <2>1, <2>4, UmountFacts
  <2> QED BY <1>2, <2>2, <2>3, <2>4
<1>6. GuestMounted' = GuestMounted
  <2>1. mnt \in Seq(Entries)
    BY DEF MountInv, Shape
  <2>2. GuestMounted = Range(mnt) \cap PreparedTable
    BY <1>1, <2>1, MountedFacts DEF GuestMounted
  <2>3. GuestMounted' = Range(mnt') \cap PreparedTable
    BY <1>1, <1>5, MountedFacts DEF GuestMounted
  <2> QED BY <1>5, <2>2, <2>3
<1>7. Shape'
  BY <1>1, <1>2, <1>3, <1>5, ShapeStep DEF MountInv, Shape, InfosShape, Commands
<1>8. Places'
  BY <1>2 DEF MountInv, Places
<1>9. Early'
  BY <1>2 DEF MountInv, Places, Early
<1>10. Infos'
  BY <1>1, <1>2, <1>3, <1>6, Fixed DEF MountInv, Infos, InInfos
<1>11. Kernel'
  BY <1>1, <1>2, <1>5, <1>6, Fixed DEF MountInv, Kernel
<1>12. Pending'
  BY <1>2 DEF MountInv, Pending
<1>13. Handover'
  BY <1>1, <1>2, <1>3, <1>6, Fixed DEF MountInv, Handover, Handed, InInfos, Exists
<1>14. Records'
  BY <1>1, <1>2, <1>6, Fixed DEF MountInv, Records
<1>15. Unmounted'
  BY <1>2 DEF MountInv, Unmounted
<1>16. Clean'
  BY <1>1, <1>2, <1>3, Fixed DEF MountInv, Clean
<1> QED BY <1>7, <1>8, <1>9, <1>10, <1>11, <1>12, <1>13, <1>14, <1>15, <1>16 DEF MountInv

\* The direct backend has recorded no mount when it unmounts; the sweep is to
\* find them.
LEMMA UnmountDirectInv ==
  ASSUME MountInv, UnmountFilesystems, kind = "direct"
  PROVE  MountInv'
<1> USE DEF Preparing, Releasing, Unmounting, Working
<1>1. Guest /\ UNCHANGED guest
  BY DEF MountInv, Shape, UnmountFilesystems, ToUmount
<1>2. /\ pc = "teardown" \/ (pc = "work" /\ stage = "finalize")
      /\ pc' = "umount" /\ stage' = stage /\ ok' = ok /\ loop' = loop /\ open' = open
      /\ failed' = failed
      /\ todo' = Reverse(be.probes) \o Reverse(be.mounts)
      /\ be' = [[be EXCEPT !.mounts = <<>>] EXCEPT !.probes = <<>>]
  BY DEF UnmountFilesystems, ToUmount, guest, kernel, record
<1>3. mnt' = mnt /\ GuestMounted' = GuestMounted
  BY DEF UnmountFilesystems, ToUmount, kernel, GuestMounted
<1>4. infos' = infos /\ root' = root /\ json' = json /\ Table' = Table
  BY DEF UnmountFilesystems, ToUmount, record, Table
<1>5. be \in Backends /\ be.mounts = <<>> /\ be.probes = <<>>
  BY <1>2 DEF MountInv, Shape, Places, Early, Records
<1>6. be' \in Backends /\ be'.mounts = <<>> /\ be'.probes = <<>> /\ be'.disk = be.disk
  BY <1>2, <1>5 DEF Backends
<1>7. todo' \in Seq(Entries) /\ ChildrenFirst(todo')
  <2>1. todo' = <<>>
    <3>1. Reverse(<<>>) = <<>>
      BY DEF Reverse
    <3> QED BY <1>2, <1>5, <3>1
  <2> QED BY <2>1, ProbesAreEntries DEF ChildrenFirst
<1>8. stage = "finalize" => Exists(System, open)
  <2>1. SUFFICES ASSUME stage = "finalize"
                 PROVE  Exists(System, open)
    OBVIOUS
  <2>2. GuestMounted = PreparedTable
    BY <1>2, <2>1 DEF MountInv, Places, Handover, Handed
  <2>3. SystemRoot \in PreparedTable /\ SystemRoot.dev = System
    BY <1>1, TableFacts
  <2> QED BY <2>2, <2>3 DEF MountInv, Kernel
<1>9. Shape'
  BY <1>1, <1>2, <1>3, <1>4, <1>6, <1>7, ShapeStep DEF MountInv, Shape, InfosShape
<1>10. Places'
  BY <1>2 DEF MountInv, Places
<1>11. Early'
  BY <1>1, <1>2, <1>3, <1>4, <1>6 DEF MountInv, Early
<1>12. Infos'
  BY <1>1, <1>2, <1>3, <1>4, Fixed DEF MountInv, Infos, InInfos
<1>13. Kernel'
  BY <1>2, <1>3 DEF MountInv, Kernel
<1>14. Pending'
  BY <1>2 DEF MountInv, Pending
<1>15. Handover'
  BY <1>1, <1>2, <1>4, <1>8, Fixed DEF MountInv, Handover, Handed, InInfos, Exists
<1>16. Records'
  BY <1>1, <1>2, Fixed DEF MountInv, Records
<1>17. Unmounted'
  BY <1>1, <1>2, <1>7, Fixed DEF MountInv, Unmounted
<1>18. Clean'
  BY <1>2, <1>4 DEF MountInv, Clean
<1> QED BY <1>9, <1>10, <1>11, <1>12, <1>13, <1>14, <1>15, <1>16, <1>17, <1>18 DEF MountInv

\* qemu is to unmount all that it recorded, children first.
LEMMA UnmountApplianceInv ==
  ASSUME MountInv, UnmountFilesystems, kind = "qemu"
  PROVE  MountInv'
<1> USE DEF Preparing, Releasing, Unmounting, Working
<1>1. Guest /\ UNCHANGED guest
  BY DEF MountInv, Shape, UnmountFilesystems, ToUmount, Virtual
<1>2. /\ pc = "teardown" \/ (pc = "work" /\ stage = "finalize")
      /\ pc' = "umount" /\ stage' = stage /\ ok' = ok /\ loop' = loop /\ open' = open
      /\ failed' = failed
      /\ \E recorded \in Recorded : /\ todo' = <<Virtual>> \o Reverse(recorded)
                                    /\ be' = [be EXCEPT !.mounts = recorded]
  BY DEF UnmountFilesystems, ToUmount, Virtual, guest, kernel, record
<1>3. mnt' = mnt /\ GuestMounted' = GuestMounted
  BY DEF UnmountFilesystems, ToUmount, Virtual, kernel, GuestMounted
<1>4. infos' = infos /\ root' = root /\ json' = json /\ Table' = Table
  BY DEF UnmountFilesystems, ToUmount, Virtual, record, Table
<1>5. be \in Backends /\ mnt \in Seq(Entries)
  BY DEF MountInv, Shape
<1>6. PICK recorded \in Recorded : todo' = <<Virtual>> \o Reverse(recorded) /\ be' = [be EXCEPT !.mounts = recorded]
  BY <1>2
<1>7. /\ recorded \in Seq(PreparedTable) /\ ParentsFirst(recorded)
      /\ be.mounts # <<>> => recorded = be.mounts
  <2>1. CASE recorded = be.mounts
    BY <1>2, <1>5, <2>1, BackendFacts DEF MountInv, Records
  <2>2. CASE be.mounts = <<>> /\ recorded \in Plans(WithRootMount(infos, root))
    <3>1. recorded \in OrdersBy(Length, Table) /\ Table \subseteq PreparedTable
      BY <1>1, <2>2, InfosFacts DEF Plans, SortSpecs, Table, MountInv, Shape, Infos
    <3> QED BY <1>1, <2>2, <3>1, OrderFacts
  <2> QED BY <1>6, <2>1, <2>2 DEF Recorded
<1>8. be' \in Backends /\ be'.mounts = recorded /\ be'.probes = be.probes /\ be'.disk = be.disk
  BY <1>5, <1>6, <1>7 DEF Backends
<1>9. /\ todo' \in Seq(Entries) /\ ChildrenFirst(todo')
      /\ Range(todo') = {Virtual} \cup Range(recorded)
  <2>1. /\ recorded \in Seq(Entries) /\ Virtual \in Entries /\ <<Virtual>> \in Seq(Entries)
        /\ Range(<<Virtual>>) = {Virtual}
    <3>1. Virtual \in Entries
      BY DEF Entries
    <3>2. Range(<<Virtual>>) = {Virtual}
      BY DEF Range
    <3> QED BY <1>7, <3>1, <3>2, ProbesAreEntries
  <2>2. Reverse(recorded) \in Seq(Entries) /\ Range(Reverse(recorded)) = Range(recorded)
    BY <2>1, ReverseRange
  <2>3. \A q : ~Above(Virtual.at, q)
    BY AboveFacts DEF Virtual, Entry
  <2>4. ChildrenFirst(<<Virtual>> \o Reverse(recorded))
    BY <1>7, <2>1, <2>3, ReverseOrder
  <2>5. /\ <<Virtual>> \o Reverse(recorded) \in Seq(Entries)
        /\ Range(<<Virtual>> \o Reverse(recorded)) = Range(<<Virtual>>) \cup Range(Reverse(recorded))
    <3> DEFINE v == <<Virtual>>
               r == Reverse(recorded)
    <3>1. v \in Seq(Entries) /\ r \in Seq(Entries)
      BY <2>1, <2>2
    <3> HIDE DEF v, r
    <3>2. v \o r \in Seq(Entries) /\ Range(v \o r) = Range(v) \cup Range(r)
      BY <3>1, ConcatRange
    <3> QED BY <3>2 DEF v, r
  <2> QED BY <1>6, <2>1, <2>2, <2>4, <2>5
<1>10. ~(TwiceMounted /\ shared /\ stage # "prepare") => GuestMounted \subseteq Range(recorded)
  <2>1. Range(<<>>) = {}
    BY DEF Range
  <2> QED BY <1>2, <1>7, <2>1 DEF MountInv, Records
<1>11. "umount" \notin failed => Range(mnt) \subseteq GuestMounted \cup {Virtual}
  <2>1. Range(mnt) \subseteq Entries /\ GuestMounted = Range(mnt) \cap PreparedTable
    BY <1>1, <1>5, SeqRange, MountedFacts DEF GuestMounted
  <2>2. "umount" \notin failed => \A e \in Range(mnt) : e.at # Probe
    BY <1>2 DEF MountInv, Kernel
  <2> QED BY <1>1, <2>1, <2>2, MountedFacts
<1>12. stage = "finalize" => Exists(System, open)
  <2>1. SUFFICES ASSUME stage = "finalize"
                 PROVE  Exists(System, open)
    OBVIOUS
  <2>2. pc = "work" /\ Handed
    BY <1>2, <2>1 DEF MountInv, Places, Handover
  <2>3. SystemRoot \in PreparedTable /\ SystemRoot.dev = System /\ InInfos(SystemRoot)
    BY <1>1, <2>2, TableFacts DEF Handed
  <2>4. SystemRoot \in Table
    BY <1>1, <2>3, InfosFacts DEF MountInv, Shape, Infos
  <2>5. SystemRoot \in GuestMounted
    BY <2>2, <2>3, <2>4 DEF MountInv, Handover, Handed
  <2> QED BY <2>3, <2>5 DEF MountInv, Kernel
<1>13. stage = "prepare" => recorded = <<>>
  <2>1. SUFFICES ASSUME stage = "prepare", recorded # <<>>
                 PROVE  FALSE
    OBVIOUS
  <2>2. be.mounts = <<>> /\ root = "" /\ \A d \in DOMAIN infos : infos[d] = ""
    BY <1>2, <2>1 DEF MountInv, Places, Early
  <2>3. recorded \in Plans(WithRootMount(infos, root))
    BY <1>6, <2>1, <2>2 DEF Recorded
  <2>4. /\ recorded \in OrdersBy(Length, Table) /\ Table \subseteq PreparedTable
        /\ \A e \in Table : InInfos(e)
    BY <1>1, <2>2, <2>3, InfosFacts DEF Plans, SortSpecs, Table, MountInv, Shape, Infos
  <2>5. recorded \in Seq(Table) /\ Range(recorded) = Table
    BY <1>1, <2>4, OrderFacts
  <2>6. PICK e \in Table : TRUE
    BY <2>1, <2>5, SeqRange
  <2>7. e.at = ""
    BY <2>2, <2>4, <2>6 DEF InInfos
  <2> QED BY <1>1, <2>4, <2>6, <2>7, TableFacts, PathsAssumption
<1>14. Shape'
  BY <1>1, <1>2, <1>3, <1>4, <1>5, <1>6, <1>8, <1>9, ShapeStep DEF MountInv, Shape, InfosShape
<1>15. Places'
  BY <1>2 DEF MountInv, Places
<1>16. Early'
  BY <1>2, <1>3, <1>4, <1>8, <1>13 DEF MountInv, Early
<1>17. Infos'
  BY <1>1, <1>2, <1>3, <1>4, Fixed DEF MountInv, Infos, InInfos
<1>18. Kernel'
  BY <1>1, <1>2, <1>3, Fixed DEF MountInv, Kernel
<1>19. Pending'
  BY <1>2 DEF MountInv, Pending
<1>20. Handover'
  BY <1>1, <1>2, <1>3, <1>4, <1>5, <1>6, <1>7, <1>12, Fixed
  DEF MountInv, Handover, Handed, InInfos, Exists
<1>21. Records'
  BY <1>1, <1>2, <1>3, <1>4, <1>5, <1>6, <1>7, <1>8, <1>10, Fixed DEF MountInv, Records
<1>22. Unmounted'
  BY <1>1, <1>2, <1>3, <1>4, <1>5, <1>6, <1>7, <1>9, <1>10, <1>11, Fixed DEF MountInv, Unmounted
<1>23. Clean'
  BY <1>1, <1>2, Fixed DEF MountInv, Clean
<1> QED BY <1>14, <1>15, <1>16, <1>17, <1>18, <1>19, <1>20, <1>21, <1>22, <1>23 DEF MountInv

\* An umount that works takes off the mount and its record.
LEMMA UmountDoesInv ==
  ASSUME MountInv, CanUmount(Head(todo)), Umount,
         mnt' = RemoveAt(mnt, Max(At(Head(todo)))), loop' = Loop(loop, mnt', open), failed' = failed,
         be' = [be EXCEPT !.mounts = Without(@, Head(todo))]
  PROVE  MountInv'
<1> USE DEF Preparing, Releasing, Unmounting, Working
<1>1. Guest /\ UNCHANGED guest
  BY DEF MountInv, Shape, Umount, Loop
<1>2. /\ pc \in {"umount", "sweep", "release"} /\ todo # <<>> /\ pc' = pc /\ stage' = stage
      /\ ok' = ok
      /\ todo' = Tail(todo) /\ open' = open /\ loop' \in {loop, "none"} /\ failed' = failed
      /\ CanUmount(Head(todo)) /\ mnt' = RemoveAt(mnt, Max(At(Head(todo))))
      /\ be' = [be EXCEPT !.mounts = Without(be.mounts, Head(todo))]
  BY DEF Umount, Loop, guest, kernel, record
<1>3. infos' = infos /\ root' = root /\ json' = json /\ Table' = Table
  BY DEF Umount, Loop, record, Table
<1>4. /\ be \in Backends /\ mnt \in Seq(Entries) /\ Single(mnt, Paths)
      /\ "umount" \notin failed => Single(mnt, Everywhere)
  BY DEF MountInv, Shape, Kernel
<1>5. /\ Head(todo) \in Entries /\ todo' \in Seq(Entries)
      /\ Range(todo) = {Head(todo)} \cup Range(todo')
      /\ pc = "release" => Head(todo).at = Probe /\ Head(todo).at \notin Paths /\ todo' \in Seq(Probes)
      /\ ChildrenFirst(todo) => ChildrenFirst(todo')
  <2>1. /\ Head(todo) \in Entries /\ todo' \in Seq(Entries)
        /\ Range(todo) = {Head(todo)} \cup Range(todo') /\ todo \in Seq(Entries)
    BY <1>2, SeqRange DEF MountInv, Shape
  <2>2. pc = "release" => Head(todo) \in Probes /\ todo' \in Seq(Probes)
    BY <1>2, SeqRange DEF MountInv, Kernel
  <2>3. ChildrenFirst(todo) => ChildrenFirst(todo')
    BY <1>2, <2>1, TailOrder
  <2> QED BY <1>1, <2>1, <2>2, <2>3, MountedFacts
<1>6. /\ mnt' \in Seq(Entries) /\ Range(mnt') \subseteq Range(mnt)
      /\ Single(mnt', Paths) /\ ("umount" \notin failed => Single(mnt', Everywhere))
      /\ Head(todo).at \in Paths \/ "umount" \notin failed => \A e \in Range(mnt') : e.at # Head(todo).at
      /\ Head(todo).at \notin Paths => Range(mnt') \cap PreparedTable = Range(mnt) \cap PreparedTable
  BY <1>1, <1>2, <1>4, UmountFacts DEF CanUmount
<1>7. /\ be' \in Backends /\ be'.probes = be.probes /\ be'.disk = be.disk
      /\ be.mounts = <<>> => be'.mounts = <<>>
      /\ Range(be.mounts) \subseteq Range(be'.mounts) \cup {Head(todo)}
  <2> DEFINE s == Without(be.mounts, Head(todo))
  <2>1. /\ s \in Seq(PreparedTable) /\ Range(s) \subseteq Range(be.mounts)
        /\ Range(be.mounts) \subseteq Range(s) \cup {Head(todo)}
    BY <1>4, BackendFacts, WithoutFacts
  <2>2. be.mounts = <<>> => s = <<>>
    BY <2>1, SeqRange DEF Range
  <2>3. be' = [be EXCEPT !.mounts = s]
    BY <1>2
  <2> HIDE DEF s
  <2>4. be' \in Backends /\ be'.mounts = s /\ be'.probes = be.probes /\ be'.disk = be.disk
    BY <1>4, <2>1, <2>3 DEF Backends
  <2> QED BY <2>1, <2>2, <2>4
<1>8. /\ GuestMounted' \subseteq GuestMounted /\ (pc = "release" => GuestMounted' = GuestMounted)
      /\ \A e \in GuestMounted' : e # Head(todo)
  <2>1. /\ GuestMounted = Range(mnt) \cap PreparedTable
        /\ GuestMounted' = Range(mnt') \cap PreparedTable
    BY <1>1, <1>4, <1>6, MountedFacts DEF GuestMounted
  <2>2. \A e \in PreparedTable : e.at \in Paths
    BY <1>1, TableFacts
  <2> QED BY <1>5, <1>6, <2>1, <2>2
<1>9. "umount" \notin failed /\ Range(mnt) \subseteq Range(todo) => Range(mnt') \subseteq Range(todo')
  BY <1>5, <1>6
<1>10. mnt # <<>>
  BY <1>2 DEF CanUmount, At
<1>11. Shape'
  BY <1>1, <1>2, <1>3, <1>5, <1>6, <1>7, ShapeStep DEF MountInv, Shape, InfosShape
<1>12. Places'
  BY <1>1, <1>2, Fixed DEF MountInv, Places
<1>13. Early'
  BY <1>2, <1>10 DEF MountInv, Early
<1>14. Infos'
  BY <1>1, <1>2, <1>3, <1>4, <1>8, Fixed DEF MountInv, Infos, InInfos
<1>15. Kernel'
  BY <1>1, <1>2, <1>3, <1>4, <1>6, <1>8, Fixed DEF MountInv, Kernel, Exists
<1>16. Pending'
  BY <1>2 DEF MountInv, Pending
<1>17. Handover'
  BY <1>1, <1>2, <1>3, <1>4, <1>8, Fixed DEF MountInv, Handover, Handed, InInfos, Exists
<1>18. Records'
  BY <1>1, <1>2, <1>7, <1>8, Fixed DEF MountInv, Records
<1>19. Unmounted'
  BY <1>1, <1>2, <1>5, <1>9, Fixed DEF MountInv, Unmounted
<1>20. Clean'
  BY <1>1, <1>2, <1>3, Fixed DEF MountInv, Clean
<1> QED BY <1>11, <1>12, <1>13, <1>14, <1>15, <1>16, <1>17, <1>18, <1>19, <1>20 DEF MountInv

\* An umount that does not work leaves both; it is not for want of an order,
\* because nothing is left under the path.
LEMMA UmountSkipsInv ==
  ASSUME MountInv, Umount, mnt' = mnt, loop' = loop, be' = be,
         (~CanUmount(Head(todo)) /\ failed' = failed) \/ Fault("umount")
  PROVE  MountInv'
<1> USE DEF Preparing, Releasing, Unmounting, Working
<1>1. Guest /\ UNCHANGED guest
  BY DEF MountInv, Shape, Umount, Fault
<1>2. /\ pc \in {"umount", "sweep", "release"} /\ todo # <<>> /\ pc' = pc /\ stage' = stage
      /\ ok' = ok
      /\ todo' = Tail(todo) /\ open' = open /\ loop' = loop /\ be' = be
      /\ \/ ~CanUmount(Head(todo)) /\ failed' = failed
         \/ failed' = failed \cup {"umount"}
  BY DEF Umount, Fault, guest, kernel, record
<1>3. mnt' = mnt /\ GuestMounted' = GuestMounted
  BY DEF Umount, Fault, kernel, GuestMounted
<1>4. infos' = infos /\ root' = root /\ json' = json /\ Table' = Table
  BY DEF Umount, Fault, record, Table
<1>5. /\ todo \in Seq(Entries) /\ todo' \in Seq(Entries)
      /\ Range(todo) = {Head(todo)} \cup Range(todo')
      /\ pc = "release" => todo' \in Seq(Probes)
      /\ ChildrenFirst(todo) => ChildrenFirst(todo') /\ \A f \in Range(todo') : ~Above(Head(todo).at, f.at)
  <2>1. /\ todo' \in Seq(Entries) /\ Range(todo) = {Head(todo)} \cup Range(todo')
        /\ todo \in Seq(Entries)
    BY <1>2, SeqRange DEF MountInv, Shape
  <2>2. pc = "release" => todo' \in Seq(Probes)
    BY <1>2, SeqRange DEF MountInv, Kernel
  <2>3. ChildrenFirst(todo) => ChildrenFirst(todo') /\ \A f \in Range(todo') : ~Above(Head(todo).at, f.at)
    BY <1>2, <2>1, TailOrder
  <2> QED BY <2>1, <2>2, <2>3
<1>6. "umount" \notin failed' /\ Range(mnt) \subseteq Range(todo) /\ ChildrenFirst(todo) => Range(mnt) \subseteq Range(todo')
  <2>1. SUFFICES ASSUME "umount" \notin failed', Range(mnt) \subseteq Range(todo), ChildrenFirst(todo)
                 PROVE  Head(todo) \notin Range(mnt)
    BY <1>5
  <2>2. ~CanUmount(Head(todo))
    BY <1>2, <2>1
  <2>3. \A f \in Range(todo) : ~Above(Head(todo).at, f.at)
    BY <1>5, <2>1, AboveFacts
  <2>4. ~Busy(Head(todo).at)
    BY <2>1, <2>3 DEF Busy, Range
  <2>5. At(Head(todo)) = {}
    BY <2>2, <2>4 DEF CanUmount
  <2> QED BY <2>5 DEF At, Range
<1>7. Shape'
  BY <1>1, <1>2, <1>4, <1>5, ShapeStep DEF MountInv, Shape, InfosShape, Commands
<1>8. Places'
  BY <1>1, <1>2, Fixed DEF MountInv, Places
<1>9. Early'
  BY <1>2, <1>3, <1>4 DEF MountInv, Early
<1>10. Infos'
  BY <1>1, <1>2, <1>3, <1>4, Fixed DEF MountInv, Infos, InInfos
<1>11. Kernel'
  BY <1>1, <1>2, <1>3, Fixed DEF MountInv, Kernel
<1>12. Pending'
  BY <1>2 DEF MountInv, Pending
<1>13. Handover'
  BY <1>1, <1>2, <1>3, <1>4, Fixed DEF MountInv, Handover, Handed, InInfos
<1>14. Records'
  BY <1>1, <1>2, <1>3, Fixed DEF MountInv, Records
<1>15. Unmounted'
  BY <1>1, <1>2, <1>5, <1>6, Fixed DEF MountInv, Unmounted
<1>16. Clean'
  BY <1>1, <1>2, <1>4, Fixed DEF MountInv, Clean
<1> QED BY <1>7, <1>8, <1>9, <1>10, <1>11, <1>12, <1>13, <1>14, <1>15, <1>16 DEF MountInv

\* The sweep has all the mounts of the host to take off.
LEMMA UmountDoneSweepInv ==
  ASSUME MountInv, UmountDone, pc = "umount", kind = "direct"
  PROVE  MountInv'
<1> USE DEF Preparing, Releasing, Unmounting, Working
<1>1. Guest /\ UNCHANGED guest
  BY DEF MountInv, Shape, UmountDone
<1>2. /\ pc = "umount" /\ kind = "direct" /\ pc' = "sweep" /\ stage' = stage /\ ok' = ok
      /\ todo' \in Swept
      /\ loop' = loop /\ open' = open /\ be' = be /\ failed' = failed
  BY DEF UmountDone, guest, kernel, record
<1>3. mnt' = mnt /\ GuestMounted' = GuestMounted
  BY DEF UmountDone, kernel, GuestMounted
<1>4. infos' = infos /\ root' = root /\ json' = json /\ Table' = Table
  BY DEF UmountDone, record, Table
<1>5. /\ mnt \in Seq(Entries) /\ GuestMounted \subseteq PreparedTable /\ Virtual \notin Range(mnt)
      /\ "umount" \notin failed => Range(mnt) \subseteq GuestMounted
      /\ {e \in Range(mnt) : e.at # Probe} = GuestMounted
  <2>1. /\ mnt \in Seq(Entries) /\ Virtual \notin Range(mnt)
        /\ ("umount" \notin failed => \A e \in Range(mnt) : e.at # Probe)
    BY <1>2 DEF MountInv, Shape, Kernel, Places
  <2>2. Range(mnt) \subseteq Entries /\ GuestMounted = Range(mnt) \cap PreparedTable
    BY <1>1, <2>1, SeqRange, MountedFacts DEF GuestMounted
  <2> QED BY <1>1, <2>1, <2>2, MountedFacts
<1>6. todo' \in Seq(Entries) /\ ChildrenFirst(todo') /\ Range(todo') = GuestMounted
  <2>1. PICK s \in OrdersBy(Depth, GuestMounted) : todo' = Reverse(s)
    BY <1>2, <1>5 DEF Swept
  <2>2. s \in Seq(PreparedTable) /\ Range(s) = GuestMounted /\ ParentsFirst(s)
    BY <1>1, <1>5, <2>1, OrderFacts
  <2>3. Reverse(s) \in Seq(PreparedTable) /\ Range(Reverse(s)) = Range(s)
    BY <2>2, ReverseRange
  <2>4. ChildrenFirst(Reverse(s))
    BY <2>2, ReverseOrder
  <2> QED BY <2>1, <2>2, <2>3, <2>4, ProbesAreEntries
<1>7. Shape'
  BY <1>1, <1>2, <1>3, <1>4, <1>6, ShapeStep DEF MountInv, Shape, InfosShape
<1>8. Places'
  BY <1>1, <1>2, Fixed DEF MountInv, Places
<1>9. Early'
  BY <1>2, <1>3, <1>4 DEF MountInv, Early
<1>10. Infos'
  BY <1>1, <1>2, <1>3, <1>4, Fixed DEF MountInv, Infos, InInfos
<1>11. Kernel'
  BY <1>2, <1>3 DEF MountInv, Kernel
<1>12. Pending'
  BY <1>2 DEF MountInv, Pending
<1>13. Handover'
  BY <1>1, <1>2, <1>4, Fixed DEF MountInv, Handover
<1>14. Records'
  BY <1>2 DEF MountInv, Records
<1>15. Unmounted'
  BY <1>1, <1>2, <1>5, <1>6, Fixed DEF MountInv, Unmounted
<1>16. Clean'
  BY <1>2, <1>4 DEF MountInv, Clean
<1> QED BY <1>7, <1>8, <1>9, <1>10, <1>11, <1>12, <1>13, <1>14, <1>15, <1>16 DEF MountInv

\* So it has in TeardownMountRoot.
LEMMA SweepMountRootInv ==
  ASSUME MountInv, TeardownMountRoot, kind = "direct"
  PROVE  MountInv'
<1> USE DEF Preparing, Releasing, Unmounting, Working
<1>1. Guest /\ UNCHANGED guest
  BY DEF MountInv, Shape, TeardownMountRoot
<1>2. /\ pc = "mountroot" /\ kind = "direct" /\ pc' = "sweep" /\ stage' = stage /\ ok' = ok
      /\ todo' \in Swept
      /\ loop' = loop /\ open' = open /\ be' = be /\ failed' = failed
  BY DEF TeardownMountRoot, guest, kernel, record
<1>3. mnt' = mnt /\ GuestMounted' = GuestMounted
  BY DEF TeardownMountRoot, kernel, GuestMounted
<1>4. infos' = infos /\ root' = root /\ json' = json /\ Table' = Table
  BY DEF TeardownMountRoot, record, Table
<1>5. /\ mnt \in Seq(Entries) /\ GuestMounted \subseteq PreparedTable /\ Virtual \notin Range(mnt)
      /\ "umount" \notin failed => Range(mnt) \subseteq GuestMounted
      /\ {e \in Range(mnt) : e.at # Probe} = GuestMounted
  <2>1. /\ mnt \in Seq(Entries) /\ Virtual \notin Range(mnt)
        /\ ("umount" \notin failed => \A e \in Range(mnt) : e.at # Probe)
    BY <1>2 DEF MountInv, Shape, Kernel, Places
  <2>2. Range(mnt) \subseteq Entries /\ GuestMounted = Range(mnt) \cap PreparedTable
    BY <1>1, <2>1, SeqRange, MountedFacts DEF GuestMounted
  <2> QED BY <1>1, <2>1, <2>2, MountedFacts
<1>6. todo' \in Seq(Entries) /\ ChildrenFirst(todo') /\ Range(todo') = GuestMounted
  <2>1. PICK s \in OrdersBy(Depth, GuestMounted) : todo' = Reverse(s)
    BY <1>2, <1>5 DEF Swept
  <2>2. s \in Seq(PreparedTable) /\ Range(s) = GuestMounted /\ ParentsFirst(s)
    BY <1>1, <1>5, <2>1, OrderFacts
  <2>3. Reverse(s) \in Seq(PreparedTable) /\ Range(Reverse(s)) = Range(s)
    BY <2>2, ReverseRange
  <2>4. ChildrenFirst(Reverse(s))
    BY <2>2, ReverseOrder
  <2> QED BY <2>1, <2>2, <2>3, <2>4, ProbesAreEntries
<1>7. Shape'
  BY <1>1, <1>2, <1>3, <1>4, <1>6, ShapeStep DEF MountInv, Shape, InfosShape
<1>8. Places'
  BY <1>1, <1>2, Fixed DEF MountInv, Places
<1>9. Early'
  BY <1>2, <1>3, <1>4 DEF MountInv, Early
<1>10. Infos'
  BY <1>1, <1>2, <1>3, <1>4, Fixed DEF MountInv, Infos, InInfos
<1>11. Kernel'
  BY <1>2, <1>3 DEF MountInv, Kernel
<1>12. Pending'
  BY <1>2 DEF MountInv, Pending
<1>13. Handover'
  BY <1>2 DEF MountInv, Places, Handover, Exists
<1>14. Records'
  BY <1>2 DEF MountInv, Records
<1>15. Unmounted'
  BY <1>1, <1>2, <1>3, <1>5, <1>6, Fixed DEF MountInv, Unmounted
<1>16. Clean'
  BY <1>2, <1>4 DEF MountInv, Places, Clean
<1> QED BY <1>7, <1>8, <1>9, <1>10, <1>11, <1>12, <1>13, <1>14, <1>15, <1>16 DEF MountInv

\* Without pipeline.json there is nothing to do in the appliance.
LEMMA LeaveMountRootInv ==
  ASSUME MountInv, TeardownMountRoot, kind # "direct"
  PROVE  MountInv'
<1> USE DEF Preparing, Releasing, Unmounting, Working
<1>1. Guest /\ UNCHANGED guest
  BY DEF MountInv, Shape, TeardownMountRoot
<1>2. /\ pc = "mountroot" /\ kind # "direct" /\ pc' = "over" /\ stage' = stage /\ ok' = ok
      /\ todo' = todo
      /\ loop' = loop /\ open' = open /\ be' = be /\ failed' = failed
  BY DEF TeardownMountRoot, guest, kernel, record
<1>3. mnt' = mnt /\ GuestMounted' = GuestMounted
  BY DEF TeardownMountRoot, kernel, GuestMounted
<1>4. infos' = infos /\ root' = root /\ json' = json /\ Table' = Table
  BY DEF TeardownMountRoot, record, Table
<1>5. Shape'
  BY <1>1, <1>2, <1>3, <1>4, ShapeStep DEF MountInv, Shape, InfosShape
<1>6. Places'
  BY <1>2 DEF MountInv, Places
<1>7. Early'
  BY <1>2, <1>3, <1>4 DEF MountInv, Early
<1>8. Infos'
  BY <1>1, <1>2, <1>3, <1>4, Fixed DEF MountInv, Infos, InInfos
<1>9. Kernel'
  BY <1>1, <1>2, <1>3, Fixed DEF MountInv, Kernel
<1>10. Pending'
  BY <1>2 DEF MountInv, Pending
<1>11. Handover'
  BY <1>2, <1>4 DEF MountInv, Handover
<1>12. Records'
  BY <1>1, <1>2, Fixed DEF MountInv, Records
<1>13. Unmounted'
  BY <1>2 DEF MountInv, Unmounted
<1>14. Clean'
  BY <1>1, <1>2, <1>3, <1>4, Fixed DEF MountInv, Places, Clean
<1> QED BY <1>5, <1>6, <1>7, <1>8, <1>9, <1>10, <1>11, <1>12, <1>13, <1>14 DEF MountInv

\* When the list is empty nothing is mounted.
LEMMA UmountDoneRestInv ==
  ASSUME MountInv, UmountDone, ~(pc = "umount" /\ kind = "direct")
  PROVE  MountInv'
<1> USE DEF Preparing, Releasing, Unmounting, Working
<1>1. Guest /\ UNCHANGED guest
  BY DEF MountInv, Shape, UmountDone
<1>2. /\ pc \in {"umount", "sweep", "release"} /\ todo = <<>> /\ (pc = "release" => kind = "direct")
      /\ (pc = "umount" => kind # "direct") /\ stage' = stage /\ ok' = ok /\ todo' = todo
      /\ pc' = (IF pc = "release" THEN "exit" ELSE IF stage = "finalize" THEN "postcheck" ELSE "close")
      /\ loop' = loop /\ open' = open /\ be' = be /\ failed' = failed
  BY DEF UmountDone, guest, kernel, record
<1>3. mnt' = mnt /\ GuestMounted' = GuestMounted
  BY DEF UmountDone, kernel, GuestMounted
<1>4. infos' = infos /\ root' = root /\ json' = json /\ Table' = Table
  BY DEF UmountDone, record, Table
<1>5. Range(mnt) \subseteq Range(todo) => mnt = <<>>
  <2>1. Range(todo) = {}
    BY <1>2 DEF Range
  <2>2. mnt \in Seq(Entries)
    BY DEF MountInv, Shape
  <2> QED BY <2>1, <2>2, SeqRange
<1>6. "umount" \notin failed /\ ~(TwiceMounted /\ shared) /\ pc # "release" => mnt = <<>>
  BY <1>2, <1>5 DEF MountInv, Shape, Unmounted
<1>7. Shape'
  BY <1>1, <1>2, <1>3, <1>4, ShapeStep DEF MountInv, Shape, InfosShape
<1>8. Places'
  BY <1>2 DEF MountInv, Places
<1>9. Early'
  BY <1>2, <1>3, <1>4 DEF MountInv, Early
<1>10. Infos'
  BY <1>1, <1>2, <1>3, <1>4, Fixed DEF MountInv, Infos, InInfos
<1>11. Kernel'
  BY <1>1, <1>2, <1>3, Fixed DEF MountInv, Kernel
<1>12. Pending'
  BY <1>2 DEF MountInv, Pending
<1>13. Handover'
  BY <1>1, <1>2, <1>3, <1>4, Fixed DEF MountInv, Handover, Handed, InInfos
<1>14. Records'
  BY <1>1, <1>2, <1>3, Fixed DEF MountInv, Places, Records
<1>15. Unmounted'
  BY <1>1, <1>2, <1>3, <1>6, Fixed DEF MountInv, Unmounted
<1>16. Clean'
  BY <1>1, <1>2, <1>4, Fixed DEF MountInv, Places, Clean
<1> QED BY <1>7, <1>8, <1>9, <1>10, <1>11, <1>12, <1>13, <1>14, <1>15, <1>16 DEF MountInv

\* With nothing mounted the mapper can be closed, unless a volume is on it.
LEMMA CloseCryptInv ==
  ASSUME MountInv, CloseCrypt
  PROVE  MountInv'
<1> USE DEF Preparing, Releasing, Unmounting, Working
<1>1. Guest /\ UNCHANGED guest
  BY DEF MountInv, Shape, CloseCrypt
<1>2. /\ pc = "close" /\ pc' = "deactivate" /\ stage' = stage /\ ok' = ok /\ todo' = todo
      /\ loop' \in {loop, "none"}
      /\ open' \subseteq open /\ open \subseteq open' \cup {"mapper"}
      /\ open' # open => ~InUse("mapper", mnt, open)
      /\ failed' \in {failed, failed \cup {"luksClose"}}
      /\ failed' = {} /\ "mapper" \in open' => InUse("mapper", mnt, open) \/ kind # "direct"
      /\ be' = [be EXCEPT !.maps = FALSE]
  <2>1. /\ pc = "close" /\ pc' = "deactivate" /\ stage' = stage /\ ok' = ok /\ todo' = todo
        /\ be' = [be EXCEPT !.maps = FALSE]
    BY DEF CloseCrypt
  <2>2. Loop(loop, mnt, open') \in {loop, "none"}
    BY DEF Loop
  <2>3. \/ /\ "mapper" \in open /\ ~InUse("mapper", mnt, open)
           /\ open' = open \ {"mapper"} /\ loop' = Loop(loop, mnt, open') /\ failed' = failed
        \/ open' = open /\ loop' = loop /\ failed' = failed \cup {"luksClose"} /\ "luksClose" \in failed'
        \/ /\ open' = open /\ loop' = loop /\ failed' = failed
           /\ "mapper" \notin open \/ InUse("mapper", mnt, open) \/ kind # "direct"
    BY DEF CloseCrypt, Fault
  <2>4. /\ "mapper" \notin open \ {"mapper"} /\ open \ {"mapper"} \subseteq open
        /\ open \subseteq (open \ {"mapper"}) \cup {"mapper"}
    OBVIOUS
  <2> QED BY <2>1, <2>2, <2>3, <2>4
<1>3. mnt' = mnt /\ GuestMounted' = GuestMounted
  BY DEF CloseCrypt, kernel, GuestMounted
<1>4. infos' = infos /\ root' = root /\ json' = json /\ Table' = Table
  BY DEF CloseCrypt, record, Table
<1>5. be' \in Backends /\ be'.mounts = be.mounts /\ be'.probes = be.probes /\ be'.disk = be.disk
  <2>1. be \in Backends
    BY DEF MountInv, Shape
  <2> QED BY <1>2, <2>1 DEF Backends
<1>6. \A e \in GuestMounted : Exists(e.dev, open')
  <2>1. SUFFICES ASSUME NEW e \in GuestMounted, open' # open
                 PROVE  e.dev # "mapper"
    BY <1>2 DEF MountInv, Kernel, Exists
  <2> QED BY <1>2, <2>1 DEF InUse, GuestMounted, Range
<1>7. failed' = {} /\ ~(TwiceMounted /\ shared) /\ kind = "direct" /\ layout # "lvm_on_luks" => "mapper" \notin open'
  <2>1. SUFFICES ASSUME failed' = {}, ~(TwiceMounted /\ shared), kind = "direct", layout # "lvm_on_luks"
                 PROVE  ~InUse("mapper", mnt, open)
    BY <1>2
  <2>2. mnt = <<>>
    BY <1>2, <2>1 DEF MountInv, Unmounted
  <2>3. \A e : On(e) # "mapper"
    BY <2>1 DEF On
  <2> QED BY <2>2, <2>3 DEF InUse
<1>8. Shape'
  BY <1>1, <1>2, <1>3, <1>4, <1>5, ShapeStep DEF MountInv, Shape, InfosShape, Commands
<1>9. Places'
  BY <1>2 DEF MountInv, Places
<1>10. Early'
  BY <1>2, <1>3, <1>4, <1>5 DEF MountInv, Early
<1>11. Infos'
  BY <1>1, <1>2, <1>3, <1>4, Fixed DEF MountInv, Infos, InInfos
<1>12. Kernel'
  BY <1>1, <1>2, <1>3, <1>6, Fixed DEF MountInv, Kernel, Exists
<1>13. Pending'
  BY <1>2 DEF MountInv, Pending
<1>14. Handover'
  BY <1>2, <1>4 DEF MountInv, Handover
<1>15. Records'
  BY <1>1, <1>2, Fixed DEF MountInv, Records
<1>16. Unmounted'
  BY <1>1, <1>2, <1>3, Fixed DEF MountInv, Unmounted
<1>17. Clean'
  BY <1>1, <1>2, <1>4, <1>7, Fixed DEF MountInv, Clean
<1> QED BY <1>8, <1>9, <1>10, <1>11, <1>12, <1>13, <1>14, <1>15, <1>16, <1>17 DEF MountInv

\* With the mapper closed and nothing mounted the volumes can go.
LEMMA DeactivateInv ==
  ASSUME MountInv, Deactivate
  PROVE  MountInv'
<1> USE DEF Preparing, Releasing, Unmounting, Working
<1>1. Guest /\ UNCHANGED guest
  BY DEF MountInv, Shape, Deactivate
<1>2. /\ pc = "deactivate" /\ pc' = "detach" /\ stage' = stage /\ ok' = ok /\ todo' = todo
      /\ loop' \in {loop, "none"}
      /\ open' \subseteq open /\ \A v \in open : v \notin open' => ~InUse(v, mnt, open)
      /\ failed' \in {failed, failed \cup {"vgchange"}}
      /\ failed' = {} /\ "lv" \in open' => InUse("lv", mnt, open)
      /\ be' = [be EXCEPT !.ldm = FALSE]
  <2>1. /\ pc = "deactivate" /\ pc' = "detach" /\ stage' = stage /\ ok' = ok /\ todo' = todo
        /\ be' = [be EXCEPT !.ldm = FALSE]
    BY DEF Deactivate
  <2>2. Loop(loop, mnt, open') \in {loop, "none"}
    BY DEF Loop
  <2> DEFINE gone == {v \in {"lv", "ldm"} : ~InUse(v, mnt, open) /\ (v = "ldm" => be.ldm)}
  <2>3. \/ open' = open \ gone /\ loop' = Loop(loop, mnt, open') /\ failed' = failed
        \/ open' = open /\ loop' = loop /\ failed' = failed \cup {"vgchange"} /\ "vgchange" \in failed'
    BY DEF Deactivate, Fault
  <2>4. (\A v \in gone : ~InUse(v, mnt, open)) /\ ("lv" \notin gone => InUse("lv", mnt, open))
    OBVIOUS
  <2> HIDE DEF gone
  <2> QED BY <2>1, <2>2, <2>3, <2>4
<1>3. mnt' = mnt /\ GuestMounted' = GuestMounted
  BY DEF Deactivate, kernel, GuestMounted
<1>4. infos' = infos /\ root' = root /\ json' = json /\ Table' = Table
  BY DEF Deactivate, record, Table
<1>5. be' \in Backends /\ be'.mounts = be.mounts /\ be'.probes = be.probes /\ be'.disk = be.disk
  <2>1. be \in Backends
    BY DEF MountInv, Shape
  <2> QED BY <1>2, <2>1 DEF Backends
<1>6. \A e \in GuestMounted : Exists(e.dev, open')
  <2>1. SUFFICES ASSUME NEW e \in GuestMounted, e.dev \in open, e.dev \notin open'
                 PROVE  FALSE
    BY <1>2 DEF MountInv, Kernel, Exists
  <2> QED BY <1>2, <2>1 DEF InUse, GuestMounted, Range
<1>7. failed' = {} /\ json /\ ~(TwiceMounted /\ shared) /\ kind = "direct" /\ layout # "lvm_on_luks" => open' = {}
  <2>1. SUFFICES ASSUME failed' = {}, json, ~(TwiceMounted /\ shared), kind = "direct", layout # "lvm_on_luks"
                 PROVE  open' = {}
    OBVIOUS
  <2>2. failed = {}
    BY <1>2, <2>1
  <2>3. /\ mnt = <<>> /\ "mapper" \notin open /\ "ldm" \notin open
        /\ open \subseteq {"mapper", "lv", "ldm"}
    BY <1>2, <2>1, <2>2 DEF MountInv, Shape, Volumes, Kernel, Unmounted, Clean
  <2>4. \A e : On(e) = "lv" => e = "mapper"
    BY DEF On
  <2>5. ~InUse("lv", mnt, open)
    BY <2>3, <2>4 DEF InUse
  <2> QED BY <1>2, <2>1, <2>3, <2>5
<1>8. Shape'
  BY <1>1, <1>2, <1>3, <1>4, <1>5, ShapeStep DEF MountInv, Shape, InfosShape, Commands
<1>9. Places'
  BY <1>2 DEF MountInv, Places
<1>10. Early'
  BY <1>2, <1>3, <1>4, <1>5 DEF MountInv, Early
<1>11. Infos'
  BY <1>1, <1>2, <1>3, <1>4, Fixed DEF MountInv, Infos, InInfos
<1>12. Kernel'
  BY <1>1, <1>2, <1>3, <1>6, Fixed DEF MountInv, Kernel, Exists
<1>13. Pending'
  BY <1>2 DEF MountInv, Pending
<1>14. Handover'
  BY <1>2, <1>4 DEF MountInv, Handover
<1>15. Records'
  BY <1>1, <1>2, Fixed DEF MountInv, Records
<1>16. Unmounted'
  BY <1>1, <1>2, <1>3, Fixed DEF MountInv, Unmounted
<1>17. Clean'
  BY <1>1, <1>2, <1>4, <1>7, Fixed DEF MountInv, Clean
<1> QED BY <1>8, <1>9, <1>10, <1>11, <1>12, <1>13, <1>14, <1>15, <1>16, <1>17 DEF MountInv

\* With no volume on it the loop device goes at once.
LEMMA DetachInv ==
  ASSUME MountInv, Detach
  PROVE  MountInv'
<1> USE DEF Preparing, Releasing, Unmounting, Working
<1>1. Guest /\ UNCHANGED guest
  BY DEF MountInv, Shape, Detach
<1>2. /\ pc = "detach" /\ stage' = stage /\ todo' = todo /\ be' = New
      /\ loop' \in {"none", "lazy", loop} /\ open' \subseteq open /\ (mnt' = mnt \/ mnt' = <<>>)
      /\ (mnt' = mnt => open' = open \/ mnt = <<>>)
      /\ kind = "direct" /\ be.disk /\ failed' = {} => loop' = Loop("lazy", mnt, open)
      /\ failed' \in {failed, failed \cup {"losetup"}}
      /\ \/ stage = "finalize" /\ pc' = "over" /\ ok' = ok
         \/ stage = "finalize" /\ pc' = "exit" /\ ok' = FALSE
         \/ stage = "prepare" /\ pc' = "exit" /\ ok' = ok
         \/ stage = "cleanup" /\ pc' = "over" /\ ok' = ok
  <2>1. Loop("lazy", mnt, open) \in {"lazy", "none"}
    BY DEF Loop
  <2>2. /\ loop' \in {"none", "lazy", loop} /\ (mnt' = mnt \/ mnt' = <<>>)
        /\ open' \in {open, {}} /\ (mnt' = mnt => open' = open \/ mnt = <<>>)
        /\ kind = "direct" /\ be.disk /\ failed' = {} => loop' = Loop("lazy", mnt, open)
        /\ failed' \in {failed, failed \cup {"losetup"}}
    BY <2>1 DEF Detach, kernel, Fault
  <2> QED BY <2>2 DEF Detach
<1>3. infos' = infos /\ root' = root /\ json' = json /\ Table' = Table
  BY DEF Detach, record, Table
<1>4. be' \in Backends /\ be'.mounts = <<>> /\ be'.probes = <<>>
  BY <1>2, BackendFacts
<1>5. /\ mnt' \in Seq(Entries) /\ Single(mnt', Paths)
      /\ ("umount" \notin failed => Single(mnt', Everywhere))
      /\ Range(mnt') \subseteq Range(mnt) /\ (Range(mnt') = {} \/ open' = open)
  <2>1. /\ mnt \in Seq(Entries) /\ Single(mnt, Paths)
        /\ ("umount" \notin failed => Single(mnt, Everywhere))
    BY DEF MountInv, Shape, Kernel
  <2>2. Single(<<>>, Paths) /\ Single(<<>>, Everywhere) /\ Range(<<>>) = {}
    BY DEF Single, Range
  <2> QED BY <1>2, <2>1, <2>2, ProbesAreEntries
<1>6. GuestMounted' \subseteq GuestMounted /\ (GuestMounted' = {} \/ open' = open)
  BY <1>5 DEF GuestMounted
<1>7. pc' = "over" /\ failed' = {} /\ json /\ ~(TwiceMounted /\ shared) =>
        mnt' = <<>> /\ (kind = "direct" /\ layout # "lvm_on_luks" => open' = {} /\ loop' = "none")
  <2>1. SUFFICES ASSUME pc' = "over", failed' = {}, json, ~(TwiceMounted /\ shared)
                 PROVE  mnt' = <<>> /\ (kind = "direct" /\ layout # "lvm_on_luks" => open' = {} /\ loop' = "none")
    OBVIOUS
  <2>2. mnt = <<>> /\ failed = {}
    BY <1>2, <2>1 DEF MountInv, Unmounted
  <2>3. ASSUME kind = "direct", layout # "lvm_on_luks"
        PROVE  open' = {} /\ loop' = "none"
    <3>1. open = {} /\ be.disk
      BY <1>2, <2>1, <2>2, <2>3 DEF MountInv, Clean
    <3>2. Loop("lazy", mnt, open) = "none"
      BY <2>2, <3>1 DEF Loop, InUse
    <3> QED BY <1>2, <2>1, <2>3, <3>1, <3>2
  <2> QED BY <1>2, <2>2, <2>3
<1>8. Shape'
  BY <1>1, <1>2, <1>3, <1>4, <1>5, ShapeStep DEF MountInv, Shape, InfosShape, Commands
<1>9. Places'
  BY <1>2 DEF MountInv, Places
<1>10. Early'
  BY <1>2 DEF MountInv, Early
<1>11. Infos'
  BY <1>1, <1>2, <1>3, <1>6, Fixed DEF MountInv, Infos, InInfos
<1>12. Kernel'
  BY <1>1, <1>2, <1>5, <1>6, Fixed DEF MountInv, Kernel, Exists
<1>13. Pending'
  BY <1>2 DEF MountInv, Pending
<1>14. Handover'
  BY <1>2, <1>3 DEF MountInv, Places, Handover
<1>15. Records'
  BY <1>2, <1>4 DEF MountInv, Records
<1>16. Unmounted'
  BY <1>2 DEF MountInv, Unmounted
<1>17. Clean'
  BY <1>1, <1>2, <1>3, <1>7, Fixed DEF MountInv, Clean
<1> QED BY <1>8, <1>9, <1>10, <1>11, <1>12, <1>13, <1>14, <1>15, <1>16, <1>17 DEF MountInv

\* A remount puts the next entry under what is mounted, and records it.
LEMMA MountInApplianceInv ==
  ASSUME MountInv, Mount, pc = "remount"
  PROVE  MountInv'
<1> USE DEF Preparing, Releasing, Unmounting, Working
<1>1. Guest /\ UNCHANGED guest
  BY DEF MountInv, Shape, Mount
<1>2. /\ pc = "remount" /\ todo # <<>> /\ Exists(Head(todo).dev, open) /\ pc' = pc /\ stage' = stage
      /\ ok' = ok
      /\ mnt' = Append(mnt, Head(todo))
      /\ be' = [be EXCEPT !.mounts = Append(be.mounts, Head(todo))]
      /\ todo' = Tail(todo) /\ loop' = loop /\ open' = open /\ failed' = failed
  BY DEF Mount, guest, kernel, record
<1>3. infos' = infos /\ root' = root /\ json' = json /\ Table' = Table
  BY DEF Mount, record, Table
<1>4. /\ todo \in Seq(PreparedTable) /\ Head(todo) \in PreparedTable
      /\ Tail(todo) \in Seq(PreparedTable)
      /\ Range(todo) = {Head(todo)} \cup Range(Tail(todo)) /\ Head(todo) \in Entries
      /\ Head(todo).at \in Paths /\ Head(todo).at # Probe /\ Head(todo).dev # "virtual"
      /\ Head(todo) # Virtual
      /\ Single(Tail(todo), Paths) /\ \A f \in Range(Tail(todo)) : f.at # Head(todo).at
      /\ \A e \in Range(mnt), f \in Range(todo) : e.at # f.at
  <2>1. /\ todo \in Seq(PreparedTable) /\ Single(todo, Paths)
        /\ \A e \in Range(mnt), f \in Range(todo) : e.at # f.at
    BY <1>2 DEF MountInv, Pending
  <2>2. /\ Head(todo) \in PreparedTable /\ Tail(todo) \in Seq(PreparedTable)
        /\ Range(todo) = {Head(todo)} \cup Range(Tail(todo))
    BY <1>2, <2>1, SeqRange
  <2>3. /\ Head(todo).at \in Paths /\ Head(todo).at # Probe /\ Head(todo).dev # "virtual"
        /\ Head(todo) # Virtual
    BY <1>1, <2>2, MountedFacts
  <2>4. Single(Tail(todo), Paths) /\ \A f \in Range(Tail(todo)) : f.at # Head(todo).at
    BY <1>2, <2>1, <2>3, TailOrder
  <2> QED BY <2>1, <2>2, <2>3, <2>4 DEF Entries
<1>5. /\ mnt' \in Seq(Entries) /\ Range(mnt') = Range(mnt) \cup {Head(todo)}
      /\ GuestMounted' = GuestMounted \cup {Head(todo)}
      /\ Single(mnt', Paths) /\ ("umount" \notin failed => Single(mnt', Everywhere))
      /\ GuestMounted \subseteq PreparedTable /\ GuestMounted \subseteq Range(mnt)
  <2>1. /\ mnt \in Seq(Entries) /\ Single(mnt, Paths)
        /\ ("umount" \notin failed => Single(mnt, Everywhere))
    BY DEF MountInv, Shape, Kernel
  <2>2. mnt' \in Seq(Entries) /\ Range(mnt') = Range(mnt) \cup {Head(todo)}
    BY <1>2, <1>4, <2>1, SeqRange
  <2>3. GuestMounted' = GuestMounted \cup {Head(todo)}
    BY <1>4, <2>2 DEF GuestMounted
  <2>4. \A f \in Range(mnt) : f.at # Head(todo).at
    BY <1>4
  <2>5. Single(mnt', Paths) /\ ("umount" \notin failed => Single(mnt', Everywhere))
    BY <1>2, <1>4, <2>1, <2>4, PutOn
  <2>6. GuestMounted = Range(mnt) \cap PreparedTable
    BY <1>1, <2>1, MountedFacts DEF GuestMounted
  <2> QED BY <2>2, <2>3, <2>5, <2>6
<1>6. /\ be' \in Backends /\ be'.probes = be.probes /\ be'.mounts = Append(be.mounts, Head(todo))
      /\ Range(be'.mounts) = Range(be.mounts) \cup {Head(todo)}
  <2> DEFINE s == Append(be.mounts, Head(todo))
  <2>1. be \in Backends
    BY DEF MountInv, Shape
  <2>2. s \in Seq(PreparedTable) /\ Range(s) = Range(be.mounts) \cup {Head(todo)}
    BY <1>4, <2>1, BackendFacts, SeqRange
  <2>3. be' = [be EXCEPT !.mounts = s]
    BY <1>2
  <2> HIDE DEF s
  <2>4. be' \in Backends /\ be'.mounts = s /\ be'.probes = be.probes
    BY <2>1, <2>2, <2>3 DEF Backends
  <2> QED BY <2>2, <2>4 DEF s

<1>7. /\ mnt' \in Seq(PreparedTable) /\ be'.mounts = mnt' /\ ParentsFirst(mnt')
      /\ ParentsFirst(todo')
      /\ \A e \in Range(mnt'), f \in Range(todo') : ~Above(f.at, e.at)
      /\ SystemRoot \in Range(mnt')
  <2>1. /\ mnt \in Seq(PreparedTable) /\ be.mounts = mnt /\ ParentsFirst(mnt) /\ ParentsFirst(todo)
        /\ \A e \in Range(mnt), f \in Range(todo) : ~Above(f.at, e.at)
        /\ mnt = <<>> => Head(todo) = SystemRoot
        /\ mnt # <<>> => SystemRoot \in Range(mnt)
    BY <1>2 DEF MountInv, Pending
  <2>2. mnt' \in Seq(PreparedTable) /\ be'.mounts = mnt'
    BY <1>2, <1>4, <1>6, <2>1, SeqRange
  <2>3. ParentsFirst(mnt')
    BY <1>2, <1>4, <2>1, AppendOrder
  <2>4. ParentsFirst(todo') /\ \A f \in Range(todo') : ~Above(f.at, Head(todo).at)
    BY <1>2, <1>4, <2>1, TailOrder
  <2> QED BY <1>2, <1>4, <1>5, <2>1, <2>2, <2>3, <2>4
<1>8. InInfos(Head(todo))
  <2>1. Head(todo) \in Table /\ json
    BY <1>2, <1>4 DEF MountInv, Pending, Places, Handover
  <2> QED BY <1>1, <2>1, InfosFacts DEF MountInv, Shape, Infos
<1>9. todo' \in Seq(Entries)
  BY <1>2, <1>4, ProbesAreEntries
<1>10. Shape'
  BY <1>1, <1>2, <1>3, <1>5, <1>6, <1>9, ShapeStep DEF MountInv, Shape, InfosShape
<1>11. Places'
  BY <1>1, <1>2, Fixed DEF MountInv, Places
<1>12. Early'
  BY <1>2 DEF MountInv, Places, Early
<1>13. Infos'
  BY <1>1, <1>2, <1>3, <1>5, <1>8, Fixed DEF MountInv, Infos, InInfos
<1>14. Kernel'
  BY <1>1, <1>2, <1>3, <1>4, <1>5, Fixed DEF MountInv, Kernel, Exists
<1>15. Pending'
  <2>1. todo' \in Seq(PreparedTable) /\ Single(todo', Paths) /\ \A e \in Range(mnt'), f \in Range(todo') : e.at # f.at
    BY <1>2, <1>4, <1>5
  <2>2. Range(mnt') \cup Range(todo') = Table
    BY <1>2, <1>4, <1>5 DEF MountInv, Pending
  <2>3. mnt' # <<>>
    BY <1>7 DEF Range
  <2> QED BY <1>1, <1>2, <1>3, <1>7, <2>1, <2>2, <2>3, Fixed DEF Pending
<1>16. Handover'
  BY <1>1, <1>2, <1>3, Fixed DEF MountInv, Places, Handover, Handed, InInfos
<1>17. Records'
  BY <1>1, <1>2, <1>3, <1>5, <1>6, Fixed DEF MountInv, Places, Records
<1>18. Unmounted'
  BY <1>2 DEF MountInv, Unmounted
<1>19. Clean'
  BY <1>1, <1>2, <1>3, Fixed DEF MountInv, Clean
<1> QED BY <1>10, <1>11, <1>12, <1>13, <1>14, <1>15, <1>16, <1>17, <1>18, <1>19 DEF MountInv

\* A mount of prepare goes into the kernel's table, the record and the disk
\* infos, where it can push out only the same device's other mount point.
LEMMA MountInPrepareInv ==
  ASSUME MountInv, Mount, pc = "mount"
  PROVE  MountInv'
<1> USE DEF Preparing, Releasing, Unmounting, Working
<1>1. Guest /\ UNCHANGED guest
  BY DEF MountInv, Shape, Mount
<1>2. /\ pc = "mount" /\ todo # <<>> /\ Exists(Head(todo).dev, open) /\ pc' = pc /\ stage' = stage
      /\ ok' = ok
      /\ mnt' = Append(mnt, Head(todo))
      /\ be' = [be EXCEPT !.mounts = Append(be.mounts, Head(todo))]
      /\ infos' = UpdateMountPoint(infos, Head(todo).dev, Head(todo).at) /\ json' = json
      /\ root' = root
      /\ IF Head(todo).at = "/" THEN todo' \in SortSpecs(Planned) ELSE todo' = Tail(todo)
      /\ loop' = loop /\ open' = open /\ failed' = failed
  BY DEF Mount, guest, kernel, record
<1>3. /\ todo \in Seq(PreparedTable) /\ Head(todo) \in PreparedTable
      /\ Tail(todo) \in Seq(PreparedTable)
      /\ Range(todo) = {Head(todo)} \cup Range(Tail(todo)) /\ Head(todo) \in Entries
      /\ Head(todo).at \in Paths /\ Head(todo).at # Probe /\ Head(todo).dev # "virtual"
      /\ Head(todo) # Virtual
      /\ Single(Tail(todo), Paths) /\ \A f \in Range(Tail(todo)) : f.at # Head(todo).at
      /\ \A e \in Range(mnt), f \in Range(todo) : e.at # f.at
  <2>1. /\ todo \in Seq(PreparedTable) /\ Single(todo, Paths)
        /\ \A e \in Range(mnt), f \in Range(todo) : e.at # f.at
    BY <1>2 DEF MountInv, Pending
  <2>2. /\ Head(todo) \in PreparedTable /\ Tail(todo) \in Seq(PreparedTable)
        /\ Range(todo) = {Head(todo)} \cup Range(Tail(todo))
    BY <1>2, <2>1, SeqRange
  <2>3. /\ Head(todo).at \in Paths /\ Head(todo).at # Probe /\ Head(todo).dev # "virtual"
        /\ Head(todo) # Virtual
    BY <1>1, <2>2, MountedFacts
  <2>4. Single(Tail(todo), Paths) /\ \A f \in Range(Tail(todo)) : f.at # Head(todo).at
    BY <1>2, <2>1, <2>3, TailOrder
  <2> QED BY <2>1, <2>2, <2>3, <2>4 DEF Entries
<1>4. /\ mnt' \in Seq(Entries) /\ Range(mnt') = Range(mnt) \cup {Head(todo)}
      /\ GuestMounted' = GuestMounted \cup {Head(todo)}
      /\ Single(mnt', Paths) /\ ("umount" \notin failed => Single(mnt', Everywhere))
      /\ GuestMounted \subseteq PreparedTable /\ GuestMounted \subseteq Range(mnt)
  <2>1. /\ mnt \in Seq(Entries) /\ Single(mnt, Paths)
        /\ ("umount" \notin failed => Single(mnt, Everywhere))
    BY DEF MountInv, Shape, Kernel
  <2>2. mnt' \in Seq(Entries) /\ Range(mnt') = Range(mnt) \cup {Head(todo)}
    BY <1>2, <1>3, <2>1, SeqRange
  <2>3. GuestMounted' = GuestMounted \cup {Head(todo)}
    BY <1>3, <2>2 DEF GuestMounted
  <2>4. \A f \in Range(mnt) : f.at # Head(todo).at
    BY <1>3
  <2>5. Single(mnt', Paths) /\ ("umount" \notin failed => Single(mnt', Everywhere))
    BY <1>2, <1>3, <2>1, <2>4, PutOn
  <2>6. GuestMounted = Range(mnt) \cap PreparedTable
    BY <1>1, <2>1, MountedFacts DEF GuestMounted
  <2> QED BY <2>2, <2>3, <2>5, <2>6
<1>5. /\ be' \in Backends /\ be'.probes = be.probes /\ be'.mounts = Append(be.mounts, Head(todo))
      /\ Range(be'.mounts) = Range(be.mounts) \cup {Head(todo)}
  <2> DEFINE s == Append(be.mounts, Head(todo))
  <2>1. be \in Backends
    BY DEF MountInv, Shape
  <2>2. s \in Seq(PreparedTable) /\ Range(s) = Range(be.mounts) \cup {Head(todo)}
    BY <1>3, <2>1, BackendFacts, SeqRange
  <2>3. be' = [be EXCEPT !.mounts = s]
    BY <1>2
  <2> HIDE DEF s
  <2>4. be' \in Backends /\ be'.mounts = s /\ be'.probes = be.probes
    BY <2>1, <2>2, <2>3 DEF Backends
  <2> QED BY <2>2, <2>4 DEF s

<1>6. /\ root = System /\ SystemRoot \in PreparedTable /\ PreparedTable = {SystemRoot} \cup Planned
      /\ SystemRoot \notin Planned
      /\ \/ /\ Head(todo) = SystemRoot /\ GuestMounted = {} /\ \A d \in DOMAIN infos : infos[d] = ""
            /\ todo' \in SortSpecs(Planned)
         \/ /\ Head(todo) # SystemRoot /\ SystemRoot \in GuestMounted /\ InInfos(SystemRoot) /\ todo' = Tail(todo)
            /\ GuestMounted \cup Range(todo) = PreparedTable /\ SystemRoot \notin Range(todo)
  <2>1. /\ root = System
        /\ \/ todo = <<SystemRoot>> /\ GuestMounted = {} /\ \A d \in DOMAIN infos : infos[d] = ""
           \/ GuestMounted \cup Range(todo) = PreparedTable /\ SystemRoot \notin Range(todo)
    BY <1>2 DEF MountInv, Pending
  <2>2. PreparedTable = {SystemRoot} \cup Planned /\ SystemRoot \in PreparedTable
    BY DEF PreparedTable, SystemRoot
  <2>3. Head(todo).at = "/" <=> Head(todo) = SystemRoot
    BY <1>1, <1>3, TableFacts
  <2>4. SystemRoot \notin Planned
    BY <1>1, PlannedFacts
  <2>5. SystemRoot \in GuestMounted => InInfos(SystemRoot)
    BY DEF MountInv, Infos
  <2>6. CASE todo = <<SystemRoot>> /\ GuestMounted = {} /\ \A d \in DOMAIN infos : infos[d] = ""
    <3>1. Head(todo) = SystemRoot
      <4>1. Head(<<SystemRoot>>) = SystemRoot
        OBVIOUS
      <4> QED BY <2>6, <4>1
    <3> QED BY <1>2, <2>1, <2>2, <2>3, <2>4, <2>6, <3>1
  <2>7. CASE GuestMounted \cup Range(todo) = PreparedTable /\ SystemRoot \notin Range(todo)
    <3>1. Head(todo) # SystemRoot
      BY <1>3, <2>7
    <3> QED BY <1>2, <2>1, <2>2, <2>3, <2>4, <2>5, <2>7, <3>1
  <2> QED BY <2>1, <2>6, <2>7
<1>7. /\ todo' \in Seq(PreparedTable) /\ todo' \in Seq(Entries) /\ Single(todo', Paths)
      /\ GuestMounted' \cup Range(todo') = PreparedTable /\ SystemRoot \notin Range(todo')
      /\ \A e \in Range(mnt'), f \in Range(todo') : e.at # f.at
  <2>1. CASE Head(todo) = SystemRoot /\ GuestMounted = {} /\ todo' \in SortSpecs(Planned)
    <3>1. todo' \in OrdersBy(Length, Planned) /\ Planned \subseteq PreparedTable
      BY <1>6, <2>1 DEF SortSpecs
    <3>2. todo' \in Seq(PreparedTable) /\ Single(todo', Paths) /\ Range(todo') = Planned
      BY <1>1, <3>1, OrderFacts
    <3>3. \A e \in Range(mnt), f \in PreparedTable : e.at # f.at
      <4>1. mnt \in Seq(Entries)
        BY DEF MountInv, Shape
      <4>2. Range(mnt) \subseteq Entries /\ Range(mnt) \cap PreparedTable = {}
        BY <1>1, <2>1, <4>1, SeqRange, MountedFacts DEF GuestMounted
      <4> QED BY <1>1, <4>2, MountedFacts
    <3>4. \A f \in Planned : f.at # Head(todo).at
      BY <1>1, <1>6, <2>1, TableFacts
    <3> QED BY <1>4, <1>6, <2>1, <3>2, <3>3, <3>4, ProbesAreEntries
  <2>2. CASE Head(todo) # SystemRoot /\ todo' = Tail(todo) /\ GuestMounted \cup Range(todo) = PreparedTable /\ SystemRoot \notin Range(todo)
    BY <1>3, <1>4, <2>2, ProbesAreEntries
  <2> QED BY <1>6, <2>1, <2>2
<1>8. /\ DOMAIN infos' = DOMAIN infos \cup {Head(todo).dev}
       /\ \A d \in DOMAIN infos' : infos'[d] = IF d = Head(todo).dev THEN Head(todo).at ELSE infos[d]
  BY <1>2 DEF UpdateMountPoint
<1>9. \A e \in PreparedTable :
         e = Head(todo) \/ e = SystemRoot \/ (InInfos(e) /\ e.dev # Head(todo).dev) => InInfos(e)'
  <2>1. \A e \in PreparedTable : e = Head(todo) \/ (InInfos(e) /\ e.dev # Head(todo).dev) => InInfos(e)'
    BY <1>8 DEF InInfos
  <2>2. Head(todo) # SystemRoot => InInfos(SystemRoot) /\ SystemRoot.dev # Head(todo).dev
    BY <1>1, <1>3, <1>6, TableFacts
  <2> QED BY <2>1, <2>2
<1>10. Shape'
  <2>1. InfosShape'
    <3>1. Head(todo).dev \in Partitions \cup Volumes
      BY <1>1, <1>3, TableFacts
    <3>2. /\ InfosShape
          /\ infos' = [d \in DOMAIN infos \cup {Head(todo).dev} |-> IF d = Head(todo).dev THEN Head(todo).at ELSE infos[d]]
      BY <1>2 DEF MountInv, Shape, UpdateMountPoint
    <3> QED BY <1>3, <1>8, <3>1, <3>2 DEF InfosShape
  <2> QED BY <1>1, <1>2, <1>4, <1>5, <1>7, <2>1, ShapeStep DEF MountInv, Shape
<1>11. Places'
  BY <1>2 DEF MountInv, Places
<1>12. Early'
  BY <1>2 DEF MountInv, Early
<1>13. Infos'
  <2>1. ASSUME NEW d \in DOMAIN infos', infos'[d] # ""
        PROVE  Entry(d, infos'[d]) \in PreparedTable
    <3>1. CASE d = Head(todo).dev
      BY <1>1, <1>3, <1>8, <3>1, TableFacts
    <3>2. CASE d # Head(todo).dev
      BY <1>8, <2>1, <3>2 DEF MountInv, Infos
    <3> QED BY <3>1, <3>2
  <2>2. ASSUME NEW e \in GuestMounted', ~TwiceMounted \/ e = SystemRoot
        PROVE  InInfos(e)'
    <3>1. CASE e = Head(todo)
      BY <1>3, <1>9, <3>1
    <3>2. CASE e = SystemRoot
      BY <1>6, <1>9, <3>2
    <3>3. CASE e # Head(todo) /\ e # SystemRoot
      <4>1. e \in GuestMounted /\ e \in Planned /\ ~TwiceMounted /\ InInfos(e)
        BY <1>4, <1>6, <2>2, <3>3 DEF MountInv, Infos
      <4>2. e.dev # Head(todo).dev
        BY <1>1, <1>3, <1>6, <3>3, <4>1, TableFacts DEF TwiceMounted
      <4> QED BY <1>6, <1>9, <4>1, <4>2
    <3> QED BY <3>1, <3>2, <3>3
  <2>3. InInfos(SystemRoot)'
    <3>1. InInfos(SystemRoot)' <=> SystemRoot.dev \in DOMAIN infos' /\ infos'[SystemRoot.dev] = SystemRoot.at
      BY <1>1, Fixed DEF InInfos
    <3>2. \A e \in PreparedTable : InInfos(e)' <=> e.dev \in DOMAIN infos' /\ infos'[e.dev] = e.at
      BY DEF InInfos
    <3> QED BY <1>6, <1>9, <3>1, <3>2
  <2> QED BY <1>1, <2>1, <2>2, <2>3, Fixed DEF Infos
<1>14. Kernel'
  BY <1>1, <1>2, <1>3, <1>4, Fixed DEF MountInv, Kernel, Exists
<1>15. Pending'
  BY <1>1, <1>2, <1>6, <1>7, Fixed DEF Pending
<1>16. Handover'
  BY <1>2 DEF MountInv, Handover
<1>17. Records'
  BY <1>1, <1>2, <1>3, <1>4, <1>5, Fixed DEF MountInv, Places, Records
<1>18. Unmounted'
  BY <1>2 DEF MountInv, Unmounted
<1>19. Clean'
  BY <1>1, <1>2, Fixed DEF MountInv, Clean
<1> QED BY <1>10, <1>11, <1>12, <1>13, <1>14, <1>15, <1>16, <1>17, <1>18, <1>19 DEF MountInv

\* A step that changes nothing
LEMMA StutterInv ==
  ASSUME MountInv, UNCHANGED vars
  PROVE  MountInv'
<1> USE DEF Preparing, Releasing, Unmounting, Working
<1>1. Guest /\ UNCHANGED guest
  BY DEF MountInv, Shape, vars, guest
<1>2. /\ pc' = pc /\ stage' = stage /\ ok' = ok /\ todo' = todo
      /\ loop' = loop /\ open' = open /\ failed' = failed /\ be' = be
  BY DEF vars, guest, kernel, record
<1>3. mnt' = mnt /\ GuestMounted' = GuestMounted
  BY DEF vars, guest, kernel, GuestMounted
<1>4. infos' = infos /\ root' = root /\ json' = json /\ Table' = Table
  BY DEF vars, guest, record, Table
<1>5. Shape'
  BY <1>1, <1>2, <1>3, <1>4, ShapeStep DEF MountInv, Shape, InfosShape
<1>6. Places'
  BY <1>1, <1>2, Fixed DEF MountInv, Places
<1>7. Early'
  BY <1>2, <1>3, <1>4 DEF MountInv, Early
<1>8. Infos'
  BY <1>1, <1>2, <1>3, <1>4, Fixed DEF MountInv, Infos, InInfos
<1>9. Kernel'
  BY <1>1, <1>2, <1>3, Fixed DEF MountInv, Kernel
<1>10. Pending'
  BY <1>1, <1>2, <1>3, <1>4, Fixed DEF MountInv, Pending
<1>11. Handover'
  BY <1>1, <1>2, <1>3, <1>4, Fixed DEF MountInv, Handover, Handed, InInfos
<1>12. Records'
  BY <1>1, <1>2, <1>3, Fixed DEF MountInv, Records
<1>13. Unmounted'
  BY <1>1, <1>2, <1>3, Fixed DEF MountInv, Unmounted
<1>14. Clean'
  BY <1>1, <1>2, <1>3, <1>4, Fixed DEF MountInv, Clean
<1> QED BY <1>5, <1>6, <1>7, <1>8, <1>9, <1>10, <1>11, <1>12, <1>13, <1>14 DEF MountInv

-----------------------------------------------------------------------------
(* The theorems *)

\* Every initial state has the invariant.
LEMMA InitInv ==
  ASSUME Init
  PROVE  MountInv
<1> USE DEF Preparing, Releasing, Unmounting, Working
<1>1. /\ Guest /\ stage = "prepare" /\ pc = "setup" /\ mnt = <<>> /\ open = {} /\ loop = "none"
      /\ be = New /\ ~json
  BY DEF Init, Guest
<1>2. infos = [d \in Partitions |-> ""] /\ failed = {} /\ ok = TRUE /\ todo = <<>> /\ root = ""
  BY DEF Init
<1>3. be \in Backends /\ be.mounts = <<>> /\ be.probes = <<>> /\ <<>> \in Seq(Entries)
  BY <1>1, BackendFacts, ProbesAreEntries
<1>4. Range(mnt) = {} /\ GuestMounted = {} /\ Single(mnt, Paths) /\ Single(mnt, Everywhere)
  BY <1>1 DEF Range, GuestMounted, Single
<1>5. Shape
  <2>1. /\ kind \in {"direct", "qemu"} /\ shared \in BOOLEAN /\ (shared => kind = "qemu")
        /\ json \in BOOLEAN
    BY DEF Init
  <2>2. InfosShape
    BY <1>2 DEF InfosShape
  <2> QED BY <1>1, <1>2, <1>3, <2>1, <2>2 DEF Shape
<1>6. Places
  BY <1>1, <1>2 DEF Places
<1>7. Early
  BY <1>1, <1>2, <1>3, <1>4 DEF Early
<1>8. Infos
  BY <1>1, <1>2, <1>4 DEF Infos
<1>9. Kernel
  BY <1>1, <1>4 DEF Kernel
<1>10. Pending /\ Handover /\ Unmounted
  BY <1>1, <1>2 DEF Pending, Handover, Unmounted
<1>11. Records /\ Clean
  BY <1>1, <1>4 DEF Records, Clean
<1> QED BY <1>5, <1>6, <1>7, <1>8, <1>9, <1>10, <1>11 DEF MountInv

\* An umount, by what it answers
LEMMA UmountInv ==
  ASSUME MountInv, Umount
  PROVE  MountInv'
<1>1. CASE /\ CanUmount(Head(todo)) /\ UNCHANGED failed
           /\ mnt' = RemoveAt(mnt, Max(At(Head(todo)))) /\ loop' = Loop(loop, mnt', open)
           /\ be' = [be EXCEPT !.mounts = Without(@, Head(todo))]
  BY <1>1, UmountDoesInv
<1>2. CASE ~CanUmount(Head(todo)) /\ UNCHANGED <<mnt, loop, be, failed>>
  BY <1>2, UmountSkipsInv
<1>3. CASE CanUmount(Head(todo)) /\ Fault("umount") /\ UNCHANGED <<mnt, loop, be>>
  BY <1>3, UmountSkipsInv
<1> QED BY <1>1, <1>2, <1>3 DEF Umount

\* Every step keeps the invariant.
LEMMA NextInv ==
  ASSUME MountInv, [Next]_vars
  PROVE  MountInv'
<1>1. CASE SetupDisks \/ SetupFails \/ NoKeys \/ RescanBlock
  BY <1>1, SetupDisksInv, SetupFailsInv, NoKeysInv, RescanBlockInv
<1>2. CASE Decrypt \/ UnlockClevis \/ DecryptBitLocker
  BY <1>2, UnlockInv DEF Decrypt, UnlockClevis, DecryptBitLocker
<1>3. CASE FSCheck
  <2>1. pc = "precheck" \/ pc = "postcheck"
    BY <1>3 DEF FSCheck
  <2> QED BY <1>3, <2>1, PreCheckInv, PostCheckInv
<1>4. CASE ProbeMount \/ ProbeUnmount \/ Select \/ Prepared \/ Release
  BY <1>4, ProbeMountInv, ProbeUnmountInv, SelectInv, PreparedInv, ReleaseInv
<1>5. CASE Mount \/ MountFails
  <2>1. pc = "mount" \/ pc = "remount"
    BY <1>5 DEF Mount, MountFails
  <2> QED
    BY <1>5, <2>1, MountInPrepareInv, MountInApplianceInv, MountFailsInPrepareInv,
       MountFailsInApplianceInv
<1>6. CASE NextStage \/ AttachFails \/ Remounted \/ Converted
  BY <1>6, NextStageInv, AttachFailsInv, RemountedInv, ConvertedInv
<1>7. CASE Attach
  <2>1. kind = "direct" \/ shared \/ (kind = "qemu" /\ ~shared)
    BY DEF MountInv, Shape
  <2> QED BY <1>7, <2>1, AttachDirectInv, AttachSharedInv, AttachFreshInv
<1>8. CASE MountVirtualFS \/ UnmountVirtualFS
  BY <1>8, MountVirtualFSInv, UnmountVirtualFSInv
<1>9. CASE UnmountFilesystems
  <2>1. kind = "direct" \/ kind = "qemu"
    BY DEF MountInv, Shape
  <2> QED BY <1>9, <2>1, UnmountDirectInv, UnmountApplianceInv
<1>10. CASE Umount
  BY <1>10, UmountInv
<1>11. CASE UmountDone \/ TeardownMountRoot
  BY <1>11, UmountDoneSweepInv, UmountDoneRestInv, SweepMountRootInv, LeaveMountRootInv
<1>12. CASE CloseCrypt \/ Deactivate \/ Detach
  BY <1>12, CloseCryptInv, DeactivateInv, DetachInv
<1>13. CASE Terminating \/ UNCHANGED vars
  BY <1>13, StutterInv DEF Terminating
<1> QED
  BY <1>1, <1>2, <1>3, <1>4, <1>5, <1>6, <1>7, <1>8, <1>9, <1>10, <1>11, <1>12, <1>13 DEF Next

\* The three tables agree at every place of every stage, under both backends,
\* whichever commands fail (prepare.Run, NewMounted, UnmountFilesystems,
\* ReleaseDevices).
THEOREM MountInvariant == Spec => []MountInv
<1>1. Init => MountInv
  BY InitInv
<1>2. MountInv /\ [Next]_vars => MountInv'
  BY NextInv
<1> QED BY <1>1, <1>2, PTL DEF Spec

\* A converter and finalize work on exactly the filesystems prepare mounted,
\* found mounted or mounted again from the disk infos by NewMounted and
\* remountFromDiskInfos: prepare records every mount it makes (Infos), hands them
\* over only when all are made (Handover), and a fresh appliance that cannot
\* mount one of them gives up (Pending).
THEOREM AttachedSeesTable == Spec => []AttachedSeesPreparedTable
<1>1. ASSUME MountInv
      PROVE  AttachedSeesPreparedTable
  <2>1. SUFFICES ASSUME pc \in {"work", "chroot"}, ~(TwiceMounted /\ kind = "qemu" /\ ~shared)
                 PROVE  GuestMounted = PreparedTable
    BY DEF AttachedSeesPreparedTable
  <2>2. Handed
    BY <1>1, <2>1 DEF MountInv, Places, Handover, Preparing, Unmounting, Releasing, Working
  <2>3. CASE kind = "direct" \/ shared
    BY <2>2, <2>3 DEF Handed
  <2>4. CASE kind = "qemu" /\ ~shared
    <3>1. GuestMounted = Table /\ \A e \in PreparedTable : InInfos(e)
      BY <1>1, <2>1, <2>2, <2>4 DEF MountInv, Handover, Handed
    <3>2. Table \subseteq PreparedTable /\ \A e \in PreparedTable : InInfos(e) => e \in Table
      BY <1>1, InfosFacts DEF MountInv, Shape, Infos
    <3> QED BY <3>1, <3>2
  <2> QED BY <1>1, <2>3, <2>4 DEF MountInv, Shape
<1> QED BY <1>1, MountInvariant, PTL

\* FSCheck never meets a mounted filesystem when the umounts worked, and in
\* finalize the device of the system is still there: UnmountFilesystems lists
\* every mount, children first, so that none is busy (Unmounted), and
\* ReleaseDevices comes after the check.
THEOREM ChecksUnmounted == Spec => []CheckedUnmounted
<1>1. ASSUME MountInv
      PROVE  CheckedUnmounted
  <2> USE DEF Preparing, Unmounting, Releasing, Working
  <2>1. pc \in {"precheck", "postcheck"} /\ "umount" \notin failed /\ ~(TwiceMounted /\ shared) => mnt = <<>>
    BY <1>1 DEF MountInv, Places, Early, Unmounted
  <2>2. mnt = <<>> => \A d : ~Mounted(d)
    BY DEF Mounted
  <2>3. pc = "postcheck" => Exists(System, open)
    BY <1>1 DEF MountInv, Places, Handover
  <2> QED BY <2>1, <2>2, <2>3 DEF CheckedUnmounted
<1> QED BY <1>1, MountInvariant, PTL

\* UnmountAll of the qemu backend forgets a mount only when it is gone, and a
\* stage that adopts an appliance records what it finds there
\* (recordAdoptedMounts), whichever mounts and umounts fail.
THEOREM MountsAreRecorded == Spec => []MountsStayRecorded
<1>1. MountInv => MountsStayRecorded
  BY DEF MountInv, Records, MountsStayRecorded
<1> QED BY <1>1, MountInvariant, PTL

\* When no command failed, a run that wrote pipeline.json ends with nothing
\* mounted, and on the host with no mapper, volume or loop device: in
\* ReleaseDevices each of CloseCrypt, vgchange -an and losetup -d finds its
\* devices unused (Clean).
THEOREM NothingIsLeft == Spec => []NothingLeft
<1>1. MountInv => NothingLeft
  BY DEF MountInv, Clean, NothingLeft, GuestMounted, Range
<1> QED BY <1>1, MountInvariant, PTL

=============================================================================
