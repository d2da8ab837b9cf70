------------------------- MODULE VmdkStream_proofs --------------------------
(***************************************************************************)
(* Proofs about VmdkStream for every set of exports that satisfies the     *)
(* assumption Exports, of any length, capacity, grain size and order of    *)
(* grains, with any damage to their deflate streams and any lengths in     *)
(* their markers: the three safety invariants that MCVmdkStream checks for *)
(* disks of four sectors.                                                  *)
(*                                                                         *)
(* What the loop maintains, if the lengths are true, is that the reader    *)
(* stands in front of a marker, and that every grain behind it has been    *)
(* accepted and its sectors hold the source's data (Progress).  Later      *)
(* writes do not undo that, because what the reader accepts carries the    *)
(* source's data for its place or has lost its sectors: the checks of      *)
(* processCompressedGrain are in bytes, and BytesToSectors takes them to   *)
(* sectors.  That true lengths lead from marker to marker is where the     *)
(* products in int64 have to be exact (HonestOverhead, HonestMetadata).    *)
(***************************************************************************)
EXTENDS VmdkStream, TLAPS

\* The grains in front of the n-th sector were accepted and are on the target.
Done(n) ==
  \A i \in Grains(stream) : i < n =>
    LET e == stream.elements[i]
    IN  /\ GrainError(stream, e) = "nil"
        /\ \A r \in Covered(stream, e) \ LostSectors(stream) : target[r] = stream.source[r]

AtMarker == pos \in 1 .. Len(stream.elements) /\ stream.elements[pos].role # "table"

Progress ==
  /\ state # "returned" => err = "none"
  /\ state = "loop" => HeaderError(stream) = "nil" /\ (Honest(stream) => AtMarker /\ Done(pos))
  /\ err = "nil" /\ ~cut /\ Honest(stream) =>
        HeaderError(stream) = "nil" /\ Done(Len(stream.elements))

\* The target keeps its extent and holds zeros, nothing, or data.
Contents == target \in [0 .. (stream.cap + stream.grain) -> {Zero, Absent} \cup Nat]

StreamInv == TypeOK /\ Contents /\ Progress /\ NothingMisplaced

\* What the proofs use of the constants.
LEMMA Numbers ==
  SectorSize \in Nat \ {0} /\ MaxInt \in Nat /\ 2 * (MaxInt + 1) \in Nat \ {0}
BY VmdkNumbers

USE Numbers

-----------------------------------------------------------------------------
(* Lemmas about the arithmetic.                                            *)

\* The comparisons of processCompressedGrain are in bytes: they hold exactly
\* of the sectors.
LEMMA BytesToSectors ==
  ASSUME NEW a \in Nat, NEW b \in Nat, a * SectorSize <= b * SectorSize
  PROVE  a <= b
<1>1. SUFFICES ASSUME b + 1 <= a PROVE FALSE
  OBVIOUS
<1>2. PICK d \in Nat : a = b + 1 + d
  <2>1. a - b - 1 \in Nat /\ a = b + 1 + (a - b - 1)
    BY <1>1
  <2> QED BY <2>1
<1>3. a * SectorSize = b * SectorSize + SectorSize + d * SectorSize
  BY <1>2
<1>4. d * SectorSize \in Nat /\ b * SectorSize \in Nat /\ SectorSize \in Nat \ {0}
  OBVIOUS
<1> QED BY <1>3, <1>4

\* Conversions stay integers, and keep what an int64 can hold.
LEMMA Int64Facts ==
  /\ \A n \in Int : Int64(n) \in Int
  /\ \A n \in -1 .. MaxInt : Int64(n) = n
<1> DEFINE W == 2 * (MaxInt + 1)
<1>1. W \in Nat \ {0} /\ W = 2 * (MaxInt + 1)
  OBVIOUS
<1> HIDE DEF W
<1>2. \A n \in Int : n % W \in 0 .. (W - 1)
  BY <1>1
<1>3. \A n \in 0 .. (W - 1) : n % W = n
  BY <1>1
<1>4. \A n \in Int : Int64(n) = ((n + MaxInt + 1) % W) - (MaxInt + 1)
  BY <1>1 DEF Int64
<1>5. \A n \in -1 .. MaxInt : n + MaxInt + 1 \in 0 .. (W - 1)
  BY <1>1
<1>6. ASSUME NEW n \in Int PROVE Int64(n) \in Int
  <2>1. n + MaxInt + 1 \in Int
    OBVIOUS
  <2>2. (n + MaxInt + 1) % W \in 0 .. (W - 1)
    BY <1>2, <2>1
  <2> QED BY <1>1, <1>4, <2>2
<1>7. ASSUME NEW n \in -1 .. MaxInt PROVE Int64(n) = n
  <2>1. (n + MaxInt + 1) % W = n + MaxInt + 1
    BY <1>3, <1>5
  <2> QED BY <1>4, <2>1
<1> QED BY <1>6, <1>7

\* io.CopyN skips whole sectors, none for a count that is not positive.
LEMMA SkippedFacts ==
  /\ \A b \in Int : Skipped(b) \in Nat
  /\ \A n \in Nat : Skipped(n * SectorSize) = n
<1>1. ASSUME NEW b \in Int PROVE Skipped(b) \in Nat
  <2>1. CASE b > 0
    <3>1. b \div SectorSize \in Nat
      BY <2>1
    <3> QED BY <2>1, <3>1 DEF Skipped
  <2>2. CASE ~(b > 0)
    BY <2>2 DEF Skipped
  <2> QED BY <2>1, <2>2
<1>2. ASSUME NEW n \in Nat PROVE Skipped(n * SectorSize) = n
  <2>1. CASE n = 0
    BY <2>1 DEF Skipped
  <2>2. CASE n > 0
    <3>1. n * SectorSize \in Nat /\ n * SectorSize > 0
      BY <2>2
    <3>2. (n * SectorSize) \div SectorSize = n
      OBVIOUS
    <3> QED BY <3>1, <3>2 DEF Skipped
  <2> QED BY <2>1, <2>2
<1> QED BY <1>1, <1>2

-----------------------------------------------------------------------------
(* Lemmas about an export.                                                 *)

\* What Exports says of the export that is read.
LEMMA ExportFacts ==
  ASSUME stream \in Streams
  PROVE  /\ stream.cap \in Nat /\ stream.grain \in Nat /\ stream.overHead \in Nat
         /\ Len(stream.elements) \in Nat \ {0} /\ (Len(stream.elements) + 1) * SectorSize <= MaxInt
         /\ \A i \in 1 .. Len(stream.elements) :
              LET e == stream.elements[i]
              IN  /\ e.lba \in Nat /\ e.size \in Nat /\ e.mtype \in Nat
                  /\ e.data \in Seq({Zero} \cup Nat)
                  /\ \/ e.role = "grain" /\ IsGrain(e)
                     \/ e.role = "meta" /\ IsMeta(e)
                     \/ e.role = "eos" /\ IsEos(e)
                     \/ e.role = "table" /\ e.zlib = "header"
                  /\ e.role = "eos" <=> i = Len(stream.elements)
         /\ \A r \in DOMAIN stream.source :
              r \in 0 .. (stream.cap + stream.grain) /\ stream.source[r] \in {Zero} \cup Nat
BY Exports DEF IsGrain, IsMeta, IsEos

\* Kinds of sectors exclude each other.
LEMMA Kinds ==
  ASSUME stream \in Streams, NEW i \in 1 .. Len(stream.elements)
  PROVE  LET e == stream.elements[i]
         IN  /\ IsGrain(e) => ~IsMeta(e) /\ ~IsEos(e)
             /\ IsMeta(e) => ~IsEos(e)
             /\ e.role \in {"grain", "meta", "eos", "table"}
             /\ e.role # "table" => /\ IsGrain(e) <=> e.role = "grain"
                                    /\ IsMeta(e) <=> e.role = "meta"
                                    /\ IsEos(e) <=> e.role = "eos"
BY ExportFacts DEF IsGrain, IsMeta, IsEos

\* A skip is a number of sectors, whatever the length says.
LEMMA SkipsAreNat ==
  ASSUME stream \in Streams
  PROVE  /\ OverheadSkip(stream) \in Nat
         /\ \A i \in 1 .. Len(stream.elements) : MetadataSkip(stream.elements[i]) \in Nat
<1>1. OverheadSkip(stream) \in Nat
  <2> DEFINE n == Int64(Int64(stream.overHead) - 1)
  <2>1. Int64(stream.overHead) - 1 \in Int
    <3>1. stream.overHead \in Int
      BY ExportFacts
    <3> QED BY <3>1, Int64Facts
  <2>2. n \in Int
    BY <2>1, Int64Facts
  <2> HIDE DEF n
  <2>3. n * SectorSize \in Int
    BY <2>2
  <2>4. Skipped(Int64(n * SectorSize)) \in Nat
    BY <2>3, Int64Facts, SkippedFacts
  <2> QED BY <2>4 DEF OverheadSkip, n
<1>2. ASSUME NEW i \in 1 .. Len(stream.elements)
      PROVE  MetadataSkip(stream.elements[i]) \in Nat
  <2> DEFINE n == Int64(stream.elements[i].lba)
  <2>1. n \in Int
    <3>1. stream.elements[i].lba \in Int
      BY ExportFacts
    <3> QED BY <3>1, Int64Facts
  <2> HIDE DEF n
  <2>2. n * SectorSize \in Int
    BY <2>1
  <2>3. Skipped(Int64(n * SectorSize)) \in Nat
    BY <2>2, Int64Facts, SkippedFacts
  <2> QED BY <2>3 DEF MetadataSkip, n
<1> QED BY <1>1, <1>2

\* A length no longer than the stream is skipped exactly.
LEMMA ShortLength ==
  ASSUME stream \in Streams, NEW n \in Nat, n <= Len(stream.elements)
  PROVE  n + 1 <= MaxInt /\ Int64(n) = n /\ Skipped(Int64(n * SectorSize)) = n
<1> DEFINE L == Len(stream.elements)
<1>1. L \in Nat /\ (L + 1) * SectorSize <= MaxInt /\ n <= L
  BY ExportFacts
<1> HIDE DEF L
<1>2. PICK d \in Nat : L = n + d
  <2>1. L - n \in Nat /\ L = n + (L - n)
    BY <1>1
  <2> QED BY <2>1
<1>3. (L + 1) * SectorSize = n * SectorSize + d * SectorSize + SectorSize
  BY <1>1, <1>2
<1>4. n * SectorSize \in Nat /\ d * SectorSize \in Nat /\ n <= n * SectorSize
  BY <1>2
<1>5. n * SectorSize \in 0 .. MaxInt /\ n + 1 <= MaxInt
  BY <1>1, <1>3, <1>4
<1>6. Int64(n * SectorSize) = n * SectorSize /\ Int64(n) = n
  <2>1. n \in 0 .. MaxInt
    BY <1>4, <1>5
  <2> QED BY <1>5, <2>1, Int64Facts
<1>7. Skipped(Int64(n * SectorSize)) = n
  BY <1>6, SkippedFacts
<1> QED BY <1>5, <1>6, <1>7

\* If the lengths are true, the overhead leads to the first marker ...
LEMMA HonestOverhead ==
  ASSUME stream \in Streams, Honest(stream)
  PROVE  LandsOn(stream.elements, 0, OverheadSkip(stream))
<1> DEFINE n == IF stream.overHead = 0 THEN 0 ELSE stream.overHead - 1
<1>1. LandsOn(stream.elements, 0, n) /\ stream.overHead \in Nat
  BY ExportFacts DEF Honest
<1>2. n \in Nat /\ n <= Len(stream.elements) /\ Len(stream.elements) \in Nat
  BY <1>1, ExportFacts DEF LandsOn
<1>3. n + 1 <= MaxInt /\ Int64(n) = n /\ Skipped(Int64(n * SectorSize)) = n
  BY <1>2, ShortLength
<1>4. OverheadSkip(stream) = n
  <2>1. CASE stream.overHead = 0
    <3>1. Int64(0) = 0 /\ Int64(-1) = -1 /\ 0 - 1 = -1
      BY Int64Facts
    <3>2. Int64(Int64(stream.overHead) - 1) = -1
      BY <2>1, <3>1
    <3> QED BY <2>1, <3>2 DEF OverheadSkip
  <2>2. CASE stream.overHead # 0
    <3>1. stream.overHead \in 0 .. MaxInt /\ n = stream.overHead - 1
      BY <1>1, <1>3, <2>2
    <3>2. Int64(stream.overHead) = stream.overHead
      BY <3>1, Int64Facts
    <3>3. Int64(Int64(stream.overHead) - 1) = n
      BY <1>3, <3>1, <3>2
    <3> HIDE DEF n
    <3>4. CASE n > 0
      BY <1>3, <3>3, <3>4 DEF OverheadSkip
    <3>5. CASE ~(n > 0)
      BY <1>2, <3>3, <3>5 DEF OverheadSkip
    <3> QED BY <3>4, <3>5
  <2> QED BY <2>1, <2>2
<1> QED BY <1>1, <1>4

\* ... and a metadata marker over its payload to the next.
LEMMA HonestMetadata ==
  ASSUME stream \in Streams, Honest(stream), NEW i \in 1 .. Len(stream.elements),
         stream.elements[i].role = "meta"
  PROVE  LandsOn(stream.elements, i, MetadataSkip(stream.elements[i]))
<1> DEFINE n == stream.elements[i].lba
<1>1. LandsOn(stream.elements, i, n) /\ n \in Nat /\ Len(stream.elements) \in Nat
  BY ExportFacts DEF Honest
<1>2. n <= Len(stream.elements)
  BY <1>1 DEF LandsOn
<1>3. Int64(n) = n /\ Skipped(Int64(n * SectorSize)) = n
  BY <1>1, <1>2, ShortLength
<1>4. MetadataSkip(stream.elements[i]) = n
  BY <1>3 DEF MetadataSkip
<1> QED BY <1>1, <1>4

\* What decompress yields, at most a grain of it.
LEMMA DecompressedFacts ==
  ASSUME stream \in Streams, NEW i \in 1 .. Len(stream.elements)
  PROVE  LET d == Decompressed(stream, stream.elements[i])
         IN  /\ Len(d) \in Nat /\ Len(d) <= stream.grain
             /\ \A k \in 1 .. Len(d) : d[k] \in {Zero} \cup Nat
<1> DEFINE e == stream.elements[i]
           S == {Zero} \cup Nat
           m == IF Len(e.data) < stream.grain THEN Len(e.data) ELSE stream.grain
<1>1. e.data \in Seq(S) /\ stream.grain \in Nat
  BY ExportFacts
<1> HIDE DEF e, S
<1>2. Len(e.data) \in Nat /\ \A k \in 1 .. Len(e.data) : e.data[k] \in S
  BY <1>1
<1>3. m \in Nat /\ m <= stream.grain /\ m <= Len(e.data)
  BY <1>1, <1>2
<1>4. Decompressed(stream, e) = [k \in 1 .. m |-> e.data[k]]
  BY DEF Decompressed
<1> HIDE DEF m
<1>5. \A k \in 1 .. m : e.data[k] \in S
  BY <1>2, <1>3
<1>6. Decompressed(stream, e) \in Seq(S) /\ Len(Decompressed(stream, e)) = m
  <2>1. Decompressed(stream, e) \in [1 .. m -> S]
    BY <1>4, <1>5
  <2> QED BY <1>3, <2>1
<1>7. \A k \in 1 .. m : Decompressed(stream, e)[k] \in S
  BY <1>4, <1>5
<1> QED BY <1>3, <1>6, <1>7 DEF e, S

\* A sector the reader accepts as a grain is one of the server's grains, and it
\* is not malformed.
LEMMA AcceptedNotMalformed ==
  ASSUME stream \in Streams, stream.grain # 0, NEW i \in 1 .. Len(stream.elements),
         IsGrain(stream.elements[i]), GrainError(stream, stream.elements[i]) = "nil"
  PROVE  /\ i \in Grains(stream) /\ ~Malformed(stream, stream.elements[i])
         /\ LET e == stream.elements[i]
            IN  Len(e.data) < stream.grain => e.zlib \in {"ok", "truncated"}
<1> DEFINE e == stream.elements[i]
           n == Len(Decompressed(stream, e))
<1>1. /\ e.lba \in Nat /\ e.size \in Nat /\ n \in Nat
      /\ stream.cap \in Nat /\ stream.grain \in Nat /\ e.data \in Seq({Zero} \cup Nat)
  BY ExportFacts, DecompressedFacts
<1>2. GrainError(stream, e) = "nil" /\ IsGrain(e)
  OBVIOUS
<1>3. \/ e.role = "grain" /\ IsGrain(e)
      \/ e.role = "meta" /\ IsMeta(e)
      \/ e.role = "eos" /\ IsEos(e)
      \/ e.role = "table" /\ e.zlib = "header"
  BY ExportFacts
<1> HIDE DEF e
<1>4. /\ ~(e.size > 2 * stream.grain * SectorSize) /\ DecompressError(stream, e) = "nil"
      /\ ~(e.lba * SectorSize >= stream.cap * SectorSize)
      /\ ~(e.lba * SectorSize + n * SectorSize > stream.cap * SectorSize)
  BY <1>2 DEF GrainError
<1> HIDE DEF n
<1>5. /\ e.zlib # "header"
      /\ \/ Len(e.data) >= stream.grain
         \/ e.zlib = "truncated"
         \/ e.zlib = "ok" /\ Len(e.data) > 0
  <2>1. DecompressError(stream, e) = "nil"
    BY <1>4
  <2> QED BY <2>1 DEF DecompressError
<1>6. e.role = "grain"
  BY <1>2, <1>3, <1>5 DEF IsGrain, IsMeta, IsEos
<1>7. ~(e.lba >= stream.cap)
  <2>1. ASSUME e.lba >= stream.cap PROVE FALSE
    <3>1. PICK d \in Nat : e.lba = stream.cap + d
      <4>1. e.lba - stream.cap \in Nat /\ e.lba = stream.cap + (e.lba - stream.cap)
        BY <1>1, <2>1
      <4> QED BY <4>1
    <3>2. e.lba * SectorSize = stream.cap * SectorSize + d * SectorSize
      BY <1>1, <3>1
    <3>3. d * SectorSize \in Nat /\ stream.cap * SectorSize \in Nat
      BY <1>1
    <3> QED BY <1>4, <3>2, <3>3
  <2> QED BY <2>1
<1>8. ~(e.lba + n > stream.cap)
  <2>1. (e.lba + n) * SectorSize = e.lba * SectorSize + n * SectorSize
    BY <1>1
  <2>2. /\ e.lba * SectorSize \in Nat /\ n * SectorSize \in Nat
        /\ stream.cap * SectorSize \in Nat /\ e.lba + n \in Nat
    <3>1. \A a \in Nat : a * SectorSize \in Nat
      OBVIOUS
    <3> QED BY <1>1, <3>1
  <2>3. (e.lba + n) * SectorSize <= stream.cap * SectorSize
    BY <1>4, <2>1, <2>2
  <2>4. e.lba + n <= stream.cap
    BY <1>1, <2>2, <2>3, BytesToSectors
  <2> QED BY <1>1, <2>4
<1>9. Len(e.data) < stream.grain => e.zlib \in {"ok", "truncated"}
  BY <1>1, <1>5
<1>10. ~(e.zlib = "ok" /\ e.data = <<>>)
  <2>1. ASSUME e.data = <<>> PROVE Len(e.data) = 0
    BY <2>1
  <2>2. ASSUME e.zlib = "ok", e.data = <<>> PROVE FALSE
    <3>1. Len(e.data) >= stream.grain
      BY <1>5, <2>1, <2>2
    <3>2. stream.grain = 0
      BY <1>1, <2>1, <2>2, <3>1
    <3> QED BY <3>2
  <2> QED BY <2>2
<1> QED BY <1>4, <1>6, <1>7, <1>8, <1>9, <1>10 DEF Malformed, Grains, e, n

-----------------------------------------------------------------------------
(* Lemmas about one write.                                                 *)

\* A sector r of m that start at a, in a grain of g on a disk of c.
LEMMA PlaceNumbers ==
  ASSUME NEW a \in Nat, NEW m \in Nat, NEW g \in Nat, NEW c \in Nat, m <= g, a + m <= c,
         NEW r \in a .. (a + m - 1)
  PROVE  /\ r \in Nat /\ r >= a /\ r < c /\ r \in 0 .. (c + g)
         /\ r - a + 1 \in 1 .. m /\ r \in a .. (a + g - 1)
OBVIOUS

\* Nothing the reader accepts reaches beyond the capacity, and what it covers
\* is the source's data unless the deflate stream was spoiled.
LEMMA AcceptedGrain ==
  ASSUME stream \in Streams, stream.grain # 0, NEW i \in 1 .. Len(stream.elements),
         IsGrain(stream.elements[i]), GrainError(stream, stream.elements[i]) = "nil"
  PROVE  LET e == stream.elements[i]
             d == Decompressed(stream, e)
         IN  /\ i \in Grains(stream) /\ e.lba \in Nat /\ e.lba < stream.cap /\ stream.cap \in Nat
             /\ \A r \in Covered(stream, e) :
                  /\ r \in Nat /\ r >= e.lba /\ r < stream.cap
                  /\ r \in 0 .. (stream.cap + stream.grain)
                  /\ d[r - e.lba + 1] \in {Zero} \cup Nat
                  /\ e.zlib \in {"ok", "truncated"} =>
                       r \in Sectors /\ d[r - e.lba + 1] = stream.source[r]
                  /\ e.zlib \notin {"ok", "truncated"} => r \in LostSectors(stream)
<1> DEFINE e == stream.elements[i]
           d == Decompressed(stream, e)
<1>1. i \in Grains(stream) /\ ~Malformed(stream, e)
  BY AcceptedNotMalformed
<1>2. /\ e.lba \in Nat /\ stream.cap \in Nat /\ stream.grain \in Nat
      /\ Len(d) \in Nat /\ Len(d) <= stream.grain
      /\ \A k \in 1 .. Len(d) : d[k] \in {Zero} \cup Nat
  BY ExportFacts, DecompressedFacts
<1>3. e.zlib \in {"ok", "truncated"} =>
        \A r \in Covered(stream, e) : r \in Sectors /\ d[r - e.lba + 1] = stream.source[r]
  BY <1>1, Exports DEF Sectors
<1>4. Covered(stream, e) = e.lba .. (e.lba + Len(d) - 1)
  BY DEF Covered
<1>5. e.zlib \notin {"ok", "truncated"} => Lost(stream, e) = e.lba .. (e.lba + stream.grain - 1)
  BY DEF Lost, Place
<1>6. Lost(stream, e) \subseteq LostSectors(stream)
  BY <1>1 DEF LostSectors
<1>7. e.lba < stream.cap /\ e.lba + Len(d) <= stream.cap
  BY <1>1, <1>2 DEF Malformed
<1> HIDE DEF e, d
<1>8. \A r \in Covered(stream, e) :
        /\ r \in Nat /\ r >= e.lba /\ r < stream.cap /\ r \in 0 .. (stream.cap + stream.grain)
        /\ r - e.lba + 1 \in 1 .. Len(d) /\ r \in e.lba .. (e.lba + stream.grain - 1)
  <2> SUFFICES ASSUME NEW r \in e.lba .. (e.lba + Len(d) - 1)
               PROVE  /\ r \in Nat /\ r >= e.lba /\ r < stream.cap
                      /\ r \in 0 .. (stream.cap + stream.grain)
                      /\ r - e.lba + 1 \in 1 .. Len(d) /\ r \in e.lba .. (e.lba + stream.grain - 1)
    BY <1>4
  <2> QED BY <1>2, <1>7, PlaceNumbers
<1> QED BY <1>1, <1>2, <1>3, <1>5, <1>6, <1>7, <1>8 DEF e, d

\* What a write does to a sector.
LEMMA WriteFacts ==
  ASSUME StreamInv, stream.grain # 0, NEW i \in 1 .. Len(stream.elements),
         IsGrain(stream.elements[i]), GrainError(stream, stream.elements[i]) = "nil",
         SeekAndWrite(stream.elements[i])
  PROVE  LET e == stream.elements[i]
         IN  /\ target' \in [0 .. (stream.cap + stream.grain) -> {Zero, Absent} \cup Nat]
             /\ \A s \in Covered(stream, e) :
                  s \in DOMAIN target /\ target'[s] = Decompressed(stream, e)[s - e.lba + 1]
             /\ \A s \in DOMAIN target \ Covered(stream, e) :
                  \/ target'[s] = target[s]
                  \/ target[s] = Absent /\ target'[s] = Zero /\ s < e.lba /\ Covered(stream, e) # {}
<1> DEFINE e == stream.elements[i]
           d == Decompressed(stream, e)
           C == Covered(stream, e)
<1>1. target \in [0 .. (stream.cap + stream.grain) -> {Zero, Absent} \cup Nat]
  BY DEF StreamInv, Contents
<1>2. \A r \in C : r \in 0 .. (stream.cap + stream.grain) /\ d[r - e.lba + 1] \in {Zero} \cup Nat
  BY AcceptedGrain DEF StreamInv, TypeOK
<1>3. target' = [s \in DOMAIN target |->
                    IF s \in C THEN d[s - e.lba + 1]
                    ELSE IF C # {} /\ s < e.lba /\ target[s] = Absent THEN Zero ELSE target[s]]
  BY DEF SeekAndWrite
<1> HIDE DEF e, d, C
<1>4. \A s \in C : s \in DOMAIN target /\ target'[s] = d[s - e.lba + 1]
  BY <1>1, <1>2, <1>3
<1>5. \A s \in DOMAIN target \ C :
        \/ target'[s] = target[s]
        \/ target[s] = Absent /\ target'[s] = Zero /\ s < e.lba /\ C # {}
  BY <1>3
<1>6. \A s \in DOMAIN target : target'[s] \in {Zero, Absent} \cup Nat
  BY <1>1, <1>2, <1>4, <1>5
<1>7. DOMAIN target' = DOMAIN target /\ target' = [s \in DOMAIN target |-> target'[s]]
  BY <1>3
<1>8. target' \in [0 .. (stream.cap + stream.grain) -> {Zero, Absent} \cup Nat]
  BY <1>1, <1>6, <1>7
<1> QED BY <1>4, <1>5, <1>8 DEF e, d, C

\* Where a sector of a grain stands in the grain's data.
LEMMA PlaceInGrain ==
  ASSUME NEW s \in Nat, NEW lba \in Nat, NEW n \in Nat, s >= lba, s <= lba + n - 1
  PROVE  s - lba + 1 \in 1 .. n
OBVIOUS

\* So no sector is misplaced, and what was done stays done, but for the
\* sectors that were lost.
LEMMA WriteKeeps ==
  ASSUME StreamInv, stream.grain # 0, NEW i \in 1 .. Len(stream.elements),
         IsGrain(stream.elements[i]), GrainError(stream, stream.elements[i]) = "nil",
         SeekAndWrite(stream.elements[i]), UNCHANGED stream
  PROVE  /\ Contents' /\ NothingMisplaced'
         /\ \A s \in DOMAIN target \ LostSectors(stream) :
               s \in Sectors /\ target[s] = stream.source[s] => target'[s] = stream.source[s]
         /\ \A s \in Covered(stream, stream.elements[i]) \ LostSectors(stream) :
               s \in DOMAIN target /\ s \in Sectors /\ target'[s] = stream.source[s]
<1> DEFINE e == stream.elements[i]
           d == Decompressed(stream, e)
           C == Covered(stream, e)
           L == LostSectors(stream)
<1>1. /\ target' \in [0 .. (stream.cap + stream.grain) -> {Zero, Absent} \cup Nat]
      /\ \A s \in C : s \in DOMAIN target /\ target'[s] = d[s - e.lba + 1]
      /\ \A s \in DOMAIN target \ C :
           \/ target'[s] = target[s]
           \/ target[s] = Absent /\ target'[s] = Zero /\ s < e.lba /\ C # {}
  BY WriteFacts
<1>2. /\ i \in Grains(stream) /\ e.lba \in Nat /\ e.lba < stream.cap /\ stream.cap \in Nat
      /\ \A r \in C :
           /\ r \in Nat /\ r >= e.lba /\ r < stream.cap
           /\ d[r - e.lba + 1] \in {Zero} \cup Nat
           /\ e.zlib \in {"ok", "truncated"} => r \in Sectors /\ d[r - e.lba + 1] = stream.source[r]
           /\ e.zlib \notin {"ok", "truncated"} => r \in L
  BY AcceptedGrain DEF StreamInv, TypeOK
<1>3. /\ DOMAIN target = 0 .. (stream.cap + stream.grain) /\ DOMAIN target' = DOMAIN target
      /\ \A s \in DOMAIN target : target[s] \in {Zero, Absent} \cup Nat /\ s \in Nat
      /\ stream.grain \in Nat
  BY <1>1, ExportFacts DEF StreamInv, TypeOK, Contents
<1>4. Absent \notin Nat /\ Zero \notin Nat /\ Absent # Zero
  BY DEF Absent, Zero
<1>5. \A s \in Sectors : stream.source[s] \in {Zero} \cup Nat
  BY ExportFacts DEF StreamInv, TypeOK, Sectors
<1>6. e = stream.elements[i] /\ d = Decompressed(stream, e) /\ C = Covered(stream, e)
  OBVIOUS
<1> HIDE DEF e, d, C, L
<1>7. \A s \in C \ L : s \in DOMAIN target /\ s \in Sectors /\ target'[s] = stream.source[s]
  BY <1>1, <1>2
<1>8. \A s \in DOMAIN target \ L :
        s \in Sectors /\ target[s] = stream.source[s] => target'[s] = stream.source[s]
  <2> SUFFICES ASSUME NEW s \in DOMAIN target \ L, s \in Sectors, target[s] = stream.source[s]
               PROVE  target'[s] = stream.source[s]
    OBVIOUS
  <2>1. CASE s \in C
    BY <1>7, <2>1
  <2>2. CASE s \notin C
    BY <1>1, <1>4, <1>5, <2>2
  <2> QED BY <2>1, <2>2
<1>9. \A s \in DOMAIN target : target[s] # Absent => target'[s] # Absent
  <2> SUFFICES ASSUME NEW s \in DOMAIN target, target[s] # Absent PROVE target'[s] # Absent
    OBVIOUS
  <2>1. CASE s \in C
    BY <1>1, <1>2, <1>4, <2>1
  <2>2. CASE s \notin C
    BY <1>1, <1>4, <2>2
  <2> QED BY <2>1, <2>2
<1>10. NothingMisplaced'
  <2> DEFINE Spoiled(s, t) ==
               \E k \in Grains(stream) :
                 LET g == stream.elements[k]
                 IN  /\ g.zlib \notin {"ok", "truncated"} /\ s \in Covered(stream, g)
                     /\ t[s] = Decompressed(stream, g)[s - g.lba + 1]
             Gap(s, t) == /\ OpenedTarget(stream)[s] = Absent /\ t[s] = Zero
                          /\ \E r \in DOMAIN t : r > s /\ t[r] # Absent
             Right(s, t) == \/ t[s] = OpenedTarget(stream)[s]
                            \/ s < stream.cap /\ ((s \in Sectors /\ t[s] = stream.source[s])
                                                    \/ Spoiled(s, t) \/ Gap(s, t))
  <2>1. \A s \in DOMAIN target : Right(s, target)
    BY DEF StreamInv, NothingMisplaced
  <2>2. ASSUME \A s \in DOMAIN target' : Right(s, target') PROVE NothingMisplaced'
    BY <2>2 DEF NothingMisplaced, Sectors
  <2>3. ASSUME NEW s \in C PROVE Right(s, target')
    <3>1. s < stream.cap /\ target'[s] = d[s - e.lba + 1]
      BY <1>1, <1>2, <2>3
    <3>2. CASE e.zlib \in {"ok", "truncated"}
      BY <1>2, <2>3, <3>1, <3>2
    <3>3. CASE e.zlib \notin {"ok", "truncated"}
      <4>1. Spoiled(s, target')
        BY <1>2, <1>6, <2>3, <3>1, <3>3
      <4> QED BY <3>1, <4>1
    <3> QED BY <3>2, <3>3
  <2>4. ASSUME NEW s \in DOMAIN target, target[s] = Absent, target'[s] = Zero, s < e.lba, C # {}
        PROVE  Right(s, target')
    <3>1. PICK r \in C : TRUE
      BY <2>4
    <3>2. r \in DOMAIN target /\ target'[r] # Absent /\ r > s
      <4>1. r \in DOMAIN target /\ target'[r] = d[r - e.lba + 1] /\ r \in Nat /\ r >= e.lba
        BY <1>1, <1>2, <3>1
      <4>2. target'[r] # Absent
        BY <1>2, <1>4, <3>1, <4>1
      <4>3. s \in Nat /\ e.lba \in Nat /\ s < e.lba
        BY <1>2, <1>3, <2>4
      <4>4. r > s
        BY <4>1, <4>3
      <4> QED BY <4>1, <4>2, <4>4
    <3>3. s < stream.cap
      BY <1>2, <1>3, <2>4
    <3>4. OpenedTarget(stream)[s] = Absent
      <4>1. Right(s, target) /\ s \in 0 .. (stream.cap + stream.grain)
        BY <1>3, <2>1
      <4>2. ~Gap(s, target)
        BY <1>4, <2>4
      <4>3. ~(s \in Sectors /\ target[s] = stream.source[s])
        BY <1>4, <1>5, <2>4
      <4>4. ~Spoiled(s, target)
        <5> SUFFICES ASSUME NEW k \in Grains(stream), s \in Covered(stream, stream.elements[k]),
                            target[s] = Decompressed(stream, stream.elements[k])
                                          [s - stream.elements[k].lba + 1]
                     PROVE  FALSE
          OBVIOUS
        <5> DEFINE g == stream.elements[k]
                   h == Decompressed(stream, g)
        <5>1. k \in 1 .. Len(stream.elements) /\ stream \in Streams
          BY DEF Grains, StreamInv, TypeOK
        <5>2. g.lba \in Nat /\ Len(h) \in Nat /\ \A n \in 1 .. Len(h) : h[n] \in {Zero} \cup Nat
          BY <5>1, ExportFacts, DecompressedFacts
        <5>3. s \in g.lba .. (g.lba + Len(h) - 1) /\ target[s] = h[s - g.lba + 1]
          BY DEF Covered
        <5> HIDE DEF g, h
        <5>4. s - g.lba + 1 \in 1 .. Len(h)
          <6>1. s \in Nat
            BY <1>3
          <6>2. s >= g.lba /\ s <= g.lba + Len(h) - 1
            BY <5>2, <5>3
          <6>3. g.lba \in Nat /\ Len(h) \in Nat
            BY <5>2
          <6> QED BY <6>1, <6>2, <6>3, PlaceInGrain
        <5> QED BY <1>4, <2>4, <5>2, <5>3, <5>4
      <4> QED BY <2>4, <4>1, <4>2, <4>3, <4>4
    <3>5. Gap(s, target')
      BY <1>3, <2>4, <3>2, <3>4
    <3> QED BY <3>3, <3>5
  <2>5. ASSUME NEW s \in DOMAIN target, target'[s] = target[s] PROVE Right(s, target')
    <3>1. Right(s, target)
      BY <2>1
    <3>2. Gap(s, target) => Gap(s, target')
      BY <1>3, <1>9, <2>5
    <3>3. Spoiled(s, target) => Spoiled(s, target')
      BY <2>5
    <3> QED BY <2>5, <3>1, <3>2, <3>3
  <2>6. \A s \in DOMAIN target' : Right(s, target')
    BY <1>1, <1>3, <2>3, <2>4, <2>5
  <2> QED BY <2>2, <2>6
<1>11. Contents'
  BY <1>1 DEF Contents
<1> QED BY <1>7, <1>8, <1>10, <1>11 DEF e, d, C, L

-----------------------------------------------------------------------------
(* The invariant holds at the start and every step of the reader keeps it. *)

LEMMA StreamInit == Init => StreamInv
<1> SUFFICES ASSUME Init PROVE StreamInv
  OBVIOUS
<1>1. TypeOK
  <2>1. pos \in 1 .. (Len(stream.elements) + 1)
    BY ExportFacts DEF Init
  <2>2. \A s \in DOMAIN target : target[s] \in {Zero, Absent} \cup Nat
    BY DEF Init, OpenedTarget
  <2> QED BY <2>1, <2>2 DEF Init, TypeOK
<1>2. Contents
  BY DEF Init, Contents, OpenedTarget
<1>3. Progress /\ NothingMisplaced
  BY DEF Init, Progress, NothingMisplaced
<1> QED BY <1>1, <1>2, <1>3 DEF StreamInv

\* Without a write, the target and what was done stay as they are.
LEMMA NoWriteKeeps ==
  ASSUME StreamInv, UNCHANGED <<stream, target>>
  PROVE  Contents' /\ NothingMisplaced' /\ \A n \in Nat : Done(n) => Done(n)'
<1>1. Contents'
  BY DEF StreamInv, Contents
<1>2. NothingMisplaced'
  BY DEF StreamInv, NothingMisplaced, Sectors
<1>3. \A n \in Nat : Done(n) => Done(n)'
  BY DEF Done
<1> QED BY <1>1, <1>2, <1>3

\* A return with an error promises nothing about the data.
LEMMA ErrorReturnKeeps ==
  ASSUME StreamInv, Contents', NothingMisplaced', UNCHANGED <<stream, pos>>,
         NEW e \in {"magic", "version", "capacity", "grain", "read", "ctx", "size", "zlib",
                    "lba", "write"},
         Return(e), cut' \in BOOLEAN, ctxDone' = ctxDone
  PROVE  StreamInv'
<1>1. TypeOK'
  <2>1. \A s \in DOMAIN target' : target'[s] \in {Zero, Absent} \cup Nat
    BY DEF Contents
  <2> QED BY <2>1 DEF StreamInv, TypeOK, Return
<1>2. Progress'
  BY DEF Return, Progress
<1> QED BY <1>1, <1>2 DEF StreamInv

\* In the loop grains are not empty, and where the lengths are true the sector
\* in front of the reader is what it takes it for.
LEMMA LoopFacts ==
  ASSUME StreamInv, state = "loop"
  PROVE  /\ stream \in Streams /\ stream.grain # 0 /\ HeaderError(stream) = "nil" /\ err = "none"
         /\ Len(stream.elements) \in Nat /\ pos \in Nat
         /\ ~AtEnd => pos \in 1 .. Len(stream.elements) /\ Element = stream.elements[pos]
         /\ Honest(stream) => ~AtEnd /\ Done(pos) /\ Element.role # "table"
<1>1. /\ stream \in Streams /\ pos \in 1 .. (Len(stream.elements) + 1)
      /\ HeaderError(stream) = "nil" /\ err = "none"
      /\ Honest(stream) => AtMarker /\ Done(pos)
  BY DEF StreamInv, TypeOK, Progress
<1>2. Len(stream.elements) \in Nat
  BY <1>1, ExportFacts
<1>3. stream.grain # 0
  BY <1>1 DEF HeaderError
<1>4. AtMarker => ~AtEnd
  BY <1>1, <1>2 DEF AtMarker, AtEnd
<1>5. ~AtEnd => pos \in 1 .. Len(stream.elements)
  BY <1>1, <1>2 DEF AtEnd
<1> QED BY <1>1, <1>2, <1>3, <1>4, <1>5 DEF Element, AtMarker

\* Where a skip lands there is a marker, and no grain was passed over.
LEMMA LandedFacts ==
  ASSUME stream \in Streams, NEW i \in Nat, NEW n \in Nat, LandsOn(stream.elements, i, n),
         i > 0 => ~(stream.elements[i].role = "grain") \/ Done(i + 1),
         Done(i)
  PROVE  /\ i + n + 1 \in 1 .. Len(stream.elements)
         /\ stream.elements[i + n + 1].role # "table"
         /\ Done(i + n + 1)
<1>1. /\ i + n + 1 \in 1 .. Len(stream.elements)
      /\ stream.elements[i + n + 1].role # "table"
      /\ \A j \in (i + 1) .. (i + n) : stream.elements[j].role = "table"
  BY DEF LandsOn
<1>2. ASSUME NEW g \in Grains(stream), g < i + n + 1
      PROVE  g < i \/ (g = i /\ i > 0)
  <2>1. g \in 1 .. Len(stream.elements) /\ stream.elements[g].role = "grain" /\ g \in Nat
    BY ExportFacts DEF Grains
  <2>2. ~(g \in (i + 1) .. (i + n))
    BY <1>1, <2>1
  <2> QED BY <1>2, <2>1, <2>2
<1>3. ASSUME NEW g \in Grains(stream), g < i + n + 1
      PROVE  LET e == stream.elements[g]
             IN  /\ GrainError(stream, e) = "nil"
                 /\ \A r \in Covered(stream, e) \ LostSectors(stream) : target[r] = stream.source[r]
  <2>1. CASE g < i
    BY <2>1 DEF Done
  <2>2. CASE g = i /\ i > 0
    <3>1. Done(i + 1) /\ g < i + 1
      BY <2>2 DEF Grains
    <3> QED BY <3>1 DEF Done
  <2> QED BY <1>2, <1>3, <2>1, <2>2
<1>4. Done(i + n + 1)
  BY <1>3 DEF Done
<1> QED BY <1>1, <1>4

\* A grain whose reading goes on is one more that is done.
LEMMA GrainDone ==
  ASSUME StreamInv, state = "loop", ~AtEnd, IsGrain(Element),
         GrainError(stream, Element) = "nil", SeekAndWrite(Element), UNCHANGED stream
  PROVE  Contents' /\ NothingMisplaced' /\ \A n \in Nat : n = pos + 1 /\ Done(pos) => Done(n)'
<1>1. /\ pos \in 1 .. Len(stream.elements) /\ Element = stream.elements[pos] /\ pos \in Nat
      /\ stream \in Streams /\ stream.grain # 0
  BY LoopFacts
<1>2. /\ Contents' /\ NothingMisplaced'
      /\ \A s \in DOMAIN target \ LostSectors(stream) :
            s \in Sectors /\ target[s] = stream.source[s] => target'[s] = stream.source[s]
      /\ \A s \in Covered(stream, Element) \ LostSectors(stream) :
            s \in DOMAIN target /\ s \in Sectors /\ target'[s] = stream.source[s]
  BY <1>1, WriteKeeps
<1>3. ASSUME NEW n \in Nat, n = pos + 1, Done(pos) PROVE Done(n)'
  <2>1. ASSUME NEW i \in Grains(stream), i < n
        PROVE  LET e == stream.elements[i]
               IN  /\ GrainError(stream, e) = "nil"
                   /\ \A r \in Covered(stream, e) \ LostSectors(stream) :
                        target'[r] = stream.source[r]
    <3>1. CASE i = pos
      BY <1>1, <1>2, <3>1
    <3>2. CASE i # pos
      <4>1. i \in 1 .. Len(stream.elements) /\ stream.elements[i].role = "grain" /\ i \in Nat
        BY ExportFacts, <1>1 DEF Grains
      <4>2. i < pos
        BY <1>1, <1>3, <2>1, <3>2, <4>1
      <4>3. /\ GrainError(stream, stream.elements[i]) = "nil"
            /\ \A r \in Covered(stream, stream.elements[i]) \ LostSectors(stream) :
                 target[r] = stream.source[r]
        BY <1>3, <4>2 DEF Done
      <4>4. IsGrain(stream.elements[i])
        BY <1>1, <4>1, Kinds
      <4>5. \A r \in Covered(stream, stream.elements[i]) \ LostSectors(stream) :
              r \in Sectors /\ r \in 0 .. (stream.cap + stream.grain)
        BY <1>1, <4>1, <4>3, <4>4, AcceptedGrain
      <4>6. DOMAIN target = 0 .. (stream.cap + stream.grain)
        BY DEF StreamInv, Contents
      <4> QED BY <1>2, <4>3, <4>5, <4>6
    <3> QED BY <3>1, <3>2
  <2> QED BY <2>1 DEF Done
<1> QED BY <1>2, <1>3

\* Progress of a loop that goes on at n.
LEMMA LoopGoesOn ==
  ASSUME HeaderError(stream) = "nil", err = "none", UNCHANGED <<stream, err>>,
         state' = "loop", NEW n \in Nat, pos' = n,
         Honest(stream) => /\ n \in 1 .. Len(stream.elements)
                           /\ stream.elements[n].role # "table" /\ Done(n)'
  PROVE  Progress'
<1>1. Done(n)' => Done(pos)'
  BY DEF Done
<1>2. Honest(stream)' = Honest(stream) /\ HeaderError(stream)' = "nil"
  OBVIOUS
<1> QED BY <1>1, <1>2 DEF Progress, AtMarker

LEMMA StreamStep == StreamInv /\ [Next]_vars => StreamInv'
<1> SUFFICES ASSUME StreamInv, [Next]_vars PROVE StreamInv'
  OBVIOUS
<1>1. /\ stream \in Streams /\ cut \in BOOLEAN /\ ctxDone \in BOOLEAN /\ Contents /\ NothingMisplaced
      /\ pos \in 1 .. (Len(stream.elements) + 1) /\ Len(stream.elements) \in Nat
      /\ pos \in Nat
      /\ \A s \in DOMAIN target : target[s] \in {Zero, Absent} \cup Nat
  BY ExportFacts DEF StreamInv, TypeOK
<1>2. ASSUME UNCHANGED <<stream, target, pos>>, ctxDone' = ctxDone, cut' \in BOOLEAN,
             NEW e \in {"magic", "version", "capacity", "grain", "read", "ctx", "size", "zlib",
                        "lba", "write"}, Return(e)
      PROVE  StreamInv'
  BY <1>2, NoWriteKeeps, ErrorReturnKeeps
<1>3. CASE ReadHeader
  <2>1. CASE HeaderError(stream) # "nil"
    <3>1. HeaderError(stream) \in {"magic", "version", "capacity", "grain"}
      BY <2>1 DEF HeaderError
    <3> QED BY <1>1, <1>2, <1>3, <2>1, <3>1 DEF ReadHeader
  <2>2. CASE HeaderError(stream) = "nil" /\ OverheadSkip(stream) > Len(stream.elements)
    BY <1>1, <1>2, <1>3, <2>2 DEF ReadHeader
  <2>3. CASE HeaderError(stream) = "nil" /\ ~(OverheadSkip(stream) > Len(stream.elements))
    <3> DEFINE k == OverheadSkip(stream)
    <3>1. /\ state = "header" /\ state' = "loop" /\ pos' = 1 + k /\ err' = err
          /\ UNCHANGED <<stream, target, cut, ctxDone>>
      BY <1>3, <2>3 DEF ReadHeader
    <3>2. k \in Nat /\ ~(k > Len(stream.elements))
      BY <1>1, <2>3, SkipsAreNat
    <3>3. Honest(stream) => LandsOn(stream.elements, 0, k)
      BY <1>1, HonestOverhead
    <3> HIDE DEF k
    <3>4. err = "none"
      BY <3>1 DEF StreamInv, Progress
    <3>5. Done(0)
      BY DEF Done, Grains
    <3>6. PICK n \in Nat : n = 0 + k + 1
      BY <3>2
    <3>7. pos' = n
      BY <3>1, <3>2, <3>6
    <3>8. ASSUME Honest(stream)
          PROVE  n \in 1 .. Len(stream.elements) /\ stream.elements[n].role # "table" /\ Done(n)'
      <4>1. /\ 0 + k + 1 \in 1 .. Len(stream.elements) /\ Done(0 + k + 1)
            /\ stream.elements[0 + k + 1].role # "table"
        BY <1>1, <3>2, <3>3, <3>5, <3>8, LandedFacts
      <4>2. Done(n)
        BY <3>6, <4>1
      <4> QED BY <3>1, <3>6, <4>1, <4>2, NoWriteKeeps
    <3>9. Progress'
      BY <2>3, <3>1, <3>4, <3>7, <3>8, LoopGoesOn
    <3>10. TypeOK'
      <4>1. pos' \in 1 .. (Len(stream'.elements) + 1)
        BY <1>1, <3>1, <3>2
      <4> QED BY <3>1, <4>1 DEF StreamInv, TypeOK
    <3> QED BY <3>1, <3>9, <3>10, NoWriteKeeps DEF StreamInv
  <2> QED BY <2>1, <2>2, <2>3
<1>4. CASE CutInHeader \/ LoopCancelled \/ ResetAtMarker \/ CutInPayload
  BY <1>1, <1>2, <1>4 DEF CutInHeader, LoopCancelled, ResetAtMarker, CutInPayload
<1>5. CASE CutAtMarker
  <2>1. /\ state' = "returned" /\ err' = "nil" /\ cut' = TRUE
        /\ UNCHANGED <<stream, target, pos, ctxDone>>
    BY <1>5 DEF CutAtMarker, Return
  <2>2. Progress'
    BY <2>1 DEF Progress
  <2>3. TypeOK'
    BY <1>1, <2>1 DEF StreamInv, TypeOK
  <2> QED BY <2>1, <2>2, <2>3, NoWriteKeeps DEF StreamInv
<1>6. CASE EndOfStream
  <2>1. /\ state = "loop" /\ AtEnd /\ state' = "returned" /\ err' = "nil"
        /\ UNCHANGED <<stream, target, pos, cut, ctxDone>>
    BY <1>6 DEF EndOfStream, InLoop, Return
  <2>2. ~Honest(stream)
    BY <2>1, LoopFacts
  <2>3. Progress'
    BY <2>1, <2>2 DEF Progress
  <2>4. TypeOK'
    BY <1>1, <2>1 DEF StreamInv, TypeOK
  <2> QED BY <2>1, <2>3, <2>4, NoWriteKeeps DEF StreamInv
<1>7. CASE ReadEos
  <2>1. /\ state = "loop" /\ ~AtEnd /\ IsEos(Element) /\ state' = "returned" /\ err' = "nil"
        /\ UNCHANGED <<stream, target, pos, cut, ctxDone>>
    BY <1>7 DEF ReadEos, AtElement, InLoop, Return
  <2>2. ASSUME Honest(stream) PROVE Done(Len(stream.elements))'
    <3>1. /\ pos \in 1 .. Len(stream.elements) /\ Element = stream.elements[pos]
          /\ Done(pos) /\ Element.role # "table"
      BY <2>1, <2>2, LoopFacts
    <3>2. Element.role = "eos"
      BY <1>1, <2>1, <3>1, Kinds
    <3>3. pos = Len(stream.elements)
      BY <1>1, <3>1, <3>2, ExportFacts
    <3>4. Done(Len(stream.elements))
      BY <3>1, <3>3
    <3>5. \A n \in Nat : Done(n) => Done(n)'
      BY <2>1, NoWriteKeeps
    <3>6. PICK n \in Nat : n = Len(stream.elements)
      BY <1>1
    <3>7. Done(n)'
      BY <3>4, <3>5, <3>6
    <3> QED BY <2>1, <3>6, <3>7 DEF Done
  <2>3. HeaderError(stream) = "nil"
    BY <2>1, LoopFacts
  <2>4. Honest(stream)' = Honest(stream) /\ HeaderError(stream)' = HeaderError(stream)
    BY <2>1
  <2>5. Progress'
    BY <2>1, <2>2, <2>3, <2>4 DEF Progress
  <2>6. TypeOK'
    BY <1>1, <2>1 DEF StreamInv, TypeOK
  <2> QED BY <2>1, <2>5, <2>6, NoWriteKeeps DEF StreamInv
<1>8. CASE SkipMetadata
  <2>1. /\ state = "loop" /\ ~AtEnd /\ IsMeta(Element)
        /\ UNCHANGED <<stream, target, cut, ctxDone>>
    BY <1>8 DEF SkipMetadata, AtElement, InLoop
  <2>2. /\ pos \in 1 .. Len(stream.elements) /\ Element = stream.elements[pos]
        /\ HeaderError(stream) = "nil" /\ err = "none"
        /\ Honest(stream) => Done(pos) /\ Element.role # "table"
    BY <2>1, LoopFacts
  <2> DEFINE k == MetadataSkip(Element)
  <2>3. k \in Nat
    BY <1>1, <2>2, SkipsAreNat
  <2>4. CASE pos + k > Len(stream.elements)
    BY <1>1, <1>2, <1>8, <2>1, <2>4 DEF SkipMetadata
  <2>5. CASE ~(pos + k > Len(stream.elements))
    <3>1. pos' = pos + 1 + k /\ UNCHANGED <<state, err>>
      BY <1>8, <2>5 DEF SkipMetadata
    <3>2. ASSUME Honest(stream)
          PROVE  LandsOn(stream.elements, pos, k) /\ Element.role = "meta"
      <4>1. Element.role = "meta"
        BY <1>1, <2>1, <2>2, <3>2, Kinds
      <4> QED BY <1>1, <2>2, <3>2, <4>1, HonestMetadata
    <3> HIDE DEF k
    <3>3. PICK n \in Nat : n = pos + k + 1
      BY <1>1, <2>3
    <3>4. pos' = n
      BY <1>1, <2>3, <3>1, <3>3
    <3>5. ASSUME Honest(stream)
          PROVE  n \in 1 .. Len(stream.elements) /\ stream.elements[n].role # "table" /\ Done(n)'
      <4>1. LandsOn(stream.elements, pos, k) /\ stream.elements[pos].role # "grain" /\ Done(pos)
        BY <2>2, <3>2, <3>5
      <4>2. /\ pos + k + 1 \in 1 .. Len(stream.elements) /\ Done(pos + k + 1)
            /\ stream.elements[pos + k + 1].role # "table"
        BY <1>1, <2>3, <4>1, LandedFacts
      <4>3. Done(n)
        BY <3>3, <4>2
      <4> QED BY <2>1, <3>3, <4>2, <4>3, NoWriteKeeps
    <3>6. Progress'
      BY <2>1, <2>2, <3>1, <3>4, <3>5, LoopGoesOn
    <3>7. TypeOK'
      <4>1. pos' \in 1 .. (Len(stream'.elements) + 1)
        BY <1>1, <2>1, <2>3, <2>5, <3>1
      <4> QED BY <2>1, <3>1, <4>1 DEF StreamInv, TypeOK
    <3> QED BY <2>1, <3>6, <3>7, NoWriteKeeps DEF StreamInv
  <2> QED BY <2>4, <2>5
<1>9. CASE ReadGrain
  <2>1. /\ state = "loop" /\ ~AtEnd /\ IsGrain(Element) /\ UNCHANGED <<stream, ctxDone>>
    BY <1>9 DEF ReadGrain, AtElement, InLoop
  <2>2. CASE GrainError(stream, Element) = "nil"
    <3>1. /\ SeekAndWrite(Element) /\ pos' = pos + 1 /\ cut' \in BOOLEAN
          /\ UNCHANGED <<state, err>>
      BY <1>9, <2>2 DEF ReadGrain, Accepted
    <3>2. /\ pos \in 1 .. Len(stream.elements) /\ Element = stream.elements[pos]
          /\ HeaderError(stream) = "nil" /\ err = "none"
          /\ Honest(stream) => Done(pos) /\ Element.role # "table"
      BY <2>1, LoopFacts
    <3>3. PICK n \in Nat : n = pos + 1
      BY <1>1
    <3>4. Contents' /\ NothingMisplaced' /\ (Done(pos) => Done(n)')
      BY <2>1, <2>2, <3>1, <3>3, GrainDone
    <3>5. ASSUME Honest(stream)
          PROVE  n \in 1 .. Len(stream.elements) /\ stream.elements[n].role # "table" /\ Done(n)'
      <4>1. stream.elements[pos].role = "grain"
        BY <1>1, <2>1, <3>2, <3>5, Kinds
      <4>2. LandsOn(stream.elements, pos, 0)
        BY <3>2, <3>5, <4>1 DEF Honest
      <4>3. pos + 0 + 1 = n
        BY <1>1, <3>3
      <4>4. n \in 1 .. Len(stream.elements) /\ stream.elements[n].role # "table"
        BY <4>2, <4>3 DEF LandsOn
      <4> QED BY <3>2, <3>4, <3>5, <4>4
    <3>6. Progress'
      BY <2>1, <3>1, <3>2, <3>3, <3>5, LoopGoesOn
    <3>7. TypeOK'
      <4>1. \A s \in DOMAIN target' : target'[s] \in {Zero, Absent} \cup Nat
        BY <3>4 DEF Contents
      <4>2. pos' \in 1 .. (Len(stream'.elements) + 1)
        BY <1>1, <2>1, <3>1, <3>2
      <4> QED BY <1>1, <2>1, <3>1, <4>1, <4>2 DEF StreamInv, TypeOK
    <3> QED BY <3>4, <3>6, <3>7 DEF StreamInv
  <2>3. CASE GrainError(stream, Element) # "nil"
    <3>1. GrainError(stream, Element) \in {"size", "zlib", "lba", "capacity"}
      BY <2>3 DEF GrainError
    <3> QED BY <1>1, <1>2, <1>9, <2>3, <3>1 DEF ReadGrain, Accepted
  <2> QED BY <2>2, <2>3
<1>10. CASE WriteFails
  <2>1. /\ state = "loop" /\ ~AtEnd /\ IsGrain(Element) /\ GrainError(stream, Element) = "nil"
        /\ Return("write") /\ (UNCHANGED target \/ SeekAndWrite(Element))
        /\ UNCHANGED <<stream, pos, cut, ctxDone>>
    BY <1>10 DEF WriteFails, AtElement, InLoop, Accepted
  <2>2. Contents' /\ NothingMisplaced'
    BY <2>1, NoWriteKeeps, GrainDone
  <2> QED BY <1>1, <2>1, <2>2, ErrorReturnKeeps
<1>11. CASE Cancel
  <2>1. ctxDone' = TRUE /\ UNCHANGED <<stream, target, pos, state, err, cut>>
    BY <1>11 DEF Cancel
  <2>2. TypeOK'
    BY <1>1, <2>1 DEF StreamInv, TypeOK
  <2>3. Progress'
    BY <2>1 DEF StreamInv, Progress, AtMarker, Done
  <2> QED BY <2>1, <2>2, <2>3, NoWriteKeeps DEF StreamInv
<1>12. CASE UNCHANGED vars
  <2>1. UNCHANGED <<stream, target, pos, state, err, cut, ctxDone>>
    BY <1>12 DEF vars
  <2>2. TypeOK'
    BY <2>1 DEF StreamInv, TypeOK
  <2>3. Progress'
    BY <2>1 DEF StreamInv, Progress, AtMarker, Done
  <2> QED BY <2>1, <2>2, <2>3, NoWriteKeeps DEF StreamInv
<1> QED BY <1>3, <1>4, <1>5, <1>6, <1>7, <1>8, <1>9, <1>10, <1>11, <1>12
        DEF Next, ReaderStep, Returned

-----------------------------------------------------------------------------
(* Theorems *)

\* The inductive invariant, for any exports.
THEOREM StreamInvariant == Spec => []StreamInv
BY StreamInit, StreamStep, PTL DEF Spec

\* The reader's state is well formed, and it never reads past the end of the
\* stream, whatever lengths the stream states (StreamToRaw).
THEOREM StreamTypeCorrect == Spec => []TypeOK
<1>1. StreamInv => TypeOK
  BY DEF StreamInv
<1> QED BY <1>1, StreamInvariant, PTL

\* No grain is ever misplaced and nothing is written behind the capacity, at
\* any time and after any failure, also with damaged deflate streams and
\* lengths that are not true (processCompressedGrain).
THEOREM NoGrainMisplaced == Spec => []NothingMisplaced
<1>1. StreamInv => NothingMisplaced
  BY DEF StreamInv
<1> QED BY <1>1, StreamInvariant, PTL

\* If nil is returned on an intact connection for an export whose lengths are
\* true, every grain was accepted and is on the target.
LEMMA NilMeansDone ==
  ASSUME StreamInv, err = "nil", ~cut, Honest(stream), NEW i \in Grains(stream)
  PROVE  LET e == stream.elements[i]
         IN  /\ HeaderError(stream) = "nil" /\ stream.grain # 0 /\ stream \in Streams
             /\ i \in 1 .. Len(stream.elements) /\ IsGrain(e)
             /\ GrainError(stream, e) = "nil"
             /\ \A r \in Covered(stream, e) \ LostSectors(stream) : target[r] = stream.source[r]
<1>1. stream \in Streams /\ HeaderError(stream) = "nil" /\ Done(Len(stream.elements))
  BY DEF StreamInv, TypeOK, Progress
<1>2. stream.grain # 0
  BY <1>1 DEF HeaderError
<1>3. /\ i \in 1 .. Len(stream.elements) /\ stream.elements[i].role = "grain"
      /\ Len(stream.elements) \in Nat
  BY <1>1, ExportFacts DEF Grains
<1>4. IsGrain(stream.elements[i])
  BY <1>1, <1>3, Kinds
<1>5. i # Len(stream.elements)
  BY <1>1, <1>3, ExportFacts
<1>6. i < Len(stream.elements)
  BY <1>3, <1>5
<1> QED BY <1>1, <1>2, <1>3, <1>4, <1>6 DEF Done

\* A nil error on an intact connection, for an export whose lengths are true,
\* means that the header and every grain were accepted, and that each deflate
\* stream shorter than a grain was complete or cut short (StreamToRaw,
\* decompress).
THEOREM NilMeansAccepted == Spec => []NilMeansNoElementRefused
<1>1. StreamInv => NilMeansNoElementRefused
  <2> SUFFICES ASSUME StreamInv, err = "nil", ~cut, Honest(stream), NEW i \in Grains(stream)
               PROVE  LET e == stream.elements[i]
                      IN  Accepted(e) /\ ~Malformed(stream, e)
                          /\ (Len(e.data) < stream.grain => e.zlib \in {"ok", "truncated"})
    BY DEF NilMeansNoElementRefused, StreamInv, Progress
  <2> QED BY NilMeansDone, AcceptedNotMalformed DEF Accepted
<1> QED BY <1>1, StreamInvariant, PTL

\* Then all data of the source is in its place on the target, except what a
\* truncated deflate stream, or one whose checksum is wrong, has lost
\* (StreamToRaw, decompress).
THEOREM NilMeansDataInPlace == Spec => []DataInPlace
<1>1. StreamInv => DataInPlace
  <2> SUFFICES ASSUME StreamInv, err = "nil", ~cut, Honest(stream),
                      NEW s \in Sectors \ LostSectors(stream), stream.source[s] # Zero
               PROVE  target[s] = stream.source[s]
    BY DEF DataInPlace
  <2>1. \A i \in Grains(stream) : ~Malformed(stream, stream.elements[i])
    BY NilMeansDone, AcceptedNotMalformed
  <2>2. PICK i \in Grains(stream) : s \in Covered(stream, stream.elements[i])
    BY <2>1, Exports DEF StreamInv, TypeOK, Sectors
  <2> QED BY <2>2, NilMeansDone
<1> QED BY <1>1, StreamInvariant, PTL
=============================================================================
