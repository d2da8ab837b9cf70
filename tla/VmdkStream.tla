----------------------------- MODULE VmdkStream -----------------------------
(***************************************************************************)
(* StreamToRaw (src/pkg/copy/vmdk.go): the reader of a stream-optimized    *)
(* VMDK, one loop turn per action, and the connection it reads from, which *)
(* may be cut at any byte.  The stream is a sequence of sectors behind the *)
(* header; a compressed grain fills one.  A byte position is abstracted to *)
(* the field it falls in, because that is all the error handling           *)
(* distinguishes.  The data of sector s of the disk is written s, so a     *)
(* sector that lands in the wrong place is visible.                        *)
(***************************************************************************)
EXTENDS Integers, Sequences, FiniteSets, SequencesExt

CONSTANTS Streams,    \* the exports: [cap, grain, overHead, kind, source, elements, ...]
          SectorSize, \* bytes of a sector
          MaxInt,     \* largest int64 (scaled down)
          MaxGrainBytes

\* The range of int64 is a whole number of sectors, so a byte count that wraps
\* still ends at a sector.
ASSUME VmdkNumbers ==
    /\ SectorSize \in Nat \ {0} /\ MaxInt \in Nat /\ MaxGrainBytes \in Nat
    /\ 2 * MaxGrainBytes <= MaxInt
    /\ (2 * (MaxInt + 1)) % SectorSize = 0

VARIABLES stream,  \* the export being read
          target,  \* the target: sector -> its contents
          pos,     \* next sector of the stream
          state,   \* "header", "loop" or "returned"
          err,     \* "none", "nil" or the reason of the error
          cut,     \* the connection was cut before the end of the stream
          ctxDone  \* the shared context is cancelled

vars == <<stream, target, pos, state, err, cut, ctxDone>>

Zero == -1    \* a sector of zeros
Absent == -2  \* beyond the end of a file

\* A sector of the stream: what the server means by it (role), which no reader
\* sees, and what the reader finds when it takes the sector for a marker.
\* zlib says how the deflate stream behind the marker ends: complete ("ok"),
\* cut short ("truncated"), with a wrong checksum, broken ("corrupt"), or it
\* is none ("header"); data is what it yields up to there.
Marker(role, lba, size, mtype) ==
    [role |-> role, lba |-> lba, size |-> size, mtype |-> mtype,
     zlib |-> "header", data |-> <<>>]
GrainElement(lba, size, data) ==
    [Marker("grain", lba, size, 0) EXCEPT !.zlib = "ok", !.data = data]
MetaElement(lba) == Marker("meta", lba, 0, 1)
EosElement == Marker("eos", 0, 0, 0)

\* Sectors that are no markers: the descriptor in front, and a sparse table,
\* whose leading zeros would read as the end of the stream.
Descriptor == Marker("table", 1, 1, 0)
SparseTable == Marker("table", 0, 0, 0)

\* What an export of `image` looks like on the wire: the descriptor, a grain
\* per grain that has data, then its grain table; at the end the directory
\* and the EOS marker.  Zero grains are not sent.
Encode(image, cap, grain) ==
    LET Sectors(g) == (g * grain) .. ((g + 1) * grain - 1)
        Sent == {g \in 0 .. ((cap - 1) \div grain) :
                    \E s \in Sectors(g) : s < cap /\ image[s] # Zero}
        Data(g) == [i \in 1 .. IF (g + 1) * grain <= cap THEN grain
                                ELSE cap - g * grain |-> image[g * grain + i - 1]]
        Elements(g) == <<GrainElement(g * grain, grain * SectorSize, Data(g)),
                         MetaElement(1), SparseTable>>
    IN  <<Descriptor>>
        \o FlattenSeq([i \in 1 .. Len(SetToSortSeq(Sent, <)) |->
                        Elements(SetToSortSeq(Sent, <)[i])])
        \o <<MetaElement(1), SparseTable, EosElement>>

-----------------------------------------------------------------------------
(* decompress, and the places of a grain.                                  *)

\* io.ReadFull fills the grain buffer: what comes behind it, the checksum
\* included, is not looked at.
Decompressed(s, e) ==
    [i \in 1 .. (IF Len(e.data) < s.grain THEN Len(e.data) ELSE s.grain) |-> e.data[i]]

\* A stream that ends early gives what it held so far and no error
\* (io.ErrUnexpectedEOF is what a short last grain gives too); any other end
\* in front of a full buffer is an error, and so is a stream of no data.
DecompressError(s, e) ==
    IF /\ e.zlib # "header"
       /\ \/ Len(e.data) >= s.grain
          \/ e.zlib = "truncated"
          \/ e.zlib = "ok" /\ Len(e.data) > 0
    THEN "nil" ELSE "zlib"

Covered(s, e) == e.lba .. (e.lba + Len(Decompressed(s, e)) - 1)
Place(s, e) == e.lba .. (e.lba + s.grain - 1)

\* The sectors whose data a damaged deflate stream loses or spoils.
Lost(s, e) ==
    CASE e.zlib = "ok" -> {}
      [] e.zlib = "truncated" -> Place(s, e) \ Covered(s, e)
      [] OTHER -> Place(s, e)

Grains(s) == {i \in 1 .. Len(s.elements) : s.elements[i].role = "grain"}
LostSectors(s) == UNION {Lost(s, s.elements[i]) : i \in Grains(s)}

-----------------------------------------------------------------------------
(* What is assumed of the exporting server.                                *)

\* A grain no reader can place: it claims too many bytes, holds no data, or
\* does not lie within the disk.
Malformed(s, e) ==
    \/ e.size > 2 * s.grain * SectorSize
    \/ e.zlib = "ok" /\ e.data = <<>>
    \/ e.lba >= s.cap \/ e.lba + Len(Decompressed(s, e)) > s.cap

\* The end marker comes last; what is no marker holds no deflate stream; a
\* grain that lies within the disk carries what the source has at its place,
\* as far as its stream goes; and if no grain is malformed, all data is in
\* some grain.  Streams are shorter than what an int64 counts.
ASSUME Exports ==
    \A s \in Streams :
        LET E == s.elements
        IN  /\ s.cap \in Nat /\ s.grain \in Nat /\ s.overHead \in Nat
            /\ Len(E) \in Nat \ {0} /\ (Len(E) + 1) * SectorSize <= MaxInt
            /\ \A i \in 1 .. Len(E) :
                  /\ E[i].lba \in Nat /\ E[i].size \in Nat /\ E[i].mtype \in Nat
                  /\ E[i].data \in Seq({Zero} \cup Nat)
                  /\ E[i].zlib \in {"ok", "truncated", "checksum", "corrupt", "header"}
                  /\ \/ E[i].role = "grain" /\ E[i].size > 0
                     \/ E[i].role = "meta" /\ E[i].size = 0 /\ E[i].mtype > 0
                     \/ E[i].role = "eos" /\ E[i].size = 0 /\ E[i].mtype = 0
                     \/ E[i].role = "table" /\ E[i].zlib = "header"
                  /\ E[i].role = "eos" <=> i = Len(E)
            /\ \A r \in DOMAIN s.source :
                  r \in 0 .. (s.cap + s.grain) /\ s.source[r] \in {Zero} \cup Nat
            /\ \A i \in Grains(s) :
                  E[i].zlib \in {"ok", "truncated"} /\ ~Malformed(s, E[i]) =>
                      \A r \in Covered(s, E[i]) :
                          r \in DOMAIN s.source
                          /\ Decompressed(s, E[i])[r - E[i].lba + 1] = s.source[r]
            /\ (\A i \in Grains(s) : ~Malformed(s, E[i])) =>
                  \A r \in DOMAIN s.source :
                      s.source[r] # Zero =>
                          r \in LostSectors(s) \/ \E i \in Grains(s) : r \in Covered(s, E[i])

\* Skipping n sectors behind the i-th leads to the next marker.
LandsOn(E, i, n) ==
    /\ i + n + 1 \in 1 .. Len(E) /\ E[i + n + 1].role # "table"
    /\ \A j \in (i + 1) .. (i + n) : E[j].role = "table"

\* The lengths an export states are true: its overhead, which counts the
\* header, and the payload of every metadata marker.
Honest(s) ==
    LET E == s.elements
    IN  /\ LandsOn(E, 0, IF s.overHead = 0 THEN 0 ELSE s.overHead - 1)
        /\ \A i \in 1 .. Len(E) :
              /\ E[i].role = "grain" => LandsOn(E, i, 0)
              /\ E[i].role = "meta" => LandsOn(E, i, E[i].lba)

-----------------------------------------------------------------------------

\* The target as CopyDisk opens it: a file is truncated, a block device is
\* as long as it is and assumed zeroed.
OpenedTarget(s) ==
    [n \in 0 .. (s.cap + s.grain) |-> IF s.kind = "block" THEN Zero ELSE Absent]

Init ==
    /\ stream \in Streams
    /\ target = OpenedTarget(stream)
    /\ pos = 1 /\ state = "header" /\ err = "none"
    /\ cut = FALSE /\ ctxDone = FALSE

Return(e) == state' = "returned" /\ err' = e

-----------------------------------------------------------------------------
(* The header.                                                             *)

\* A uint64 taken as an int64, and an int64 product: both wrap.
Int64(n) == ((n + MaxInt + 1) % (2 * (MaxInt + 1))) - (MaxInt + 1)

\* io.CopyN discards nothing when its count is not positive.
Skipped(bytes) == IF bytes > 0 THEN bytes \div SectorSize ELSE 0

OverheadSkip(s) ==
    LET skipSectors == Int64(Int64(s.overHead) - 1)
    IN  IF skipSectors > 0 THEN Skipped(Int64(skipSectors * SectorSize)) ELSE 0

MetadataSkip(e) == Skipped(Int64(Int64(e.lba) * SectorSize))

\* The guards on capacity and grain size; the multiplications after them
\* are exact.
HeaderError(s) ==
    CASE ~s.magic -> "magic"
      [] s.version \notin 1 .. 3 -> "version"
      [] s.cap > MaxInt \div SectorSize -> "capacity"
      [] s.grain = 0 -> "grain"
      [] s.grain > MaxInt \div SectorSize -> "grain"
      [] s.grain * SectorSize > MaxGrainBytes -> "grain"
      [] OTHER -> "nil"

\* Then the overhead area is skipped; it is an error when the stream ends in
\* it, as it may if overHead is not true.
ReadHeader ==
    /\ state = "header" /\ ~cut
    /\ IF HeaderError(stream) # "nil" THEN Return(HeaderError(stream)) /\ UNCHANGED pos
       ELSE IF OverheadSkip(stream) > Len(stream.elements) THEN Return("read") /\ UNCHANGED pos
       ELSE state' = "loop" /\ pos' = 1 + OverheadSkip(stream) /\ UNCHANGED err
    /\ UNCHANGED <<stream, target, cut, ctxDone>>

\* A cut inside the header or the overhead area behind it is an error.
CutInHeader ==
    /\ state = "header" /\ ~cut
    /\ cut' = TRUE /\ Return("read")
    /\ UNCHANGED <<stream, target, pos, ctxDone>>

-----------------------------------------------------------------------------
(* One turn of the loop.                                                   *)

InLoop == state = "loop" /\ ~ctxDone
AtEnd == pos > Len(stream.elements)
AtElement == InLoop /\ ~cut /\ ~AtEnd
Element == stream.elements[pos]

\* What the reader takes the sector for: size and type field decide.
IsGrain(e) == e.size > 0
IsEos(e) == e.size = 0 /\ e.mtype = 0
IsMeta(e) == e.size = 0 /\ e.mtype > 0

LoopCancelled ==
    /\ state = "loop" /\ ctxDone
    /\ Return("ctx")
    /\ UNCHANGED <<stream, target, pos, cut, ctxDone>>

\* The connection ends in front of the marker, inside it, or inside the type
\* field that follows a marker of size zero.  Both io.EOF and
\* io.ErrUnexpectedEOF break out of the loop and StreamToRaw returns nil.
CutAtMarker ==
    /\ InLoop
    /\ cut' = TRUE /\ Return("nil")
    /\ UNCHANGED <<stream, target, pos, ctxDone>>

\* A reader that is out of step with the stream comes to its end in the same
\* way without a cut.
EndOfStream ==
    /\ InLoop /\ ~cut /\ AtEnd
    /\ Return("nil")
    /\ UNCHANGED <<stream, target, pos, cut, ctxDone>>

\* The same place, but the connection was reset: any other read error.
ResetAtMarker ==
    /\ InLoop /\ ~cut
    /\ cut' = TRUE /\ Return("read")
    /\ UNCHANGED <<stream, target, pos, ctxDone>>

\* processMetadataMarker: the end-of-stream marker ends the loop.
ReadEos ==
    /\ AtElement /\ IsEos(Element)
    /\ Return("nil")
    /\ UNCHANGED <<stream, target, pos, cut, ctxDone>>

\* Any other marker is skipped with as many sectors as its LBA comes to in
\* int64 bytes; it is an error when the stream ends in them.
SkipMetadata ==
    /\ AtElement /\ IsMeta(Element)
    /\ IF pos + MetadataSkip(Element) > Len(stream.elements)
       THEN Return("read") /\ UNCHANGED pos
       ELSE pos' = pos + 1 + MetadataSkip(Element) /\ UNCHANGED <<state, err>>
    /\ UNCHANGED <<stream, target, cut, ctxDone>>

\* The connection ends or is reset inside what follows a marker.  The size
\* of a grain is checked before its data is read.
CutInPayload ==
    /\ AtElement
    /\ \/ IsMeta(Element)
       \/ IsGrain(Element) /\ Element.size <= 2 * stream.grain * SectorSize
    /\ cut' = TRUE /\ Return("read")
    /\ UNCHANGED <<stream, target, pos, ctxDone>>

GrainError_NoEndCheck(s, e) ==
    CASE e.size > 2 * s.grain * SectorSize -> "size"
      [] DecompressError(s, e) # "nil" -> "zlib"
      [] e.lba > MaxInt \div SectorSize -> "lba"
      [] e.lba >= s.cap -> "capacity"
      [] OTHER -> "nil"

\* processCompressedGrain up to the write: what the element is refused for.
GrainError(s, e) ==
    LET cap == s.cap * SectorSize
        offset == e.lba * SectorSize
        end == offset + Len(Decompressed(s, e)) * SectorSize
    IN  CASE e.size > 2 * s.grain * SectorSize -> "size"
          [] DecompressError(s, e) # "nil" -> "zlib"
          [] e.lba > MaxInt \div SectorSize -> "lba"
          [] offset >= cap \/ end > cap -> "capacity"
          [] OTHER -> "nil"

Accepted(e) == GrainError(stream, e) = "nil"

SeekAndWrite_NoSeek(e) ==
    LET first == Cardinality({i \in Grains(stream) : i < pos}) * stream.grain
        data == Decompressed(stream, e)
    IN  target' = [s \in DOMAIN target |->
                      IF s \in first .. (first + Len(data) - 1)
                      THEN data[s - first + 1] ELSE target[s]]

\* w.Seek(offset) and w.Write(data); a write behind the end of a file turns
\* the gap in front of it into zeros, a write of no bytes does nothing.
SeekAndWrite(e) ==
    target' = [s \in DOMAIN target |->
                  IF s \in Covered(stream, e)
                  THEN Decompressed(stream, e)[s - e.lba + 1]
                  ELSE IF Covered(stream, e) # {} /\ s < e.lba /\ target[s] = Absent
                  THEN Zero
                  ELSE target[s]]

ReadGrain_SkipsRefused ==
    /\ AtElement /\ IsGrain(Element)
    /\ IF Accepted(Element)
       THEN SeekAndWrite(Element) /\ cut' \in BOOLEAN
       ELSE UNCHANGED <<target, cut>>
    /\ pos' = pos + 1
    /\ UNCHANGED <<stream, state, err, ctxDone>>

\* A complete grain; or one whose padding is cut off, which the code accepts
\* and which leaves the stream at its end.
ReadGrain ==
    /\ AtElement /\ IsGrain(Element)
    /\ IF Accepted(Element)
       THEN /\ SeekAndWrite(Element)
            /\ pos' = pos + 1
            /\ cut' \in BOOLEAN
            /\ UNCHANGED <<state, err>>
       ELSE Return(GrainError(stream, Element)) /\ UNCHANGED <<target, pos, cut>>
    /\ UNCHANGED <<stream, ctxDone>>

\* Seek failing on the target, or Write with or without its data written.
WriteFails ==
    /\ AtElement /\ IsGrain(Element) /\ Accepted(Element)
    /\ Return("write")
    /\ UNCHANGED target \/ SeekAndWrite(Element)
    /\ UNCHANGED <<stream, pos, cut, ctxDone>>

\* Another disk failed and cancelled the shared context.
Cancel ==
    /\ state # "returned" /\ ~ctxDone
    /\ ctxDone' = TRUE
    /\ UNCHANGED <<stream, target, pos, state, err, cut>>

Returned == state = "returned" /\ UNCHANGED vars

ReaderStep ==
    \/ ReadHeader \/ CutInHeader \/ LoopCancelled \/ CutAtMarker
    \/ EndOfStream \/ ResetAtMarker \/ ReadEos \/ SkipMetadata \/ CutInPayload
    \/ ReadGrain \/ WriteFails

Next == ReaderStep \/ Cancel \/ Returned

Spec == Init /\ [][Next]_vars

-----------------------------------------------------------------------------
\* The state of the reader is well formed; in particular it never reads past
\* the end of the stream, whatever lengths the stream states.
TypeOK ==
    /\ stream \in Streams
    /\ \A s \in DOMAIN target : target[s] \in {Zero, Absent} \cup Nat
    /\ pos \in 1 .. (Len(stream.elements) + 1)
    /\ state \in {"header", "loop", "returned"}
    /\ err \in {"none", "nil", "magic", "version", "capacity", "grain", "read",
                "ctx", "size", "zlib", "lba", "write"}
    /\ {cut, ctxDone} \subseteq BOOLEAN

Sectors == DOMAIN stream.source

\* An export whose lengths are true and that was read to its end without an
\* error has put every sector that carries data where the source has it,
\* except what the deflate streams themselves lost: decompress accepts one
\* that is truncated and one whose checksum is wrong, so the nil error of
\* StreamToRaw does not speak for these sectors.
DataInPlace ==
    err = "nil" /\ ~cut /\ Honest(stream) =>
        \A s \in Sectors \ LostSectors(stream) :
            stream.source[s] # Zero => target[s] = stream.source[s]

\* At any time, after any failure too, and whatever lengths the stream states,
\* a sector of the target holds what the source has there, what a spoiled
\* grain carries for it, what it held before, or the zeros of a gap: no grain
\* is ever misplaced, and nothing is written behind the disk's capacity.
NothingMisplaced ==
    \A s \in DOMAIN target :
        \/ target[s] = OpenedTarget(stream)[s]
        \/ /\ s < stream.cap
           /\ \/ s \in Sectors /\ target[s] = stream.source[s]
              \/ \E i \in Grains(stream) :
                    LET e == stream.elements[i]
                    IN  /\ e.zlib \notin {"ok", "truncated"} /\ s \in Covered(stream, e)
                        /\ target[s] = Decompressed(stream, e)[s - e.lba + 1]
              \/ /\ OpenedTarget(stream)[s] = Absent /\ target[s] = Zero
                 /\ \E r \in DOMAIN target : r > s /\ target[r] # Absent

\* With every byte delivered and lengths that are true, nil means that the
\* reader went through the whole export and refused nothing: the header is
\* valid and no grain claims too much, lies outside of the disk, or has a
\* deflate stream that decompress reports (StreamToRaw, decompress).
NilMeansNoElementRefused ==
    err = "nil" /\ ~cut /\ Honest(stream) =>
        /\ HeaderError(stream) = "nil"
        /\ \A i \in Grains(stream) :
              LET e == stream.elements[i]
              IN  Accepted(e) /\ ~Malformed(stream, e)
                  /\ (Len(e.data) < stream.grain => e.zlib \in {"ok", "truncated"})

\* "reads a stream-optimized VMDK from r and writes the decompressed raw disk
\* image to w" (src/pkg/copy/vmdk.go): a nil error means that the data of
\* the whole image has been written, at least of an export whose lengths are
\* true.
NilMeansWholeImage ==
    err = "nil" /\ Honest(stream) =>
        \A s \in Sectors : stream.source[s] # Zero => target[s] = stream.source[s]
=============================================================================
