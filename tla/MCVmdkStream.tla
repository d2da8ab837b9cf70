---------------------------- MODULE MCVmdkStream ----------------------------
(* Exports of disks of four sectors in grains of two, every placement of   *)
(* data and zeros, to a file or to a block device; exports with one        *)
(* malformed header field, one malformed or damaged grain, or one length   *)
(* that is not true, among them lengths that wrap to nothing, to a         *)
(* negative number and to a wrong one.  MaxInt is scaled so that the       *)
(* largest legal capacity and LBA are within reach.                        *)
EXTENDS VmdkStream

Cap == 4
Grain == 2

Images == {[s \in 0 .. Cap - 1 |-> IF s \in D THEN s ELSE Zero] :
              D \in SUBSET (0 .. Cap - 1)}

Export(image, kind) ==
    [magic |-> TRUE, version |-> 1, cap |-> Cap, grain |-> Grain, overHead |-> 2, kind |-> kind,
     source |-> image, elements |-> Encode(image, Cap, Grain)]

Good == {Export(i, k) : i \in Images, k \in {"block", "file"}}

FullImage == [s \in 0 .. Cap - 1 |-> s]
Full == Export(FullImage, "block")

BadHeaders ==
    {[Full EXCEPT !.magic = FALSE], [Full EXCEPT !.version = 0],
     [Full EXCEPT !.version = 4], [Full EXCEPT !.cap = MaxInt \div SectorSize + 1],
     [Full EXCEPT !.grain = 0], [Full EXCEPT !.grain = MaxInt \div SectorSize + 1],
     [Full EXCEPT !.grain = MaxGrainBytes \div SectorSize + 1]}

\* The grain at element i replaced by a malformed one.
With(i, e) == [Full EXCEPT !.elements[i] = e]
BadGrains(i) ==
    LET e0 == Full.elements[i]
    IN  {With(i, e) : e \in
           {[e0 EXCEPT !.size = 2 * Grain * SectorSize + 1],
            [e0 EXCEPT !.data = <<>>],
            [e0 EXCEPT !.lba = Cap], [e0 EXCEPT !.lba = Cap - 1],
            [e0 EXCEPT !.lba = MaxInt \div SectorSize + 1]}}

\* Its deflate stream damaged: cut short behind any sector, or broken with
\* more, less or as much data as a grain holds.
DamagedGrains(i) ==
    LET e0 == Full.elements[i]
    IN  {With(i, [e0 EXCEPT !.zlib = "truncated", !.data = SubSeq(@, 1, n)]) : n \in 0 .. Grain}
        \cup {With(i, [e0 EXCEPT !.zlib = z, !.data = [k \in 1 .. n |-> 90 + k]]) :
                 z \in {"checksum", "corrupt", "header"}, n \in (Grain - 1) .. (Grain + 1)}

\* The length of the payload, or of the overhead, not true: 34 wraps to 2.
BadLengths ==
    {With(i, [Full.elements[i] EXCEPT !.lba = n]) : i \in {3, 8}, n \in {0, 2, 16, 32, 34}}
    \cup {[Full EXCEPT !.overHead = n] : n \in {0, 1, 3, 5, 17, 35, 63}}

MCStreams ==
    Good \cup BadHeaders \cup BadLengths
    \cup UNION {BadGrains(i) \cup DamagedGrains(i) : i \in {2, 5}}
=============================================================================
