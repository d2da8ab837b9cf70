------------------------------ MODULE Overlay ------------------------------
(***************************************************************************)
(* RunWithOverlay (src/pkg/prepare/guest/overlay/overlay.go): a qcow2      *)
(* overlay is created over every disk, a function runs on the overlays,    *)
(* and the overlays are committed into their backing disks one after the   *)
(* other, or discarded.  The function and qemu-img may fail at any point   *)
(* and the process may be killed at any point.                             *)
(*                                                                         *)
(* Disk contents are sets of edits: what was written since the start.      *)
(***************************************************************************)
EXTENDS Naturals

CONSTANTS N,     \* number of disks
          Edits  \* what the function may write to a disk

ASSUME OverlayAssumption == N \in Nat \ {0}

Disks == 1 .. N

VARIABLES
    pc,      \* create, fn, commit, returned; killed when the process died
    k,       \* the disk CreateOverlays or CommitOverlays is at
    path,    \* disk.Path: "backing" or "overlay"
    present, \* the disks whose overlay file exists
    delta,   \* what each overlay file holds over its backing disk
    backing, \* what each backing disk holds
    ret,     \* what RunWithOverlay returned
    fnRet,   \* history: what the function returned
    written  \* history: what the function wrote to each disk

ovVars == <<pc, k, path, present, delta, backing, ret, fnRet, written>>

Empty == [d \in Disks |-> {}]

\* The state of RunWithOverlay is well formed; in particular neither loop
\* runs past the last disk.
OverlayTypeOK ==
    /\ pc \in {"create", "fn", "commit", "returned", "killed"}
    /\ k \in 1 .. N + 1
    /\ path \in [Disks -> {"backing", "overlay"}]
    /\ present \in SUBSET Disks
    /\ delta \in [Disks -> SUBSET Edits]
    /\ backing \in [Disks -> SUBSET Edits]
    /\ written \in [Disks -> SUBSET Edits]
    /\ ret \in {"none", "ok", "error"}
    /\ fnRet \in {"none", "ok", "error"}

OverlayInit ==
    /\ pc = "create" /\ k = 1
    /\ path = [d \in Disks |-> "backing"]
    /\ present = {} /\ delta = Empty /\ backing = Empty /\ written = Empty
    /\ ret = "none" /\ fnRet = "none"

ReturnTo(r) == pc' = "returned" /\ ret' = r

\* DiscardOverlays(overlays): remove the files, then restorePaths.
DiscardOverlays(overlays) ==
    /\ present' = present \ overlays
    /\ path' = [d \in Disks |-> IF d \in overlays THEN "backing" ELSE path[d]]

-----------------------------------------------------------------------------
(* CreateOverlays.                                                         *)

CreateOne_KeepsPath ==
    /\ pc = "create" /\ k <= N
    /\ present' = present \cup {k} /\ delta' = [delta EXCEPT ![k] = {}]
    /\ k' = k + 1
    /\ UNCHANGED <<pc, path, backing, ret, fnRet, written>>

CreateOne ==
    /\ pc = "create" /\ k <= N
    /\ present' = present \cup {k} /\ delta' = [delta EXCEPT ![k] = {}]
    /\ path' = [path EXCEPT ![k] = "overlay"]
    /\ k' = k + 1
    /\ UNCHANGED <<pc, backing, ret, fnRet, written>>

\* qemu-img create fails: the file it may have left is removed and the
\* overlays created before it are discarded.
CreateFails ==
    /\ pc = "create" /\ k <= N
    /\ DiscardOverlays(1 .. k)
    /\ ReturnTo("error")
    /\ UNCHANGED <<k, delta, backing, fnRet, written>>

CreateDone ==
    /\ pc = "create" /\ k > N
    /\ pc' = "fn"
    /\ UNCHANGED <<k, path, present, delta, backing, ret, fnRet, written>>

-----------------------------------------------------------------------------
(* The function.  A disk is written through the path it was given.         *)

WriteDisks(S, E) ==
    LET add(f, p) == [d \in Disks |-> IF d \in S /\ path[d] = p
                                      THEN f[d] \cup E ELSE f[d]]
    IN  /\ delta' = add(delta, "overlay")
        /\ backing' = add(backing, "backing")
        /\ written' = [d \in Disks |-> IF d \in S THEN written[d] \cup E
                                       ELSE written[d]]

FnWrite(S, E) ==
    /\ pc = "fn"
    /\ WriteDisks(S, E)
    /\ UNCHANGED <<pc, k, path, present, ret, fnRet>>

FnOk ==
    /\ pc = "fn"
    /\ pc' = "commit" /\ k' = 1 /\ fnRet' = "ok"
    /\ UNCHANGED <<path, present, delta, backing, ret, written>>

FnFails_KeepsOverlays ==
    /\ pc = "fn"
    /\ fnRet' = "error" /\ ReturnTo("error")
    /\ UNCHANGED <<k, path, present, delta, backing, written>>

FnFails ==
    /\ pc = "fn"
    /\ DiscardOverlays(Disks)
    /\ fnRet' = "error" /\ ReturnTo("error")
    /\ UNCHANGED <<k, delta, backing, written>>

-----------------------------------------------------------------------------
(* CommitOverlays.                                                         *)

CommitSome_FirstDisk(E) ==
    /\ pc = "commit" /\ k <= N
    /\ E \subseteq delta[k] /\ ~(E \subseteq backing[k])
    /\ backing' = [backing EXCEPT ![1] = @ \cup E]
    /\ UNCHANGED <<pc, k, path, present, delta, ret, fnRet, written>>

\* qemu-img commit copies the overlay's contents into the backing disk piece
\* by piece.
CommitSome(E) ==
    /\ pc = "commit" /\ k <= N
    /\ E \subseteq delta[k] /\ ~(E \subseteq backing[k])
    /\ backing' = [backing EXCEPT ![k] = @ \cup E]
    /\ UNCHANGED <<pc, k, path, present, delta, ret, fnRet, written>>

\* It is done; the overlay is removed.
CommitOne_Unfinished ==
    /\ pc = "commit" /\ k <= N
    /\ present' = present \ {k} /\ k' = k + 1
    /\ UNCHANGED <<pc, path, delta, backing, ret, fnRet, written>>

CommitOne ==
    /\ pc = "commit" /\ k <= N
    /\ delta[k] \subseteq backing[k]
    /\ present' = present \ {k} /\ k' = k + 1
    /\ UNCHANGED <<pc, path, delta, backing, ret, fnRet, written>>

\* It fails: DiscardOverlays, and once more in RunWithOverlay's defer, which
\* finds nothing left to do.
CommitFails ==
    /\ pc = "commit" /\ k <= N
    /\ DiscardOverlays(Disks)
    /\ ReturnTo("error")
    /\ UNCHANGED <<k, delta, backing, fnRet, written>>

CommitDone ==
    /\ pc = "commit" /\ k > N
    /\ path' = [d \in Disks |-> "backing"]
    /\ ReturnTo("ok")
    /\ UNCHANGED <<k, present, delta, backing, fnRet, written>>

Killed ==
    /\ pc \notin {"returned", "killed"}
    /\ pc' = "killed"
    /\ UNCHANGED <<k, path, present, delta, backing, ret, fnRet, written>>

Ended == pc \in {"returned", "killed"} /\ UNCHANGED ovVars

OverlayStep ==
    \/ CreateOne \/ CreateFails \/ CreateDone
    \/ (\E E \in SUBSET Edits : CommitSome(E)) \/ CommitOne \/ CommitFails \/ CommitDone

OverlayNext ==
    \/ OverlayStep \/ FnOk \/ FnFails \/ Killed \/ Ended
    \/ \E S \in SUBSET Disks, E \in SUBSET Edits : FnWrite(S, E)

OverlaySpec == OverlayInit /\ [][OverlayNext]_ovVars

-----------------------------------------------------------------------------
(* Properties.                                                             *)

\* No backing disk is changed before the function has returned nil, however
\* the run ends: also when an overlay cannot be created, when the function
\* fails and when the process is killed.
BackingUntouchedUntilCommit == fnRet # "ok" => backing = Empty

\* RunWithOverlay returns nil only when everything the function wrote to any
\* disk is on its backing disk.
SuccessMeansCommitted == ret = "ok" => backing = written

\* When RunWithOverlay has returned no overlay file is left behind and every
\* disk's path points at its backing disk again, on every error path.
NothingLeftBehind ==
    pc = "returned" => present = {} /\ \A d \in Disks : path[d] = "backing"

\* A commit never takes back what is on a backing disk, and only ever adds
\* what the function wrote to that disk: overlays are not mixed up.
CommitAddsWrittenOnly ==
    [][\A d \in Disks : /\ backing[d] \subseteq backing'[d]
                        /\ backing'[d] \subseteq written'[d]]_ovVars
=============================================================================
