--------------------------- MODULE Overlay_proofs ---------------------------
(***************************************************************************)
(* Proofs about Overlay for any number of disks and any set of edits: the  *)
(* type invariant, the three safety invariants and the action property     *)
(* that MCOverlay checks on three disks.                                   *)
(*                                                                         *)
(* The invariants are not inductive by themselves: that an error path      *)
(* leaves nothing behind depends on exactly which overlays exist at each   *)
(* position of the create and of the commit loop, and that success means   *)
(* committed depends on what the finished part of the commit loop has      *)
(* done.  OverlayInv adds these facts.                                     *)
(***************************************************************************)
EXTENDS Overlay, TLAPS

\* The overlays that exist and the paths that are redirected, by position.
Positions ==
    /\ pc = "create" => /\ present = 1 .. (k - 1)
                        /\ \A d \in Disks :
                              path[d] = IF d < k THEN "overlay" ELSE "backing"
                        /\ fnRet = "none" /\ ret = "none"
    /\ pc = "fn" => /\ present = Disks /\ fnRet = "none" /\ ret = "none"
                    /\ \A d \in Disks : path[d] = "overlay"
    /\ pc = "commit" => present = k .. N /\ fnRet = "ok" /\ ret = "none"
    /\ pc = "returned" =>
          present = {} /\ \A d \in Disks : path[d] = "backing"
    /\ pc = "killed" => ret = "none"

\* What is where: an overlay holds what was written to its disk, a backing
\* disk never more than that, and all of it once its commit is done.
Contents ==
    /\ delta = written
    /\ \A d \in Disks : backing[d] \subseteq delta[d]
    /\ pc = "commit" => \A d \in Disks : d < k => backing[d] = delta[d]
    /\ fnRet # "ok" => backing = Empty
    /\ pc = "create" => written = Empty
    /\ ret = "ok" => backing = written

OverlayInv == OverlayTypeOK /\ Positions /\ Contents

USE OverlayAssumption

\* The invariant holds when RunWithOverlay is called.
LEMMA InitInv == OverlayInit => OverlayInv
BY DEF OverlayInit, OverlayInv, OverlayTypeOK, Positions, Contents, Empty, Disks

-----------------------------------------------------------------------------
(* One lemma per group of actions.                                         *)

\* Creating overlays, also when qemu-img fails on one of them.
LEMMA CreateInv ==
    OverlayInv /\ (CreateOne \/ CreateFails \/ CreateDone) => OverlayInv'
<1> SUFFICES ASSUME OverlayInv, CreateOne \/ CreateFails \/ CreateDone
             PROVE  OverlayInv'
    OBVIOUS
<1> USE DEF OverlayInv, OverlayTypeOK, Positions, Contents, Empty, Disks
<1>1. CASE CreateOne
    <2>1. OverlayTypeOK'
        BY <1>1 DEF CreateOne
    <2>2. Positions'
        BY <1>1 DEF CreateOne
    <2>3. delta' = delta
        BY <1>1 DEF CreateOne
    <2>4. Contents'
        BY <1>1, <2>3 DEF CreateOne
    <2> QED BY <2>1, <2>2, <2>4
<1>2. CASE CreateFails
    BY <1>2 DEF CreateFails, DiscardOverlays, ReturnTo
<1>3. CASE CreateDone
    BY <1>3 DEF CreateDone
<1> QED BY <1>1, <1>2, <1>3

\* The function writes through the redirected paths and returns.
LEMMA FnInv ==
    OverlayInv /\ (FnOk \/ FnFails \/ \E S \in SUBSET Disks, E \in SUBSET Edits :
                                        FnWrite(S, E)) => OverlayInv'
<1> SUFFICES ASSUME OverlayInv,
                    FnOk \/ FnFails \/ \E S \in SUBSET Disks, E \in SUBSET Edits :
                                        FnWrite(S, E)
             PROVE  OverlayInv'
    OBVIOUS
<1> USE DEF OverlayInv, OverlayTypeOK, Positions, Contents, Empty, Disks
<1>1. CASE FnOk
    BY <1>1 DEF FnOk
<1>2. CASE FnFails
    BY <1>2 DEF FnFails, DiscardOverlays, ReturnTo
<1>3. ASSUME NEW S \in SUBSET Disks, NEW E \in SUBSET Edits, FnWrite(S, E)
      PROVE  OverlayInv'
    <2>1. OverlayTypeOK' /\ Positions'
        BY <1>3 DEF FnWrite, WriteDisks
    <2>2. delta' = written'
        BY <1>3 DEF FnWrite, WriteDisks
    <2>3. backing' = backing
        BY <1>3 DEF FnWrite, WriteDisks
    <2>4. \A d \in Disks : delta[d] \subseteq delta'[d]
        BY <1>3 DEF FnWrite, WriteDisks
    <2>5. Contents'
        BY <1>3, <2>2, <2>3, <2>4 DEF FnWrite
    <2> QED BY <2>1, <2>5
<1> QED BY <1>1, <1>2, <1>3

\* Committing, also when qemu-img fails half way through a disk.
LEMMA CommitInv ==
    OverlayInv /\ (\/ \E E \in SUBSET Edits : CommitSome(E)
                  \/ CommitOne \/ CommitFails \/ CommitDone) => OverlayInv'
<1> SUFFICES ASSUME OverlayInv,
                    \/ \E E \in SUBSET Edits : CommitSome(E)
                    \/ CommitOne \/ CommitFails \/ CommitDone
             PROVE  OverlayInv'
    OBVIOUS
<1> USE DEF OverlayInv, OverlayTypeOK, Positions, Contents, Empty, Disks
<1>1. ASSUME NEW E \in SUBSET Edits, CommitSome(E) PROVE OverlayInv'
    <2>1. OverlayTypeOK' /\ Positions'
        BY <1>1 DEF CommitSome
    <2>2. \A d \in Disks : d # k => backing'[d] = backing[d]
        BY <1>1 DEF CommitSome
    <2>3. backing'[k] \subseteq delta[k]
        BY <1>1 DEF CommitSome
    <2>4. Contents'
        BY <1>1, <2>2, <2>3 DEF CommitSome
    <2> QED BY <2>1, <2>4
<1>2. CASE CommitOne
    <2>1. present' = (k + 1) .. N
        BY <1>2 DEF CommitOne
    <2>2. backing[k] = delta[k]
        <3>1. k \in Disks /\ delta[k] \subseteq backing[k]
            BY <1>2 DEF CommitOne
        <3>2. backing[k] \subseteq delta[k]
            BY <3>1
        <3> QED BY <3>1, <3>2, Zenon
    <2>3. OverlayTypeOK' /\ Positions'
        BY <1>2, <2>1 DEF CommitOne
    <2>4. \A d \in Disks : d < k' => backing'[d] = delta'[d]
        BY <1>2, <2>2 DEF CommitOne
    <2>5. Contents'
        BY <1>2, <2>4 DEF CommitOne
    <2> QED BY <2>3, <2>5
<1>3. CASE CommitFails
    <2>1. OverlayTypeOK' /\ Positions'
        BY <1>3 DEF CommitFails, DiscardOverlays, ReturnTo
    <2>2. Contents'
        BY <1>3 DEF CommitFails, ReturnTo
    <2> QED BY <2>1, <2>2
<1>4. CASE CommitDone
    <2>1. \A d \in Disks : backing[d] = delta[d]
        BY <1>4 DEF CommitDone
    <2>2. backing = written
        BY <2>1
    <2>3. present = {}
        BY <1>4 DEF CommitDone
    <2> QED BY <1>4, <2>2, <2>3 DEF CommitDone, ReturnTo
<1> QED BY <1>1, <1>2, <1>3, <1>4

\* Being killed at any point.
LEMMA KilledInv == OverlayInv /\ (Killed \/ UNCHANGED ovVars) => OverlayInv'
<1> SUFFICES ASSUME OverlayInv, Killed \/ UNCHANGED ovVars PROVE OverlayInv'
    OBVIOUS
<1> USE DEF OverlayInv, OverlayTypeOK, Positions, Contents, Empty, Disks
<1>1. CASE Killed
    <2>1. OverlayTypeOK' /\ Positions'
        BY <1>1 DEF Killed
    <2>2. Contents'
        BY <1>1 DEF Killed
    <2> QED BY <2>1, <2>2
<1>2. CASE UNCHANGED ovVars
    BY <1>2 DEF ovVars
<1> QED BY <1>1, <1>2

\* Every step keeps the invariant.
LEMMA StepInv == OverlayInv /\ [OverlayNext]_ovVars => OverlayInv'
BY CreateInv, FnInv, CommitInv, KilledInv DEF OverlayNext, OverlayStep, Ended

\* The facts about positions and contents hold throughout every run of
\* RunWithOverlay.
THEOREM OverlayInvariant == OverlaySpec => []OverlayInv
BY InitInv, StepInv, PTL DEF OverlaySpec

-----------------------------------------------------------------------------
\* The state of RunWithOverlay stays well formed: the loop index of
\* CreateOverlays and CommitOverlays never leaves the list of disks by more
\* than its end.
THEOREM OverlayTypeCorrect == OverlaySpec => []OverlayTypeOK
BY OverlayInvariant, PTL DEF OverlayInv

\* No backing disk changes before the wrapped function has returned nil.
THEOREM BackingUntouched == OverlaySpec => []BackingUntouchedUntilCommit
<1>1. OverlayInv => BackingUntouchedUntilCommit
    BY DEF OverlayInv, Contents, BackingUntouchedUntilCommit
<1> QED BY <1>1, OverlayInvariant, PTL

\* A nil result of RunWithOverlay means that all that was written is on the
\* backing disks.
THEOREM SuccessCommitted == OverlaySpec => []SuccessMeansCommitted
<1>1. OverlayInv => SuccessMeansCommitted
    BY DEF OverlayInv, Contents, SuccessMeansCommitted
<1> QED BY <1>1, OverlayInvariant, PTL

\* RunWithOverlay leaves no overlay file and no redirected path behind.
THEOREM LeavesNothingBehind == OverlaySpec => []NothingLeftBehind
<1>1. OverlayInv => NothingLeftBehind
    BY DEF OverlayInv, Positions, NothingLeftBehind
<1> QED BY <1>1, OverlayInvariant, PTL

\* Backing disks only ever grow, by what was written to the same disk.
THEOREM AddsWrittenOnly == OverlaySpec => CommitAddsWrittenOnly
<1>1. OverlayInv /\ OverlayInv' /\ [OverlayNext]_ovVars =>
        [\A d \in Disks : /\ backing[d] \subseteq backing'[d]
                          /\ backing'[d] \subseteq written'[d]]_ovVars
    <2> SUFFICES ASSUME OverlayInv, OverlayInv', OverlayNext, NEW d \in Disks
                 PROVE  /\ backing[d] \subseteq backing'[d]
                        /\ backing'[d] \subseteq written'[d]
        OBVIOUS
    <2>1. backing'[d] \subseteq written'[d]
        BY DEF OverlayInv, Contents
    <2>2. backing[d] \subseteq backing'[d]
        BY DEF OverlayInv, OverlayTypeOK, OverlayNext, OverlayStep, CreateOne, CreateFails,
               CreateDone, FnOk, FnFails, FnWrite, WriteDisks, CommitSome,
               CommitOne, CommitFails, CommitDone, Killed, Ended, ovVars, Disks
    <2> QED BY <2>1, <2>2
<1> QED BY <1>1, OverlayInvariant, PTL DEF OverlaySpec, CommitAddsWrittenOnly
=============================================================================
