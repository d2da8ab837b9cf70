--------------------------- MODULE NfcCopy_proofs ---------------------------
(***************************************************************************)
(* Proofs about NfcCopy for every set of disks and every value of          *)
(* copy_concurrency.                                                       *)
(*                                                                         *)
(* None of the properties is inductive.  PoolBound needs to know that the  *)
(* elements of the channel are the goroutines past the select (Slots);     *)
(* RootCauseReported, that a cancelled context in the pool means a stored  *)
(* error (Phased); SuccessMeansAllRecorded, that a goroutine which exits   *)
(* without being recorded leaves an error behind; ProgressFileGrows, that  *)
(* the holder of the mutex has the newest list (Records).                  *)
(***************************************************************************)
EXTENDS NfcCopy, FiniteSetTheorems, TLAPS

USE DisksAssumption, ConcurrencyAssumption

-----------------------------------------------------------------------------
(* The inductive invariant.                                                *)

\* The type invariant but for the semaphore, whose lower bound is a matter
\* of Slots.
Types ==
    /\ phase \in Phases
    /\ result \in {"none", "ok", "error"}
    /\ lease \in {"none", "ready", "completed", "aborted", "gone"}
    /\ exported \in BOOLEAN /\ session \in BOOLEAN /\ updater \in BOOLEAN
    /\ ctxDone \in BOOLEAN /\ netFault \in BOOLEAN
    /\ worker \in [Disks -> WorkerStates]
    /\ firstErr \in Errors
    /\ mu \in Disks \cup {NoDisk}
    /\ progress \in Seq(Disks)
    /\ snapshot \in [Disks -> Seq(Disks)]
    /\ file \in [torn : BOOLEAN, disks : Seq(Disks)]

\* The elements of the channel are the goroutines that hold a slot.
Slots ==
    /\ IsFiniteSet(Holders)
    /\ sem = Cardinality(Holders)
    /\ sem <= Concurrency

\* What Run and the pool know of each other: nothing is started before the
\* pool, everything has exited after it, and in the pool the context is
\* cancelled exactly when a first error is stored.
Phased ==
    /\ phase \in {"start", "export", "select"} =>
          /\ \A d \in Disks : worker[d] = "idle"
          /\ firstErr = NoErr /\ ~ctxDone /\ result = "none"
    /\ phase = "pool" =>
          /\ \A d \in Disks : worker[d] # "idle"
          /\ result = "none" /\ (ctxDone <=> firstErr # NoErr)
    /\ phase = "returned" =>
          result # "none" /\ \A d \in Disks : worker[d] \in {"idle", "exited"}
    /\ result = "ok" =>
          firstErr = NoErr /\ \A d \in Disks : worker[d] = "exited"

\* The lease is alive from the end of ExportVM until the first error or the
\* end of the pool.
LeaseAlive ==
    phase \in {"select", "pool"} /\ firstErr = NoErr => lease = "ready" /\ updater

Recorded(d) == \E i \in DOMAIN progress : progress[i] = d

\* progress.Disks lists the goroutines that got there, each once; whoever
\* holds the mutex has the newest snapshot.
Records ==
    /\ \A i \in DOMAIN progress : worker[progress[i]] \in {"locked", "exited"}
    /\ \A i, j \in DOMAIN progress : progress[i] = progress[j] => i = j
    /\ \A d \in Disks : worker[d] = "locked" =>
          Recorded(d) /\ mu = d /\ snapshot[d] = progress
    /\ \A d \in Disks : firstErr = NoErr /\ worker[d] = "exited" => Recorded(d)
    /\ Len(file.disks) <= Len(progress)

CopyInv ==
    Types /\ Slots /\ Phased /\ RootCauseReported /\ LeaseAlive /\ Records

\* ClampConcurrency never returns less than one.
LEMMA ConcurrencyType == Concurrency \in Nat \ {0}
<1>1. Cardinality(Disks) \in Nat
    BY FS_CardinalityType
<1> QED BY <1>1 DEF Concurrency, ClampConcurrency, DefaultCopyConcurrency

\* How one step of goroutine d changes its position and the semaphore.
Move(d, to) ==
    /\ worker' = [worker EXCEPT ![d] = to]
    /\ \/ worker[d] \notin Holding /\ to \notin Holding /\ sem' = sem
       \/ /\ worker[d] \notin Holding /\ to \in Holding
          /\ sem < Concurrency /\ sem' = sem + 1
       \/ worker[d] \in Holding /\ to \in Holding /\ sem' = sem
       \/ worker[d] \in Holding /\ to \notin Holding /\ sem' = sem - 1

\* Every step of a goroutine is such a move.
LEMMA WorkerMoves ==
    ASSUME Types, NEW d \in Disks, WorkerStep(d)
    PROVE  \E to \in WorkerStates : Move(d, to)
<1> USE DEF Move, Goto, Exit, Holding, WorkerStates
<1>1. CASE SelectDone(d) \/ SelectSlot(d) \/ Recheck(d)
    BY <1>1 DEF SelectDone, SelectSlot, Recheck
<1>2. CASE OpenTarget(d) \/ Download(d) \/ Stream(d) \/ Sync(d)
    BY <1>2 DEF OpenTarget, Download, Stream, Sync, PlainStep, CtxStep, Fail
<1>3. CASE LockAndAppend(d) \/ WriteProgress(d)
    BY <1>3 DEF LockAndAppend, AppendAndSnapshot, WriteProgress, WriteAndUnlock
<1> QED BY <1>1, <1>2, <1>3 DEF WorkerStep

\* A move keeps the channel in step with the goroutines that hold a slot.
LEMMA MoveSlots ==
    ASSUME Types, Slots, NEW d \in Disks, NEW to \in WorkerStates, Move(d, to)
    PROVE  Slots'
<1>0. Cardinality(Holders) \in Nat /\ Concurrency \in Nat
    BY FS_CardinalityType, ConcurrencyType DEF Slots
<1>1. CASE Holders' = Holders /\ sem' = sem
    BY <1>1 DEF Slots
<1>2. CASE /\ d \notin Holders /\ Holders' = Holders \cup {d}
           /\ sem < Concurrency /\ sem' = sem + 1
    <2>1. /\ IsFiniteSet(Holders \cup {d})
          /\ Cardinality(Holders \cup {d}) = Cardinality(Holders) + 1
        BY <1>2, FS_AddElement DEF Slots
    <2> QED BY <1>0, <1>2, <2>1 DEF Slots
<1>3. CASE d \in Holders /\ Holders' = Holders \ {d} /\ sem' = sem - 1
    <2>1. /\ IsFiniteSet(Holders \ {d})
          /\ Cardinality(Holders \ {d}) = Cardinality(Holders) - 1
        BY <1>3, FS_RemoveElement DEF Slots
    <2> QED BY <1>0, <1>3, <2>1 DEF Slots
<1>4. Holders' = {e \in Disks : (IF e = d THEN to ELSE worker[e]) \in Holding}
    BY DEF Types, Move, Holders
<1> QED BY <1>1, <1>2, <1>3, <1>4 DEF Types, Move, Holders

-----------------------------------------------------------------------------
(* The initial state and the steps of Run.                                 *)

\* The invariant holds when Run is called.
LEMMA InitInv == Init => CopyInv
<1> SUFFICES ASSUME Init PROVE CopyInv
    OBVIOUS
<1>1. <<>> \in Seq(Disks) /\ DOMAIN <<>> = {} /\ Len(<<>>) = 0
    OBVIOUS
<1>2. Types
    <2>1. /\ phase \in Phases /\ worker \in [Disks -> WorkerStates]
          /\ firstErr \in Errors
        BY DEF Init, Phases, WorkerStates, Errors
    <2>2. /\ snapshot \in [Disks -> Seq(Disks)]
          /\ file \in [torn : BOOLEAN, disks : Seq(Disks)]
        BY <1>1 DEF Init
    <2> QED BY <1>1, <2>1, <2>2 DEF Init, Types
<1>3. Slots
    <2>1. Holders = {}
        BY DEF Init, Holders, Holding
    <2> QED BY <2>1, FS_EmptySet, ConcurrencyType DEF Init, Slots
<1>4. Phased /\ RootCauseReported /\ LeaseAlive
    BY DEF Init, Phased, RootCauseReported, LeaseAlive, NoErr
<1>5. Records
    <2>1. progress = <<>> /\ file.disks = <<>> /\ \A d \in Disks : worker[d] = "idle"
        BY DEF Init
    <2> QED BY <1>1, <2>1 DEF Records
<1> QED BY <1>2, <1>3, <1>4, <1>5 DEF CopyInv

\* A step of Run that starts no goroutine leaves the pool alone.
LEMMA RunStepInv ==
    CopyInv /\ (RunStep \/ LeaseExpires \/ UNCHANGED vars) => CopyInv'
<1> SUFFICES ASSUME CopyInv, RunStep \/ LeaseExpires \/ UNCHANGED vars
             PROVE  CopyInv'
    OBVIOUS
<1> USE DEF leaseVars, recordVars, Return
<1>1. Types'
    <2> USE DEF CopyInv, Types, Phases
    <2>1. CASE Validate
        BY <2>1 DEF Validate
    <2>2. CASE ExportVM
        BY <2>2 DEF ExportVM, ExportOk, ExportConnectFails, ExportWaitFails,
                    ExportDevicesFails, ExportFailed
    <2>3. CASE SelectFails
        BY <2>3 DEF SelectFails, Abort, EndLease
    <2>4. CASE StartPool
        BY <2>4 DEF StartPool, WorkerStates
    <2>5. CASE Finish
        BY <2>5 DEF Finish, Abort, Complete, EndLease
    <2>6. CASE LeaseExpires
        BY <2>6 DEF LeaseExpires
    <2>7. CASE UNCHANGED vars
        BY <2>7 DEF vars
    <2> QED BY <2>1, <2>2, <2>3, <2>4, <2>5, <2>6, <2>7 DEF RunStep
<1>2. Phased' /\ RootCauseReported' /\ LeaseAlive'
    <2> USE DEF CopyInv, Types, Phases, Phased, RootCauseReported, LeaseAlive
    <2>1. CASE Validate
        BY <2>1 DEF Validate
    <2>2. CASE ExportVM
        BY <2>2 DEF ExportVM, ExportOk, ExportConnectFails, ExportWaitFails,
                    ExportDevicesFails, ExportFailed
    <2>3. CASE SelectFails
        BY <2>3 DEF SelectFails, Abort, EndLease
    <2>4. CASE StartPool
        BY <2>4 DEF StartPool
    <2>5. CASE Finish
        BY <2>5 DEF Finish, Abort, Complete, EndLease
    <2>6. CASE LeaseExpires
        BY <2>6 DEF LeaseExpires
    <2>7. CASE UNCHANGED vars
        BY <2>7 DEF vars
    <2> QED BY <2>1, <2>2, <2>3, <2>4, <2>5, <2>6, <2>7 DEF RunStep
<1>3. CASE StartPool
    <2>1. /\ \A d \in Disks : worker[d] = "idle" /\ worker'[d] = "waiting"
          /\ UNCHANGED <<sem, firstErr, mu, progress, snapshot, file>>
        BY <1>3 DEF CopyInv, Phased, StartPool
    <2>2. Holders' = Holders
        BY <2>1 DEF Holders, Holding
    <2>3. Slots'
        BY <2>1, <2>2 DEF CopyInv, Slots
    <2>4. DOMAIN progress = {}
        <3>1. \A i \in DOMAIN progress : progress[i] \in Disks
            BY DEF CopyInv, Types
        <3> QED BY <2>1, <3>1 DEF CopyInv, Records
    <2>5. Records'
        BY <2>1, <2>4 DEF CopyInv, Records, Recorded
    <2> QED BY <1>1, <1>2, <2>3, <2>5 DEF CopyInv
<1>4. CASE ~StartPool
    <2>1. UNCHANGED <<worker, sem, firstErr, mu, progress, snapshot, file>>
        BY <1>4 DEF RunStep, Validate, ExportVM, SelectFails, Finish,
                    LeaseExpires, vars
    <2>2. Slots' /\ Records'
        BY <2>1 DEF CopyInv, Slots, Holders, Records, Recorded
    <2> QED BY <1>1, <1>2, <2>2 DEF CopyInv
<1> QED BY <1>3, <1>4

-----------------------------------------------------------------------------
(* The steps of a goroutine.                                               *)

\* A step that neither locks nor unlocks the mutex; if it is the last of its
\* goroutine, a first error is stored by then.
Quiet(d) ==
    /\ \E to \in WorkerStates \ {"idle", "locked"} :
          /\ worker' = [worker EXCEPT ![d] = to]
          /\ to = "exited" => firstErr' # NoErr
    /\ worker[d] \notin {"idle", "locked", "exited"}
    /\ \/ UNCHANGED <<firstErr, ctxDone>>
       \/ /\ firstErr = NoErr /\ ctxDone' = TRUE
          /\ firstErr' = [disk |-> d, cause |-> "own"]
    /\ UNCHANGED <<runVars, recordVars>>

\* All steps before the progress record are of that kind.
LEMMA QuietSteps ==
    ASSUME CopyInv, NEW d \in Disks,
           \/ SelectDone(d) \/ SelectSlot(d) \/ Recheck(d) \/ OpenTarget(d)
           \/ Download(d) \/ Stream(d) \/ Sync(d)
    PROVE  Quiet(d)
<1> USE DEF Quiet, Goto, Exit, WorkerStates, Holding
<1>1. phase = "pool"
    BY DEF CopyInv, Types, Phases, Phased, SelectDone, SelectSlot, Recheck,
           OpenTarget, Download, Stream, Sync, PlainStep, CtxStep
<1>2. ctxDone <=> firstErr # NoErr
    BY <1>1 DEF CopyInv, Phased
<1>3. ctxDone \in BOOLEAN /\ worker \in [Disks -> WorkerStates]
    BY DEF CopyInv, Types
<1>4. [disk |-> d, cause |-> "own"] # NoErr
    BY DEF NoErr
<1>5. CASE SelectDone(d)
    BY <1>2, <1>3, <1>5 DEF SelectDone
<1>6. CASE SelectSlot(d)
    <2>1. worker[d] = "waiting" /\ worker' = [worker EXCEPT ![d] = "slot"]
        BY <1>6 DEF SelectSlot
    <2>2. UNCHANGED <<firstErr, ctxDone>> /\ UNCHANGED <<runVars, recordVars>>
        BY <1>6 DEF SelectSlot
    <2>3. "slot" \in WorkerStates \ {"idle", "locked"} /\ "slot" # "exited"
        OBVIOUS
    <2> HIDE DEF WorkerStates, Holding, Goto, Exit
    <2>4. \E to \in WorkerStates \ {"idle", "locked"} :
             worker' = [worker EXCEPT ![d] = to] /\ (to = "exited" => firstErr' # NoErr)
        BY <2>1, <2>3
    <2> QED BY <2>1, <2>2, <2>4
<1>7. CASE Recheck(d)
    BY <1>2, <1>3, <1>7 DEF Recheck
<1>8. CASE OpenTarget(d)
    BY <1>2, <1>3, <1>4, <1>8 DEF OpenTarget, PlainStep, Fail
<1>9. CASE Download(d)
    BY <1>2, <1>3, <1>4, <1>9 DEF Download, CtxStep, Fail
<1>10. CASE Stream(d)
    BY <1>2, <1>3, <1>4, <1>10 DEF Stream, CtxStep, Fail
<1>11. CASE Sync(d)
    <2>1. CASE d \in BlockTargets
        BY <1>2, <1>3, <1>4, <1>11, <2>1 DEF Sync, PlainStep, Fail
    <2>2. CASE d \notin BlockTargets
        BY <1>3, <1>11, <2>2 DEF Sync
    <2> QED BY <2>1, <2>2
<1> QED BY <1>5, <1>6, <1>7, <1>8, <1>9, <1>10, <1>11

\* They keep the invariant: no recorded goroutine moves, and one that exits
\* unrecorded does so under a stored error.
LEMMA QuietInv ==
    ASSUME CopyInv, NEW d \in Disks, Quiet(d)
    PROVE  Types' /\ Phased' /\ RootCauseReported' /\ LeaseAlive' /\ Records'
<1>1. PICK to \in WorkerStates \ {"idle", "locked"} :
          worker' = [worker EXCEPT ![d] = to] /\ (to = "exited" => firstErr' # NoErr)
    BY DEF Quiet
<1>2. worker \in [Disks -> WorkerStates] /\ progress \in Seq(Disks)
    BY DEF CopyInv, Types
<1>3. phase = "pool"
    BY DEF CopyInv, Types, Phases, Phased, Quiet
<1>4. firstErr # NoErr => firstErr' # NoErr
    BY DEF Quiet
<1>5. Types'
    <2>1. worker' \in [Disks -> WorkerStates]
        BY <1>1, <1>2
    <2>2. [disk |-> d, cause |-> "own"] \in Errors
        BY DEF Errors
    <2>3. firstErr' \in Errors /\ ctxDone' \in BOOLEAN
        BY <2>2 DEF CopyInv, Types, Quiet
    <2> QED BY <2>1, <2>3 DEF CopyInv, Types, Quiet, runVars, leaseVars, recordVars
<1>6. Phased' /\ RootCauseReported' /\ LeaseAlive'
    BY <1>1, <1>2, <1>3 DEF CopyInv, Phased, RootCauseReported, LeaseAlive,
       Quiet, runVars, leaseVars, NoErr
<1>7. Records'
    <2>1. UNCHANGED <<mu, progress, snapshot, file>>
        BY DEF Quiet, recordVars
    <2>2. \A i \in DOMAIN progress : progress[i] # d
        BY DEF CopyInv, Records, Quiet
    <2>3. \A e \in Disks : e # d => worker'[e] = worker[e]
        BY <1>1, <1>2
    <2>4. worker'[d] = to
        BY <1>1, <1>2
    <2>5. \A i \in DOMAIN progress : progress[i] \in Disks
        BY <1>2
    <2> QED BY <1>1, <1>4, <2>1, <2>2, <2>3, <2>4, <2>5 DEF CopyInv, Records, Recorded
<1> QED BY <1>5, <1>6, <1>7

\* Appending under the mutex keeps the list free of duplicates, and whoever
\* holds the mutex has the list as it is.
LEMMA LockInv ==
    ASSUME CopyInv, NEW d \in Disks, LockAndAppend(d)
    PROVE  Types' /\ Phased' /\ RootCauseReported' /\ LeaseAlive' /\ Records'
<1> USE DEF LockAndAppend, AppendAndSnapshot, Goto
<1>1. /\ mu = NoDisk /\ worker[d] = "record" /\ worker' = [worker EXCEPT ![d] = "locked"]
      /\ mu' = d /\ progress' = Append(progress, d)
      /\ snapshot' = [snapshot EXCEPT ![d] = progress']
    OBVIOUS
<1>2. /\ worker \in [Disks -> WorkerStates] /\ progress \in Seq(Disks)
      /\ snapshot \in [Disks -> Seq(Disks)]
    BY DEF CopyInv, Types
<1>3. UNCHANGED <<phase, result, exported, lease, session, updater, netFault,
                  ctxDone, firstErr, file>>
    BY DEF runVars, leaseVars
<1>4. /\ progress' \in Seq(Disks) /\ Len(progress') = Len(progress) + 1
      /\ DOMAIN progress' = DOMAIN progress \cup {Len(progress) + 1}
      /\ progress'[Len(progress) + 1] = d
      /\ \A i \in DOMAIN progress : progress'[i] = progress[i] /\ progress[i] \in Disks
      /\ Len(progress) + 1 \notin DOMAIN progress
    BY <1>1, <1>2
<1>5. Types'
    <2>1. worker' \in [Disks -> WorkerStates]
        BY <1>1, <1>2 DEF WorkerStates, Holding
    <2>2. snapshot' \in [Disks -> Seq(Disks)]
        BY <1>1, <1>2, <1>4
    <2> QED BY <1>1, <1>3, <1>4, <2>1, <2>2 DEF CopyInv, Types
<1>6. phase = "pool"
    BY <1>1 DEF CopyInv, Types, Phases, Phased
<1>7. Phased' /\ RootCauseReported' /\ LeaseAlive'
    BY <1>1, <1>2, <1>3, <1>6 DEF CopyInv, Phased, RootCauseReported, LeaseAlive
<1>8. Records'
    <2>1. \A i \in DOMAIN progress : progress[i] # d
        BY <1>1 DEF CopyInv, Records
    <2>2. \A e \in Disks : e # d => worker'[e] = worker[e] /\ worker[e] # "locked"
        BY <1>1, <1>2 DEF CopyInv, Records
    <2>3. worker'[d] = "locked" /\ snapshot'[d] = progress'
        BY <1>1, <1>2
    <2>4. \A i \in DOMAIN progress' : worker'[progress'[i]] \in {"locked", "exited"}
        BY <1>4, <2>1, <2>2, <2>3 DEF CopyInv, Records
    <2>5. \A i, j \in DOMAIN progress' : progress'[i] = progress'[j] => i = j
        BY <1>4, <2>1 DEF CopyInv, Records
    <2>6. \A e \in Disks : Recorded(e) => Recorded(e)'
        BY <1>4 DEF Recorded
    <2>7. Recorded(d)'
        BY <1>4 DEF Recorded
    <2>8. Len(file'.disks) <= Len(progress')
        <3>1. file \in [torn : BOOLEAN, disks : Seq(Disks)]
            BY DEF CopyInv, Types
        <3>2. Len(file.disks) \in Nat /\ Len(progress) \in Nat
            BY <1>2, <3>1
        <3> QED BY <1>3, <1>4, <3>2 DEF CopyInv, Records
    <2>9. \A e \in Disks : worker'[e] = "locked" =>
              Recorded(e)' /\ mu' = e /\ snapshot'[e] = progress'
        BY <1>1, <2>2, <2>3, <2>7
    <2>10. \A e \in Disks : firstErr' = NoErr /\ worker'[e] = "exited" => Recorded(e)'
        BY <1>3, <2>2, <2>3, <2>6 DEF CopyInv, Records
    <2> QED BY <2>4, <2>5, <2>8, <2>9, <2>10 DEF Records
<1> QED BY <1>5, <1>7, <1>8

\* Writing the file and unlocking publishes the newest list.
LEMMA UnlockInv ==
    ASSUME CopyInv, NEW d \in Disks, WriteProgress(d)
    PROVE  Types' /\ Phased' /\ RootCauseReported' /\ LeaseAlive' /\ Records'
<1> USE DEF WriteProgress, WriteAndUnlock, Exit
<1>1. /\ worker[d] = "locked" /\ worker' = [worker EXCEPT ![d] = "exited"]
      /\ mu' = NoDisk /\ snapshot' = [snapshot EXCEPT ![d] = <<>>]
      /\ file' \in {[torn |-> FALSE, disks |-> snapshot[d]], file,
                     [file EXCEPT !.torn = TRUE]}
    OBVIOUS
<1>2. /\ worker \in [Disks -> WorkerStates] /\ progress \in Seq(Disks)
      /\ snapshot \in [Disks -> Seq(Disks)]
      /\ file \in [torn : BOOLEAN, disks : Seq(Disks)]
    BY DEF CopyInv, Types
<1>3. UNCHANGED <<phase, result, exported, lease, session, updater, netFault,
                  ctxDone, firstErr, progress>>
    BY DEF runVars, leaseVars
<1>4. /\ file' \in [torn : BOOLEAN, disks : Seq(Disks)]
      /\ file'.disks = file.disks \/ file'.disks = snapshot[d]
    <2>1. CASE file' = [torn |-> FALSE, disks |-> snapshot[d]]
        BY <1>2, <2>1
    <2>2. CASE file' = file
        BY <1>2, <2>2
    <2>3. CASE file' = [file EXCEPT !.torn = TRUE]
        BY <1>2, <2>3
    <2> QED BY <1>1, <2>1, <2>2, <2>3
<1>5. Types'
    <2>1. worker' \in [Disks -> WorkerStates]
        BY <1>1, <1>2 DEF WorkerStates
    <2>2. snapshot' \in [Disks -> Seq(Disks)]
        BY <1>1, <1>2
    <2> QED BY <1>1, <1>3, <1>4, <2>1, <2>2 DEF CopyInv, Types
<1>6. phase = "pool"
    BY <1>1 DEF CopyInv, Types, Phases, Phased
<1>7. Phased' /\ RootCauseReported' /\ LeaseAlive'
    BY <1>1, <1>2, <1>3, <1>6 DEF CopyInv, Phased, RootCauseReported, LeaseAlive
<1>8. Records'
    <2>1. snapshot[d] = progress /\ Recorded(d)
        BY <1>1 DEF CopyInv, Records
    <2>2. \A e \in Disks : e # d => worker'[e] = worker[e] /\ worker[e] # "locked"
        BY <1>1, <1>2 DEF CopyInv, Records
    <2>3. worker'[d] = "exited"
        BY <1>1, <1>2
    <2>4. \A i \in DOMAIN progress : progress[i] \in Disks
        BY <1>2
    <2>5. \A e \in Disks : Recorded(e)' <=> Recorded(e)
        BY <1>3 DEF Recorded
    <2>6. Len(progress) \in Nat
        BY <1>2
    <2>7. Len(file'.disks) <= Len(progress')
        BY <1>3, <1>4, <2>1, <2>6 DEF CopyInv, Records
    <2> QED BY <1>3, <2>1, <2>2, <2>3, <2>4, <2>5, <2>7 DEF CopyInv, Records
<1> QED BY <1>5, <1>7, <1>8

\* Every step of a goroutine keeps the invariant.
LEMMA WorkerStepInv == ASSUME CopyInv, NEW d \in Disks, WorkerStep(d) PROVE CopyInv'
<1>1. Slots'
    BY WorkerMoves, MoveSlots DEF CopyInv
<1>2. CASE LockAndAppend(d)
    BY <1>1, <1>2, LockInv DEF CopyInv
<1>3. CASE WriteProgress(d)
    BY <1>1, <1>3, UnlockInv DEF CopyInv
<1>4. CASE ~LockAndAppend(d) /\ ~WriteProgress(d)
    <2>1. Quiet(d)
        BY <1>4, QuietSteps DEF WorkerStep
    <2> QED BY <1>1, <2>1, QuietInv DEF CopyInv
<1> QED BY <1>2, <1>3, <1>4

\* Every step does.
LEMMA StepInv == CopyInv /\ [Next]_vars => CopyInv'
BY RunStepInv, WorkerStepInv DEF Next, Terminated

\* The pool of Run keeps its invariant on every schedule of its goroutines.
THEOREM CopyInvariant == Spec => []CopyInv
BY InitInv, StepInv, PTL DEF Spec

-----------------------------------------------------------------------------
(* What follows for the properties that MCNfcCopy checks.                  *)

\* The state of Run is well formed; in particular no goroutine releases a
\* slot it does not hold.
THEOREM TypeCorrect == Spec => []TypeOK
<1>1. CopyInv => TypeOK
    BY FS_CardinalityType DEF CopyInv, Types, Slots, TypeOK
<1> QED BY <1>1, CopyInvariant, PTL

\* Never more than ClampConcurrency goroutines download or record.
THEOREM BoundedPool == Spec => []PoolBound
<1>1. CopyInv => PoolBound
    BY DEF CopyInv, Slots, PoolBound
<1> QED BY <1>1, CopyInvariant, PTL

\* The error Run returns is the one that cancelled the other downloads.
THEOREM RootCause == Spec => []RootCauseReported
<1>1. CopyInv => RootCauseReported
    BY DEF CopyInv
<1> QED BY <1>1, CopyInvariant, PTL

\* The lease is alive while a goroutine downloads and nothing has failed.
THEOREM LeaseOutlives == Spec => []LeaseOutlivesDownloads
<1>1. CopyInv => LeaseOutlivesDownloads
    BY DEF CopyInv, Types, Phases, Phased, LeaseAlive, LeaseOutlivesDownloads
<1> QED BY <1>1, CopyInvariant, PTL

\* Under a nil result no goroutine exited unrecorded.
LEMMA OkMeansRecorded ==
    CopyInv /\ result = "ok" => \A d \in Disks : Recorded(d)
BY DEF CopyInv, Phased, Records

\* A nil result means that every disk is in the progress list exactly once.
THEOREM SuccessRecorded == Spec => []SuccessMeansAllRecorded
<1>1. ASSUME CopyInv, result = "ok" PROVE Len(progress) = Cardinality(Disks)
    <2>1. progress \in [1 .. Len(progress) -> Disks] /\ Len(progress) \in Nat
        BY <1>1 DEF CopyInv, Types
    <2>2. progress \in Injection(1 .. Len(progress), Disks)
        BY <1>1, <2>1 DEF CopyInv, Records, Injection, IsInjective
    <2>3. progress \in Surjection(1 .. Len(progress), Disks)
        BY <1>1, <2>1, OkMeansRecorded DEF Recorded, Surjection
    <2>4. ExistsBijection(1 .. Len(progress), Disks)
        BY <2>2, <2>3 DEF ExistsBijection, Bijection
    <2> QED BY <2>1, <2>4, FS_CountingElements
<1>2. CopyInv => SuccessMeansAllRecorded
    BY <1>1, OkMeansRecorded DEF SuccessMeansAllRecorded, Recorded
<1> QED BY <1>2, CopyInvariant, PTL

\* A written progress file is never overwritten by an older list: whoever
\* writes holds the mutex, and its snapshot is the whole list.
THEOREM FileGrows == Spec => ProgressFileGrows
<1>1. CopyInv /\ [Next]_vars =>
        [~file'.torn => Len(file'.disks) >= Len(file.disks)]_file
    <2> SUFFICES ASSUME CopyInv, [Next]_vars, file' # file, ~file'.torn
                 PROVE  Len(file'.disks) >= Len(file.disks)
        OBVIOUS
    <2>1. PICK d \in Disks : WriteProgress(d)
        BY DEF Next, RunStep, Validate, ExportVM, SelectFails, StartPool, Finish,
               LeaseExpires, Terminated, vars, WorkerStep, SelectDone, SelectSlot,
               Recheck, OpenTarget, Download, Stream, Sync, PlainStep, CtxStep,
               LockAndAppend, AppendAndSnapshot, recordVars
    <2>2. file \in [torn : BOOLEAN, disks : Seq(Disks)] /\ progress \in Seq(Disks)
        BY DEF CopyInv, Types
    <2>3. snapshot[d] = progress
        BY <2>1 DEF WriteProgress, WriteAndUnlock, CopyInv, Records
    <2>4. file' = [torn |-> FALSE, disks |-> progress]
        BY <2>1, <2>2, <2>3 DEF WriteProgress, WriteAndUnlock
    <2>5. Len(file.disks) <= Len(progress)
        BY DEF CopyInv, Records
    <2>6. Len(file.disks) \in Nat /\ Len(progress) \in Nat
        BY <2>2
    <2> QED BY <2>4, <2>5, <2>6
<1> QED BY <1>1, CopyInvariant, PTL DEF Spec, ProgressFileGrows
-----------------------------------------------------------------------------
(* Run implements CopyJob.                                                 *)

\* Run starts with nothing recorded and nothing returned.
LEMMA RefinesInit == Init => Job!JobInit
<1> SUFFICES ASSUME Init PROVE Job!JobInit
    OBVIOUS
<1>1. progress = <<>> /\ result = "none"
    BY DEF Init
<1>2. DOMAIN progress = {}
    BY <1>1
<1> QED BY <1>1, <1>2 DEF Job!JobInit, Outcome, Copied

\* Recording a disk is CopyOne of that disk: the pool has not returned, and
\* the disk is new because its goroutine has not been there before.
LEMMA RefinesRecord ==
    ASSUME CopyInv, NEW d \in Disks, LockAndAppend(d)
    PROVE  Job!CopyOne(d)
<1>1. worker[d] = "record" /\ progress' = Append(progress, d) /\ result' = result
    BY DEF LockAndAppend, AppendAndSnapshot, Goto, runVars
<1>2. progress \in Seq(Disks)
    BY DEF CopyInv, Types
<1>3. result = "none"
    BY <1>1 DEF CopyInv, Types, Phases, Phased
<1>4. d \notin Copied
    BY <1>1 DEF CopyInv, Records, Copied
<1>5. /\ DOMAIN progress' = DOMAIN progress \cup {Len(progress) + 1}
      /\ progress'[Len(progress) + 1] = d
      /\ \A i \in DOMAIN progress : progress'[i] = progress[i]
    BY <1>1, <1>2
<1>6. Copied' = Copied \cup {d}
    BY <1>5 DEF Copied
<1> QED BY <1>1, <1>3, <1>4, <1>6 DEF Job!CopyOne, Outcome

\* Returning ends the job, in EndOk only with every disk recorded; all other
\* steps of Run and of the lease leave the job alone.
LEMMA RefinesRun ==
    ASSUME CopyInv, CopyInv', RunStep \/ LeaseExpires \/ UNCHANGED vars
    PROVE  [Job!JobNext]_(Job!jobVars)
<1>1. progress' = progress
    BY DEF RunStep, Validate, ExportVM, SelectFails, StartPool, Finish,
           LeaseExpires, vars, recordVars
<1>2. Copied' = Copied
    BY <1>1 DEF Copied
<1>3. CASE result' = result
    BY <1>2, <1>3 DEF Job!jobVars, Outcome
<1>4. CASE result' # result
    <2>1. result = "none"
        BY <1>4 DEF CopyInv, Phased, RunStep, Validate, ExportVM, ExportOk,
           ExportConnectFails, ExportWaitFails, ExportDevicesFails, ExportFailed,
           SelectFails, StartPool, Finish, LeaseExpires, Return, vars
    <2>2. result' = "error" \/ result' = "ok"
        BY <1>4, <2>1 DEF CopyInv, Types
    <2>3. CASE result' = "error"
        BY <1>2, <2>1, <2>3 DEF Job!JobNext, Job!EndFailed, Outcome
    <2>4. CASE result' = "ok"
        <3>1. \A d \in Disks : Recorded(d)'
            BY <2>4 DEF CopyInv, Phased, Records
        <3>2. \A i \in DOMAIN progress : progress[i] \in Disks
            BY DEF CopyInv, Types
        <3>3. Copied = Disks
            BY <1>1, <3>1, <3>2 DEF Recorded, Copied
        <3> QED BY <1>2, <2>1, <2>4, <3>3 DEF Job!JobNext, Job!EndOk, Outcome
    <2> QED BY <2>2, <2>3, <2>4
<1> QED BY <1>3, <1>4

\* The other steps of a goroutine are invisible to the job.
LEMMA RefinesWorker ==
    ASSUME CopyInv, NEW d \in Disks, WorkerStep(d)
    PROVE  [Job!JobNext]_(Job!jobVars)
<1>1. CASE LockAndAppend(d)
    BY <1>1, RefinesRecord DEF Job!JobNext
<1>2. CASE ~LockAndAppend(d)
    <2>1. progress' = progress /\ result' = result
        BY <1>2 DEF WorkerStep, SelectDone, SelectSlot, Recheck, OpenTarget,
           Download, Stream, Sync, PlainStep, CtxStep, WriteProgress,
           WriteAndUnlock, runVars, recordVars
    <2> QED BY <2>1 DEF Job!jobVars, Outcome, Copied
<1> QED BY <1>1, <1>2

\* Whatever the pool does, its caller sees disks recorded one at a time and
\* one return, in success only when all are recorded.
THEOREM Implements == Spec => ImplementsCopyJob
<1>1. CopyInv /\ CopyInv' /\ [Next]_vars => [Job!JobNext]_(Job!jobVars)
    BY RefinesRun, RefinesWorker DEF Next, Terminated
<1> QED BY <1>1, RefinesInit, CopyInvariant, PTL DEF Spec, ImplementsCopyJob, Job!JobSpec
=============================================================================
