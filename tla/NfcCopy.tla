------------------------------ MODULE NfcCopy ------------------------------
(***************************************************************************)
(* kc-copy (src/pkg/copy/copy.go, vsphere.go, download.go): Run acquires   *)
(* an NFC export lease, starts one goroutine per disk, bounded by a        *)
(* buffered channel, cancels the shared context on the first failure,      *)
(* waits for all goroutines and ends the lease.                            *)
(*                                                                         *)
(* Each goroutine of the pool is a process with a program counter, Run is  *)
(* another.  What a download returns is chosen by the environment: a       *)
(* stream that ended with a nil error, or an error of its own.             *)
(***************************************************************************)
EXTENDS Integers, Sequences, FiniteSets

CONSTANTS Disks,           \* the selected disks, paired with their targets
          BlockTargets,    \* those whose target is a block device (fsync)
          CopyConcurrency, \* CopyInput.CopyConcurrency, any integer
          NoDisk           \* "no goroutine": mutex free, no error yet

ASSUME DisksAssumption ==
    /\ IsFiniteSet(Disks) /\ Disks # {}
    /\ BlockTargets \subseteq Disks
    /\ NoDisk \notin Disks
ASSUME ConcurrencyAssumption == CopyConcurrency \in Int

VARIABLES
    phase,    \* where Run is: start, export, select, pool, returned
    result,   \* what Run returned: "none" until then, "ok" or "error"
    exported, \* ExportVM has returned a lease to Run
    lease,    \* the lease on the server: none, ready, completed, aborted, gone
    session,  \* a vCenter login session is open on the server
    updater,  \* the StartUpdater goroutine is refreshing the lease
    ctxDone,  \* the shared context is cancelled
    netFault, \* some control RPC was lost although it was sent
    worker,   \* program counter of each goroutine
    sem,      \* elements in the semaphore channel
    firstErr, \* firstErr: the goroutine that stored it and its cause
    mu,       \* holder of the progress mutex
    progress, \* progress.Disks
    snapshot, \* per goroutine: the progress value handed to WriteJSON
    file      \* the last progress file written, or torn by a failed write

leaseVars == <<exported, lease, session, updater, netFault>>
recordVars == <<mu, progress, snapshot, file>>
vars == <<phase, result, leaseVars, ctxDone, worker, sem, firstErr, recordVars>>

DefaultCopyConcurrency == 4

ClampConcurrency(n, disks) ==
    LET m == IF n <= 0 THEN DefaultCopyConcurrency ELSE n
    IN  IF disks < 1 THEN 1 ELSE IF m > disks THEN disks ELSE m

Concurrency == ClampConcurrency(CopyConcurrency, Cardinality(Disks))

Phases == {"start", "export", "select", "pool", "returned"}
Holding == {"slot", "open", "get", "stream", "sync", "record", "locked"}
WorkerStates == Holding \cup {"idle", "waiting", "exited"}
NoErr == [disk |-> NoDisk, cause |-> "none"]
Errors == [disk : Disks, cause : {"own", "ctx"}] \cup {NoErr}

\* The state of Run and of its pool is well formed; in particular no
\* goroutine takes an element out of the channel that it did not put in.
TypeOK ==
    /\ phase \in Phases
    /\ result \in {"none", "ok", "error"}
    /\ lease \in {"none", "ready", "completed", "aborted", "gone"}
    /\ exported \in BOOLEAN /\ session \in BOOLEAN /\ updater \in BOOLEAN
    /\ ctxDone \in BOOLEAN /\ netFault \in BOOLEAN
    /\ worker \in [Disks -> WorkerStates]
    /\ sem \in Nat
    /\ firstErr \in Errors
    /\ mu \in Disks \cup {NoDisk}
    /\ progress \in Seq(Disks)
    /\ snapshot \in [Disks -> Seq(Disks)]
    /\ file \in [torn : BOOLEAN, disks : Seq(Disks)]

Init ==
    /\ phase = "start" /\ result = "none"
    /\ exported = FALSE /\ lease = "none" /\ session = FALSE
    /\ updater = FALSE /\ ctxDone = FALSE /\ netFault = FALSE
    /\ worker = [d \in Disks |-> "idle"]
    /\ sem = 0 /\ firstErr = NoErr /\ mu = NoDisk
    /\ progress = <<>> /\ snapshot = [d \in Disks |-> <<>>]
    /\ file = [torn |-> FALSE, disks |-> <<>>]

-----------------------------------------------------------------------------
(* The lease and its session.  A control RPC made with a cancelled context *)
(* never leaves the process; with a live context the server executes it or *)
(* the network loses it.                                                   *)

\* The end of Lease.Complete and Lease.Abort: stop the updater, send one
\* request that turns the lease into `end`, log out.
EndLease(end) ==
    /\ updater' = FALSE
    /\ \/ /\ ctxDone
          /\ UNCHANGED <<lease, session, netFault>>
       \/ /\ ~ctxDone
          /\ lease' = end /\ session' = FALSE
          /\ UNCHANGED netFault
       \/ /\ ~ctxDone
          /\ netFault' = TRUE
          /\ lease' \in {lease, end} /\ session' \in {session, FALSE}

Complete == EndLease("completed")
Abort == EndLease("aborted")

\* Run returns; its deferred cancel() cancels the context.
Return(r) ==
    /\ phase' = "returned" /\ result' = r
    /\ ctxDone' = TRUE

\* Validation, target discovery and the TLS policy, before any connection.
Validate ==
    /\ phase = "start"
    /\ \/ phase' = "export" /\ UNCHANGED <<result, ctxDone>>
       \/ Return("error")
    /\ UNCHANGED <<leaseVars, worker, sem, firstErr, recordVars>>

\* ExportVM: connect, find, export, wait for the lease, read the devices.
\* Every failure after the login logs out; only a failure to read the
\* devices also aborts the lease.  On success the updater is started.
ExportOk ==
    /\ exported' = TRUE /\ lease' = "ready" /\ session' = TRUE
    /\ updater' = TRUE /\ phase' = "select"
    /\ UNCHANGED <<result, ctxDone, netFault>>

\* ExportVM returns an error with the lease left in `end` on the server and
\* the session logged out; requests or answers lost on the way may leave a
\* lease or a session the client knows nothing of.
ExportFailed(end) ==
    /\ Return("error")
    /\ \/ lease' = end /\ UNCHANGED <<session, netFault>>
       \/ netFault' = TRUE /\ lease' \in {end, "ready"} /\ session' \in BOOLEAN
    /\ UNCHANGED <<exported, updater>>

ExportConnectFails == ExportFailed("none") \* ConnectHost, the finder, vm.Export
ExportWaitFails == ExportFailed("gone")    \* the lease turned to its error state
ExportDevicesFails == ExportFailed("aborted")

ExportVM ==
    /\ phase = "export"
    /\ ExportOk \/ ExportConnectFails \/ ExportWaitFails \/ ExportDevicesFails
    /\ UNCHANGED <<worker, sem, firstErr, recordVars>>

\* FilterDiskURLs, the target directory, the disk-count gate; any failure
\* aborts the lease.  Then one goroutine per target is started.
SelectFails ==
    /\ phase = "select"
    /\ Abort /\ Return("error")
    /\ UNCHANGED <<exported, worker, sem, firstErr, recordVars>>

StartPool ==
    /\ phase = "select"
    /\ phase' = "pool"
    /\ worker' = [d \in Disks |-> "waiting"]
    /\ UNCHANGED <<result, leaseVars, ctxDone, sem, firstErr, recordVars>>

\* wg.Wait, then Abort and return firstErr, or Complete and return nil; an
\* error from Complete is only logged.
Finish_IgnoresFirstErr ==
    /\ phase = "pool"
    /\ \A d \in Disks : worker[d] = "exited"
    /\ Complete /\ Return("ok")
    /\ UNCHANGED <<exported, worker, sem, firstErr, recordVars>>

Finish_NoWait ==
    /\ phase = "pool"
    /\ \/ firstErr # NoErr /\ Abort /\ Return("error")
       \/ firstErr = NoErr /\ Complete /\ Return("ok")
    /\ UNCHANGED <<exported, worker, sem, firstErr, recordVars>>

Finish ==
    /\ phase = "pool"
    /\ \A d \in Disks : worker[d] = "exited"
    /\ \/ firstErr # NoErr /\ Abort /\ Return("error")
       \/ firstErr = NoErr /\ Complete /\ Return("ok")
    /\ UNCHANGED <<exported, worker, sem, firstErr, recordVars>>

\* The server drops a lease nobody refreshes any more.
LeaseExpires ==
    /\ lease = "ready" /\ (~updater \/ ctxDone)
    /\ lease' = "gone"
    /\ UNCHANGED <<phase, result, exported, session, updater, netFault, ctxDone,
                   worker, sem, firstErr, recordVars>>

-----------------------------------------------------------------------------
(* One goroutine of the pool.                                              *)

runVars == <<phase, result, leaseVars>>

Goto(d, from, to) == worker[d] = from /\ worker' = [worker EXCEPT ![d] = to]

\* The goroutine returns while it holds a semaphore slot.
Exit(d) == worker' = [worker EXCEPT ![d] = "exited"] /\ sem' = sem - 1

\* The select statement: with the context cancelled and a slot free, Go may
\* take either branch.
SelectDone(d) ==
    /\ ctxDone
    /\ Goto(d, "waiting", "exited")
    /\ UNCHANGED <<runVars, ctxDone, sem, firstErr, recordVars>>

SelectSlot_OneTooMany(d) ==
    /\ sem <= Concurrency
    /\ Goto(d, "waiting", "slot")
    /\ sem' = sem + 1
    /\ UNCHANGED <<runVars, ctxDone, firstErr, recordVars>>

SelectSlot(d) ==
    /\ sem < Concurrency
    /\ Goto(d, "waiting", "slot")
    /\ sem' = sem + 1
    /\ UNCHANGED <<runVars, ctxDone, firstErr, recordVars>>

Recheck(d) ==
    /\ worker[d] = "slot"
    /\ \/ ctxDone /\ Exit(d)
       \/ ~ctxDone /\ Goto(d, "slot", "open") /\ UNCHANGED sem
    /\ UNCHANGED <<runVars, ctxDone, firstErr, recordVars>>

\* errOnce.Do: only the first failure is stored and cancels the context.
Fail_NoOnce(d, cause) ==
    /\ Exit(d)
    /\ firstErr' = [disk |-> d, cause |-> cause] /\ ctxDone' = TRUE

Fail(d, cause) ==
    /\ Exit(d)
    /\ IF firstErr = NoErr
       THEN firstErr' = [disk |-> d, cause |-> cause] /\ ctxDone' = TRUE
       ELSE UNCHANGED <<firstErr, ctxDone>>

\* A step of CopyDisk that does not look at the context: it succeeds, or
\* fails by itself.
PlainStep(d, from, to) ==
    /\ worker[d] = from
    /\ \/ Goto(d, from, to) /\ UNCHANGED <<sem, firstErr, ctxDone>>
       \/ Fail(d, "own")
    /\ UNCHANGED <<runVars, recordVars>>

\* A step that does: with the context cancelled it returns ctx.Err().
CtxStep(d, from, to) ==
    /\ worker[d] = from
    /\ \/ ~ctxDone /\ Goto(d, from, to) /\ UNCHANGED <<sem, firstErr, ctxDone>>
       \/ ~ctxDone /\ Fail(d, "own")
       \/ ctxDone /\ Fail(d, "ctx")
    /\ UNCHANGED <<runVars, recordVars>>

OpenTarget(d) == PlainStep(d, "open", "get")     \* ensureTargetFile, OpenFile
Download(d) == CtxStep(d, "get", "stream")       \* lease.downloadURL
Stream(d) == CtxStep(d, "stream", "sync")        \* StreamToRaw, to its return

\* dw.Flush, and for a block device f.Sync; a file target is not synced.
Sync(d) ==
    IF d \in BlockTargets
    THEN PlainStep(d, "sync", "record")
    ELSE /\ Goto(d, "sync", "record")
         /\ UNCHANGED <<runVars, ctxDone, sem, firstErr, recordVars>>

\* mu.Lock, the append and the evaluation of WriteJSON's argument; the mutex
\* is held until the file is written.
AppendAndSnapshot(d) ==
    /\ Goto(d, "record", "locked")
    /\ mu' = d
    /\ progress' = Append(progress, d)
    /\ snapshot' = [snapshot EXCEPT ![d] = progress']
    /\ UNCHANGED <<runVars, ctxDone, sem, firstErr, file>>

LockAndAppend_NoMutex(d) == AppendAndSnapshot(d)

LockAndAppend(d) == mu = NoDisk /\ AppendAndSnapshot(d)

\* WriteJSON of the snapshot; a failed write leaves the old file, or a torn
\* one, and is only logged.  The deferred unlock runs before the deferred
\* release of the slot.
WriteAndUnlock(d) ==
    /\ worker[d] = "locked"
    /\ file' \in {[torn |-> FALSE, disks |-> snapshot[d]], file,
                  [file EXCEPT !.torn = TRUE]}
    /\ mu' = NoDisk
    /\ snapshot' = [snapshot EXCEPT ![d] = <<>>]
    /\ UNCHANGED <<runVars, ctxDone, firstErr, progress>>

WriteProgress_KeepsSlot(d) ==
    /\ WriteAndUnlock(d)
    /\ worker' = [worker EXCEPT ![d] = "exited"] /\ UNCHANGED sem

WriteProgress(d) == WriteAndUnlock(d) /\ Exit(d)

WorkerStep(d) ==
    \/ SelectDone(d) \/ SelectSlot(d) \/ Recheck(d)
    \/ OpenTarget(d) \/ Download(d) \/ Stream(d) \/ Sync(d)
    \/ LockAndAppend(d) \/ WriteProgress(d)

RunStep == Validate \/ ExportVM \/ SelectFails \/ StartPool \/ Finish

\* kc-copy has exited and the server has nothing left to expire.
Terminated == phase = "returned" /\ lease # "ready" /\ UNCHANGED vars

Next ==
    \/ RunStep \/ LeaseExpires \/ Terminated
    \/ \E d \in Disks : WorkerStep(d)

Spec == Init /\ [][Next]_vars

\* Run and the goroutines are scheduled by the Go runtime, and every
\* download returns: the server finishes the stream or closes it.
FairSpec ==
    /\ Spec
    /\ WF_vars(RunStep)
    /\ \A d \in Disks : WF_vars(WorkerStep(d))

-----------------------------------------------------------------------------
(* Properties.                                                             *)

Holders == {d \in Disks : worker[d] \in Holding}

\* Never more goroutines between taking a slot and having recorded their
\* disk than ClampConcurrency allows: the slot outlives the progress write.
PoolBound == Cardinality(Holders) <= Concurrency

\* Run never reports a cancellation as the cause of a failed copy: the
\* error it returns is the one that made it cancel the other downloads.
RootCauseReported == firstErr.cause # "ctx"

\* Run returns nil only when each disk was streamed without an error and
\* recorded exactly once, however goroutines and cancellation interleave.
SuccessMeansAllRecorded ==
    result = "ok" =>
        /\ Len(progress) = Cardinality(Disks)
        /\ \A d \in Disks : \E i \in DOMAIN progress : progress[i] = d

\* As long as nothing has failed, the lease is alive on the server while any
\* goroutine downloads: it is ended only after wg.Wait.
LeaseOutlivesDownloads ==
    firstErr = NoErr /\ (\E d \in Disks : worker[d] \in {"get", "stream"})
        => lease = "ready" /\ updater

\* The progress file only ever grows: a goroutine never overwrites it with
\* an older snapshot than the one already there.
ProgressFileGrows ==
    [][~file'.torn => Len(file'.disks) >= Len(file.disks)]_file

\* Run returns, whatever fails: no goroutine waits for ever for a slot, for
\* the mutex or for a cancellation that does not come.
RunReturns == <>(phase = "returned")

\* "On failure of any disk, cancels all remaining copies and aborts the NFC
\* lease" (src/pkg/copy/README.md): a failed Run that had a lease leaves
\* none behind on the server, unless the network lost the request.
FailureAbortsLease ==
    result = "error" /\ exported /\ ~netFault => lease # "ready" /\ ~session

\* The promise of kc-copy to its caller: what Run has returned, and the disks
\* it has recorded.
Outcome == IF result = "ok" THEN "ok"
           ELSE IF result = "error" THEN "failed" ELSE "running"
Copied == {progress[i] : i \in DOMAIN progress}
Job == INSTANCE CopyJob WITH outcome <- Outcome, copied <- Copied

\* Run implements CopyJob: disks are recorded one at a time while it runs,
\* it ends once, in success only with every disk recorded.
ImplementsCopyJob == Job!JobSpec
=============================================================================
