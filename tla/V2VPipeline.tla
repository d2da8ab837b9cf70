----------------------------- MODULE V2VPipeline ----------------------------
(***************************************************************************)
(* kc-v2v (src/pkg/cmd/v2v/pipeline.go) with the qemu backend: the copy,   *)
(* then inside RunWithOverlay the three stage processes kc-prepare,        *)
(* kc-convert-* and kc-finalize, which all adopt one appliance VM booted   *)
(* by kc-v2v, with cleanup and shutdown in deferred functions.  The VM may *)
(* die at any time; ensureSharedListener boots another one after prepare   *)
(* and after convert.                                                      *)
(*                                                                         *)
(* A stage is as many steps as it has points where the death of the VM     *)
(* makes a difference: adopting it, writing to the guest, flushing,        *)
(* exiting.  What a stage writes is one edit that touches every disk; it   *)
(* sits in the VM's page cache until the guest kernel or a sync writes it. *)
(***************************************************************************)
EXTENDS Overlay

ASSUME PipelineAssumption == {"convert", "finalize"} \subseteq Edits

\* Every boot of a run: one at the start, one in each ensureSharedListener.
MaxBoots == 3
Boots == 1 .. MaxBoots
Stages == {"prepare", "convert", "finalize"}

VARIABLES
    overlayEnabled, \* V2V_overlayEnabled
    run,       \* Run: copy, discover, pipeline, xml, returned
    result,    \* what Run returned
    stage,     \* runPipelineOnceBody, and the stage process inside it
    failed,    \* pipelineErr # nil
    json,      \* pipeline.json holds a prepare section
    listener,  \* sharedListener: the boot it stands for, 0 for nil
    stageEnv,  \* the boot the stages' environment names
    boots,     \* VMs booted so far
    vms,       \* running VMs
    mounted,   \* VMs in which the guest's filesystems are mounted
    cache,     \* what each VM has not written to the disks yet
    exited,    \* history: the stages that exited with status 0
    vmDied     \* history: some VM died on its own

pipeVars == <<stage, failed, json, listener, stageEnv, boots, vms, mounted,
              cache, exited, vmDied>>
vars == <<ovVars, run, result, overlayEnabled, pipeVars>>

\* The state of Run, of its stages and of the VMs is well formed; in
\* particular a run boots at most MaxBoots VMs.
TypeOK ==
    /\ OverlayTypeOK
    /\ run \in {"copy", "discover", "pipeline", "xml", "returned"}
    /\ result \in {"none", "ok", "error"}
    /\ stage \in {"input", "listen", "prepare", "prepared", "convert",
                  "converting", "converted", "finalize", "customize", "flush",
                  "finalized", "cleanup", "close", "body"}
    /\ {overlayEnabled, failed, json, vmDied} \subseteq BOOLEAN
    /\ listener \in {0} \cup Boots /\ stageEnv \in {0} \cup Boots
    /\ boots \in {0} \cup Boots
    /\ vms \in SUBSET Boots /\ mounted \in SUBSET Boots
    /\ cache \in [Boots -> SUBSET Edits]
    /\ exited \in SUBSET Stages

\* Without overlays runPipeline calls runPipelineOnce on the disks.
Init ==
    /\ overlayEnabled \in BOOLEAN
    /\ IF overlayEnabled THEN OverlayInit
       ELSE /\ pc = "fn" /\ k = 1 /\ path = [d \in Disks |-> "backing"]
            /\ present = {} /\ delta = Empty /\ backing = Empty
            /\ written = Empty /\ ret = "none" /\ fnRet = "none"
    /\ run = "copy" /\ result = "none" /\ stage = "input"
    /\ failed = FALSE /\ json = FALSE
    /\ listener = 0 /\ stageEnv = 0 /\ boots = 0
    /\ vms = {} /\ mounted = {} /\ cache = [i \in Boots |-> {}]
    /\ exited = {} /\ vmDied = FALSE

-----------------------------------------------------------------------------
(* The appliance VM.                                                       *)

\* startSharedListener: a VM with all disks attached that answered a ping.
StartListener ==
    /\ boots' = boots + 1 /\ vms' = vms \cup {boots + 1}
    /\ listener' = boots + 1 /\ stageEnv' = boots + 1

\* A VM that dies takes its mounts and its page cache with it.
VMDies(i) ==
    /\ i \in vms
    /\ vms' = vms \ {i} /\ mounted' = mounted \ {i}
    /\ cache' = [cache EXCEPT ![i] = {}]
    /\ vmDied' = TRUE
    /\ UNCHANGED <<ovVars, run, result, overlayEnabled, stage, failed, json, listener, stageEnv,
                   boots, exited>>

\* The guest kernel writes dirty pages whenever it likes.
Flush(i) == WriteDisks(Disks, cache[i]) /\ cache' = [cache EXCEPT ![i] = {}]
Writeback(i) ==
    /\ i \in vms /\ cache[i] # {}
    /\ Flush(i)
    /\ UNCHANGED <<pc, k, path, present, ret, fnRet, run, result, overlayEnabled, stage, failed,
                   json, listener, stageEnv, boots, vms, mounted, exited, vmDied>>

\* A stage can adopt the VM its environment names.
Adoptable == stageEnv \in vms

\* A file edit through the agent.  Without the guest's filesystems mounted it
\* lands in the VM's own RAM disk; with the VM gone it fails.  The stage goes
\* on in each case.
Edit(e) ==
    cache' = IF stageEnv \in mounted
             THEN [cache EXCEPT ![stageEnv] = @ \cup {e}] ELSE cache

\* Teardown: Sync, unmount every recorded mount, close the connection.  With
\* the VM gone each call fails and only a warning is logged.  An unmount may
\* fail while the guest is busy.
TeardownGuest ==
    IF Adoptable
    THEN /\ Flush(stageEnv)
         /\ mounted' \in {mounted, mounted \ {stageEnv}}
    ELSE UNCHANGED <<delta, backing, written, cache, mounted>>

-----------------------------------------------------------------------------
(* runPipelineOnceBody.                                                    *)

InBody == run = "pipeline" /\ pc = "fn"

Step(from, to) == InBody /\ stage = from /\ stage' = to

\* fail(err): the deferred cleanup comes next.
FailTo(from) == Step(from, "cleanup") /\ failed' = TRUE

\* FetchSourceMeta, BuildPrepareInput and the input file: no VM yet.
BuildInput ==
    /\ \/ Step("input", "listen") /\ UNCHANGED failed
       \/ Step("input", "body") /\ failed' = TRUE
    /\ UNCHANGED <<ovVars, run, result, overlayEnabled, json, listener, stageEnv, boots, vms,
                   mounted, cache, exited, vmDied>>

\* setupSharedListener: a VM that does not come up is killed by boot itself,
\* and the body returns before any defer is registered.
SetupSharedListener ==
    /\ \/ Step("listen", "prepare") /\ StartListener /\ UNCHANGED failed
       \/ /\ Step("listen", "body") /\ failed' = TRUE
          /\ UNCHANGED <<listener, stageEnv, boots, vms>>
    /\ UNCHANGED <<ovVars, run, result, overlayEnabled, json, mounted, cache, exited, vmDied>>

\* kc-prepare mounts the guest and writes pipeline.json at its end.
PrepareOk ==
    /\ Adoptable
    /\ Step("prepare", "prepared")
    /\ mounted' = mounted \cup {stageEnv}
    /\ json' = TRUE /\ exited' = exited \cup {"prepare"}
    /\ UNCHANGED <<ovVars, run, result, overlayEnabled, failed, listener, stageEnv, boots, vms,
                   cache, vmDied>>

\* It exits with status 1, before or after some mounts; only the multi-boot
\* error writes pipeline.json.  The retry with root selector in
\* runPrepareStage needs status 0 and the error in the file, which kc-prepare
\* never produces together.
PrepareFails ==
    /\ FailTo("prepare")
    /\ \/ UNCHANGED <<mounted, json>>
       \/ Adoptable /\ mounted' = mounted \cup {stageEnv} /\ UNCHANGED json
       \/ Adoptable /\ json' = TRUE /\ UNCHANGED mounted
    /\ UNCHANGED <<ovVars, run, result, overlayEnabled, listener, stageEnv, boots, vms, cache,
                   exited, vmDied>>

\* ensureSharedListener after a stage: a live listener is kept; for a dead
\* one a new VM is started first and the old one closed after it.
EnsureSharedListener_KeepsEnv(from, to) ==
    /\ \/ listener \in vms /\ Step(from, to)
          /\ UNCHANGED <<failed, listener, boots, vms>>
       \/ listener \notin vms /\ Step(from, to)
          /\ boots' = boots + 1 /\ vms' = vms \cup {boots + 1}
          /\ listener' = boots + 1 /\ UNCHANGED failed
       \/ listener \notin vms /\ FailTo(from)
          /\ UNCHANGED <<listener, boots, vms>>
    /\ UNCHANGED <<ovVars, run, result, overlayEnabled, json, stageEnv, mounted, cache, exited,
                   vmDied>>

EnsureSharedListener(from, to) ==
    /\ \/ listener \in vms /\ Step(from, to)
          /\ UNCHANGED <<failed, listener, stageEnv, boots, vms>>
       \/ listener \notin vms /\ Step(from, to) /\ StartListener
          /\ UNCHANGED failed
       \/ listener \notin vms /\ FailTo(from)
          /\ UNCHANGED <<listener, stageEnv, boots, vms>>
    /\ UNCHANGED <<ovVars, run, result, overlayEnabled, json, mounted, cache, exited, vmDied>>

AfterPrepare == EnsureSharedListener("prepared", "convert")
AfterConvert == EnsureSharedListener("converted", "finalize")

\* A converter or kc-finalize attaches to the prepared guest: NewMounted
\* adopts the VM and records prepare's mounts without looking for them.  It
\* fails without the VM, and may fail, or not even start, for other reasons
\* (pipeline.json cannot be read).
Attach(from, to) ==
    /\ \/ Adoptable /\ Step(from, to) /\ UNCHANGED failed
       \/ FailTo(from)
    /\ UNCHANGED <<ovVars, run, result, overlayEnabled, json, listener, stageEnv, boots, vms,
                   mounted, cache, exited, vmDied>>

ConvertAttach == Attach("convert", "converting")

\* The converter edits the guest.  Only some of its blocks are fatal, so it
\* may exit with status 0 even though the VM is gone or nothing is mounted.
Convert_IgnoresExit ==
    /\ Step("converting", "converted") /\ Edit("convert")
    /\ exited' \in {exited, exited \cup {"convert"}}
    /\ UNCHANGED <<ovVars, run, result, overlayEnabled, failed, json, listener, stageEnv, boots,
                   vms, mounted, vmDied>>

Convert ==
    /\ \/ Step("converting", "converted") /\ Edit("convert")
          /\ exited' = exited \cup {"convert"} /\ UNCHANGED failed
       \/ FailTo("converting") /\ Edit("convert") /\ UNCHANGED exited
    /\ UNCHANGED <<ovVars, run, result, overlayEnabled, json, listener, stageEnv, boots, vms,
                   mounted, vmDied>>

FinalizeAttach == Attach("finalize", "customize")

\* The customizers; each failure is a warning.
Customize ==
    /\ Step("customize", "flush") /\ Edit("finalize")
    /\ UNCHANGED <<ovVars, run, result, overlayEnabled, failed, json, listener, stageEnv, boots,
                   vms, mounted, exited, vmDied>>

\* Sync, trim, UnmountFilesystems, fsck and ReleaseDevices; every failure is
\* a warning.
FinalizeTeardown_NoSync ==
    /\ Step("flush", "finalized")
    /\ mounted' \in {mounted, mounted \ {stageEnv}}
    /\ UNCHANGED <<ovVars, run, result, overlayEnabled, failed, json, listener, stageEnv, boots,
                   vms, cache, exited, vmDied>>

FinalizeTeardown ==
    /\ Step("flush", "finalized") /\ TeardownGuest
    /\ UNCHANGED <<pc, k, path, present, ret, fnRet, run, result, overlayEnabled, failed, json,
                   listener, stageEnv, boots, vms, exited, vmDied>>

\* WriteTargetMeta and the exit status, then readJSON.
FinalizeExits ==
    /\ \/ /\ Step("finalized", "close")
          /\ exited' = exited \cup {"finalize"} /\ UNCHANGED failed
       \/ FailTo("finalized") /\ UNCHANGED exited
    /\ UNCHANGED <<ovVars, run, result, overlayEnabled, json, listener, stageEnv, boots, vms,
                   mounted, cache, vmDied>>

\* bestEffortGuestCleanup: kc-finalize --teardown-only with whatever
\* pipeline.json there is; without one, or without the VM, it only clears the
\* mount root on the host.  Its own failure is logged.
Cleanup_NeedsVM ==
    /\ Step("cleanup", "close") /\ Adoptable /\ TeardownGuest
    /\ UNCHANGED <<pc, k, path, present, ret, fnRet, run, result, overlayEnabled, failed, json,
                   listener, stageEnv, boots, vms, exited, vmDied>>

Cleanup ==
    /\ Step("cleanup", "close")
    /\ IF json THEN TeardownGuest
       ELSE UNCHANGED <<delta, backing, written, cache, mounted>>
    /\ UNCHANGED <<pc, k, path, present, ret, fnRet, run, result, overlayEnabled, failed, json,
                   listener, stageEnv, boots, vms, exited, vmDied>>

\* The deferred listener.Close: the VM is killed with what is in its cache.
CloseListener_Detaches ==
    /\ Step("close", "body")
    /\ listener' = 0
    /\ UNCHANGED <<ovVars, run, result, overlayEnabled, failed, json, stageEnv, boots, vms,
                   mounted, cache, exited, vmDied>>

CloseListener ==
    /\ Step("close", "body")
    /\ vms' = vms \ {listener} /\ mounted' = mounted \ {listener}
    /\ cache' = [cache EXCEPT ![listener] = {}]
    /\ listener' = 0
    /\ UNCHANGED <<ovVars, run, result, overlayEnabled, failed, json, stageEnv, boots, exited,
                   vmDied>>

\* What the return of runPipelineOnceBody means: it is RunWithOverlay's fn, or
\* without overlays the whole of runPipeline.
FnReturns ==
    /\ CASE overlayEnabled /\ failed -> FnFails
         [] overlayEnabled /\ ~failed -> FnOk
         [] OTHER -> /\ ReturnTo(IF failed THEN "error" ELSE "ok")
                     /\ fnRet' = IF failed THEN "error" ELSE "ok"
                     /\ UNCHANGED <<k, path, present, delta, backing, written>>
    /\ UNCHANGED <<run, result, overlayEnabled, pipeVars>>

BodyReturns_NoWait == InBody /\ stage \in {"flush", "body"} /\ FnReturns

BodyReturns == InBody /\ stage = "body" /\ FnReturns

-----------------------------------------------------------------------------
(* Run.                                                                    *)

ReturnRun(r) == run' = "returned" /\ result' = r

\* NeedsCopy: kc-copy, or in-place without it; DiscoverDisks.
Copy ==
    /\ run = "copy"
    /\ \/ run' = "discover" /\ UNCHANGED result
       \/ ReturnRun("error")
    /\ UNCHANGED <<ovVars, overlayEnabled, pipeVars>>

DiscoverDisks ==
    /\ run = "discover"
    /\ \/ run' = "pipeline" /\ UNCHANGED result
       \/ ReturnRun("error")
    /\ UNCHANGED <<ovVars, overlayEnabled, pipeVars>>

OverlayMove == run = "pipeline" /\ OverlayStep /\ UNCHANGED <<run, result, overlayEnabled, pipeVars>>

PipelineReturned ==
    /\ run = "pipeline" /\ pc = "returned"
    /\ \/ ret = "ok" /\ run' = "xml" /\ UNCHANGED result
       \/ ret = "error" /\ ReturnRun("error")
    /\ UNCHANGED <<ovVars, overlayEnabled, pipeVars>>

\* WriteInspectionXML, then the HTTP server until it is shut down.
WriteXML ==
    /\ run = "xml"
    /\ ReturnRun("ok") \/ ReturnRun("error")
    /\ UNCHANGED <<ovVars, overlayEnabled, pipeVars>>

\* The container is killed: kc-v2v and every VM with it.
KilledAll ==
    /\ run = "pipeline" /\ Killed
    /\ vms' = {} /\ mounted' = {} /\ cache' = [i \in Boots |-> {}]
    /\ UNCHANGED <<run, result, overlayEnabled, stage, failed, json, listener, stageEnv, boots,
                   exited, vmDied>>

Done == (run = "returned" \/ pc = "killed") /\ UNCHANGED vars

BodyStep ==
    \/ BuildInput \/ SetupSharedListener \/ PrepareOk \/ PrepareFails
    \/ AfterPrepare \/ ConvertAttach \/ Convert \/ AfterConvert
    \/ FinalizeAttach \/ Customize \/ FinalizeTeardown \/ FinalizeExits
    \/ Cleanup \/ CloseListener \/ BodyReturns

RunStep == Copy \/ DiscoverDisks \/ OverlayMove \/ PipelineReturned \/ WriteXML

Next ==
    \/ BodyStep \/ RunStep \/ KilledAll \/ Done
    \/ \E i \in Boots : VMDies(i) \/ Writeback(i)

\* Processes kc-v2v waits for end by themselves: every subprocess exits and
\* qemu-img finishes.
Spec == Init /\ [][Next]_vars /\ WF_vars(BodyStep) /\ WF_vars(RunStep)

-----------------------------------------------------------------------------
(* Properties.                                                             *)

\* qemu-img never commits an overlay that a VM still has open: the deferred
\* Close has run, on the listener of the last restart, when fn returns.
CommitWithoutWriters == pc = "commit" => vms = {}

\* Every stage, and the cleanup after a failure, is given the environment of
\* the listener that is current after any restart.
StagesGetCurrentListener ==
    stage \in {"convert", "converting", "finalize", "customize", "flush",
               "finalized", "cleanup"} => stageEnv = listener

\* With overlays a backing disk changes only after all three stages have
\* exited with status 0, whatever died in between.
CommitOnlyConvertedGuests ==
    overlayEnabled /\ (\E d \in Disks : backing[d] # {}) => exited = Stages

\* If no VM died, a successful run has the edits of the converter and of the
\* customizers on every disk: they leave the page cache before the VM is
\* killed and the overlay before it is removed.
SuccessMeansEditsOnDisks ==
    result = "ok" /\ ~vmDied =>
        \A d \in Disks : {"convert", "finalize"} \subseteq backing[d]

\* When Run has returned no VM is running and no overlay is left.
NoOrphans == run = "returned" => vms = {} /\ present = {}

\* Run returns unless it is killed, however often VMs die.
RunReturns == <>(run = "returned" \/ pc = "killed")

\* With overlays, what the stages and their VMs do is what a function inside
\* RunWithOverlay may do: in particular nothing is written to a disk after the
\* function returned.  Without overlays RunWithOverlay is not called.
Called(x, before) == IF overlayEnabled THEN x ELSE before
RunWithOverlay == INSTANCE Overlay WITH
    pc <- Called(pc, "create"), k <- Called(k, 1),
    path <- Called(path, [d \in Disks |-> "backing"]), present <- Called(present, {}),
    delta <- Called(delta, Empty), backing <- Called(backing, Empty),
    ret <- Called(ret, "none"), fnRet <- Called(fnRet, "none"), written <- Called(written, Empty)
ImplementsOverlay == RunWithOverlay!OverlaySpec

\* "Prepare's mounts are still live in the appliance"
\* (src/pkg/backend/plugins/qemu/backend.go): the stages that adopt the
\* appliance after prepare find the guest mounted in it.
AdoptedMountsAreLive ==
    stage \in {"converting", "customize"} /\ stageEnv \in vms => stageEnv \in mounted
=============================================================================
