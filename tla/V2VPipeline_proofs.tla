------------------------- MODULE V2VPipeline_proofs -------------------------
(***************************************************************************)
(* Proofs about V2VPipeline for any number of disks and any set of edits:  *)
(* the type invariant, which bounds the VMs a run boots, the five safety   *)
(* invariants that MCV2VPipeline checks on two disks, and that what the    *)
(* stages and their VMs do is what Overlay lets the function inside        *)
(* RunWithOverlay do.                                                      *)
(*                                                                         *)
(* PipeInv is inductive.  Its parts say where Run is relative to           *)
(* RunWithOverlay (Phases), which VM may be running at each stage (VMs),   *)
(* which stages have exited (Exits), where the edits are while no VM has   *)
(* died (EditsKept), and what the disks hold (OnDisk), which with overlays *)
(* is the invariant of Overlay_proofs.                                     *)
(***************************************************************************)
EXTENDS V2VPipeline, Overlay_proofs

\* Run, RunWithOverlay and the body move in this order; the body has returned
\* nil when the commit starts.
Phases ==
    /\ run \in {"copy", "discover"} \/ (run = "returned" /\ pc # "returned") =>
          /\ pc = (IF overlayEnabled THEN "create" ELSE "fn")
          /\ k = 1 /\ stage = "input"
    /\ pc = "create" => stage = "input"
    /\ pc = "commit" => fnRet = "ok"
    /\ pc = "returned" => stage \in {"input", "body"}
    /\ fnRet = "ok" \/ ret = "ok" => stage = "body" /\ ~failed
    /\ run = "xml" => pc = "returned" /\ ret = "ok"
    /\ result = "ok" => run = "returned" /\ pc = "returned" /\ ret = "ok"

\* Only the VM of the current listener can be running, the stages know that
\* listener, and each of the three places that boot a VM boots at most one.
Booted == stage \notin {"input", "listen", "body"}
VMs ==
    /\ vms \subseteq {listener} /\ (vms # {} => pc = "fn" /\ run = "pipeline")
    /\ stage \in {"input", "listen"} => boots = 0
    /\ stage \in {"prepare", "prepared"} => boots <= 1
    /\ stage \in {"convert", "converting", "converted"} => boots <= 2
    /\ IF Booted THEN listener \in Boots /\ stageEnv = listener /\ boots = listener
       ELSE listener = 0

\* A stage follows the exits with status 0 of the ones before it.
Exits ==
    /\ failed => stage \in {"cleanup", "close", "body"}
    /\ stage = "cleanup" => failed
    /\ stage \in {"prepared", "convert", "converting"} => "prepare" \in exited
    /\ stage \in {"converted", "finalize", "customize", "flush", "finalized"} =>
          {"prepare", "convert"} \subseteq exited
    /\ stage \in {"close", "body"} /\ ~failed => exited = Stages

\* While no VM has died, the VM booted first is the one all stages use, it
\* has the guest mounted, and an edit is in its page cache or on the disks.
EditsKept ==
    ~vmDied =>
    /\ Booted /\ pc = "fn" => listener \in vms
    /\ stage \in {"prepared", "convert", "converting", "converted", "finalize",
                  "customize", "flush"} /\ pc = "fn" => listener \in mounted
    /\ stage \in {"converted", "finalize", "customize", "flush"} /\ pc = "fn" =>
          \A d \in Disks : "convert" \in cache[listener] \cup written[d]
    /\ stage = "flush" /\ pc = "fn" =>
          \A d \in Disks : "finalize" \in cache[listener] \cup written[d]
    /\ stage \in {"finalized", "close", "body"} /\ ~failed =>
          \A d \in Disks : {"convert", "finalize"} \subseteq written[d]

\* With overlays, the invariant of RunWithOverlay; without, the disks are
\* written directly.
OnDisk ==
    /\ overlayEnabled => OverlayInv
    /\ ~overlayEnabled =>
          /\ pc \in {"fn", "returned", "killed"} /\ present = {}
          /\ backing = written /\ \A d \in Disks : path[d] = "backing"

PipeInv == TypeOK /\ Phases /\ VMs /\ Exits /\ EditsKept /\ OnDisk

USE OverlayAssumption, PipelineAssumption

-----------------------------------------------------------------------------
(* Lemmas about the disks.                                                 *)

\* The invariant holds when Run is called.
LEMMA PipeInitInv == Init => PipeInv
<1> SUFFICES ASSUME Init PROVE PipeInv
    OBVIOUS
<1>1. OverlayTypeOK /\ OnDisk
    <2>1. CASE overlayEnabled
        BY <2>1, InitInv DEF Init, OnDisk, OverlayInv
    <2>2. CASE ~overlayEnabled
        <3>1. /\ pc = "fn" /\ k = 1 /\ path = [d \in Disks |-> "backing"]
              /\ present = {} /\ delta = Empty /\ backing = Empty
              /\ written = Empty /\ ret = "none" /\ fnRet = "none"
            BY <2>2 DEF Init
        <3>2. OverlayTypeOK
            BY <3>1 DEF OverlayTypeOK, Empty
        <3> QED BY <2>2, <3>1, <3>2 DEF OnDisk
    <2> QED BY <2>1, <2>2
<1>2. TypeOK
    BY <1>1 DEF Init, TypeOK, Boots, MaxBoots
<1>3. Phases
    BY DEF Init, Phases, OverlayInit
<1>4. VMs /\ Exits /\ EditsKept
    BY DEF Init, VMs, Booted, Exits, EditsKept
<1> QED BY <1>1, <1>2, <1>3, <1>4 DEF PipeInv

\* A step that leaves RunWithOverlay's state alone leaves the disks alone.
LEMMA DisksAlone ==
    ASSUME PipeInv, UNCHANGED <<ovVars, overlayEnabled>>
    PROVE  OverlayTypeOK' /\ OnDisk'
<1>1. OverlayTypeOK'
    BY DEF PipeInv, TypeOK, OverlayTypeOK, ovVars
<1>2. CASE overlayEnabled
    BY <1>1, <1>2, KilledInv DEF PipeInv, OnDisk
<1>3. CASE ~overlayEnabled
    BY <1>1, <1>3 DEF PipeInv, OnDisk, ovVars
<1> QED BY <1>1, <1>2, <1>3

\* A VM that writes its page cache while the body runs does what a function
\* inside RunWithOverlay may do.
LEMMA DisksWritten ==
    ASSUME PipeInv, pc = "fn", NEW E \in SUBSET Edits, WriteDisks(Disks, E),
           UNCHANGED <<pc, k, path, present, ret, fnRet, overlayEnabled>>
    PROVE  /\ OverlayTypeOK' /\ OnDisk'
           /\ \A d \in Disks : written'[d] = written[d] \cup E
<1> USE DEF PipeInv, TypeOK
<1>1. \A d \in Disks : written'[d] = written[d] \cup E
    BY DEF WriteDisks
<1>2. OverlayTypeOK'
    BY DEF OverlayTypeOK, WriteDisks
<1>3. CASE overlayEnabled
    <2>1. FnWrite(Disks, E)
        BY DEF FnWrite
    <2>2. OverlayInv'
        BY <1>3, <2>1, FnInv DEF OnDisk
    <2> QED BY <1>1, <1>2, <1>3, <2>2 DEF OnDisk
<1>4. CASE ~overlayEnabled
    <2>1. backing' = written'
        BY <1>4 DEF OnDisk, WriteDisks
    <2> QED BY <1>1, <1>2, <1>4, <2>1 DEF OnDisk
<1> QED BY <1>3, <1>4

-----------------------------------------------------------------------------
(* One lemma per group of actions.                                         *)

\* Up to the end of kc-prepare.
LEMMA PrepareInv ==
    PipeInv /\ (BuildInput \/ SetupSharedListener \/ PrepareOk \/ PrepareFails)
        => PipeInv'
<1> SUFFICES ASSUME PipeInv, BuildInput \/ SetupSharedListener \/ PrepareOk \/ PrepareFails
             PROVE  PipeInv'
    OBVIOUS
<1> USE DEF PipeInv, InBody, Step, FailTo
<1>1. OverlayTypeOK' /\ OnDisk'
    BY DisksAlone DEF BuildInput, SetupSharedListener, PrepareOk, PrepareFails
<1>2. CASE BuildInput
    <2>1. TypeOK'
        BY <1>1, <1>2 DEF BuildInput, TypeOK, VMs, Booted, Boots, MaxBoots,
               Stages
    <2>2. Phases'
        BY <1>2 DEF BuildInput, Phases, ovVars
    <2>3. VMs'
        BY <1>2 DEF BuildInput, VMs, Booted, TypeOK, Boots, MaxBoots, ovVars
    <2>4. Exits'
        BY <1>2 DEF BuildInput, Exits, Stages
    <2>5. EditsKept'
        BY <1>2 DEF BuildInput, EditsKept, VMs, Exits, Booted, TypeOK, ovVars
    <2> QED BY <1>1, <2>1, <2>2, <2>3, <2>4, <2>5
<1>3. CASE SetupSharedListener
    <2>1. TypeOK'
        <3>1. boots = 0 /\ boots + 1 \in Boots
            BY <1>3 DEF SetupSharedListener, VMs, Boots, MaxBoots
        <3> QED BY <1>1, <1>3, <3>1 DEF SetupSharedListener, StartListener, TypeOK
    <2>2. Phases'
        BY <1>3 DEF SetupSharedListener, StartListener, Phases, ovVars
    <2>3. VMs'
        <3>1. boots = 0 /\ 0 \notin Boots /\ 1 \in Boots /\ vms = {}
            BY <1>3 DEF SetupSharedListener, VMs, Booted, TypeOK, Boots, MaxBoots
        <3> QED BY <1>3, <3>1 DEF SetupSharedListener, StartListener, VMs, Booted, ovVars
    <2>4. Exits'
        BY <1>3 DEF SetupSharedListener, StartListener, Exits, Stages
    <2>5. EditsKept'
        BY <1>3 DEF SetupSharedListener, StartListener, EditsKept, VMs, Exits,
               Booted, TypeOK, ovVars
    <2> QED BY <1>1, <2>1, <2>2, <2>3, <2>4, <2>5
<1>4. CASE PrepareOk
    <2>1. TypeOK'
        BY <1>1, <1>4 DEF PrepareOk, Adoptable, TypeOK, VMs, Booted, Boots,
               MaxBoots, Stages
    <2>2. Phases'
        BY <1>4 DEF PrepareOk, Adoptable, Phases, ovVars
    <2>3. VMs'
        BY <1>4 DEF PrepareOk, Adoptable, VMs, Booted, TypeOK, Boots,
               MaxBoots, ovVars
    <2>4. Exits'
        BY <1>4 DEF PrepareOk, Adoptable, Exits, Stages
    <2>5. EditsKept'
        BY <1>4 DEF PrepareOk, Adoptable, EditsKept, VMs, Exits, Booted,
               TypeOK, ovVars
    <2> QED BY <1>1, <2>1, <2>2, <2>3, <2>4, <2>5
<1>5. CASE PrepareFails
    <2>1. TypeOK'
        BY <1>1, <1>5 DEF PrepareFails, Adoptable, TypeOK, VMs, Booted, Boots,
               MaxBoots, Stages
    <2>2. Phases'
        BY <1>5 DEF PrepareFails, Adoptable, Phases, ovVars
    <2>3. VMs'
        BY <1>5 DEF PrepareFails, Adoptable, VMs, Booted, TypeOK, Boots,
               MaxBoots, ovVars
    <2>4. Exits'
        BY <1>5 DEF PrepareFails, Adoptable, Exits, Stages
    <2>5. EditsKept'
        BY <1>5 DEF PrepareFails, Adoptable, EditsKept, VMs, Exits, Booted,
               TypeOK, ovVars
    <2> QED BY <1>1, <2>1, <2>2, <2>3, <2>4, <2>5
<1> QED BY <1>2, <1>3, <1>4, <1>5

\* A listener found dead after a stage is replaced.
LEMMA ListenerInv ==
    PipeInv /\ (AfterPrepare \/ AfterConvert)
        => PipeInv'
<1> SUFFICES ASSUME PipeInv, AfterPrepare \/ AfterConvert
             PROVE  PipeInv'
    OBVIOUS
<1> USE DEF PipeInv, InBody, Step, FailTo
<1>1. OverlayTypeOK' /\ OnDisk'
    BY DisksAlone DEF AfterPrepare, EnsureSharedListener, AfterConvert
<1>2. CASE AfterPrepare
    <2> USE <1>2 DEF AfterPrepare, EnsureSharedListener, StartListener
    <2>0. /\ boots = listener /\ stageEnv = listener /\ listener \in Boots
          /\ boots + 1 \in Boots /\ 0 \notin Boots /\ boots \in Nat
        BY DEF VMs, Booted, Boots, MaxBoots
    <2>1. TypeOK'
        BY <1>1, <2>0 DEF TypeOK
    <2>2. Phases'
        BY DEF Phases, ovVars
    <2>3. VMs'
        <3>1. CASE listener \in vms
            <4>1. /\ UNCHANGED <<listener, stageEnv, boots, vms, pc, run>>
                  /\ stage = "prepared" /\ stage' = "convert"
                BY <3>1 DEF ovVars
            <4>2. boots <= 2
                BY <2>0, <4>1 DEF VMs
            <4> QED BY <2>0, <4>1, <4>2 DEF VMs, Booted
        <3>2. CASE listener \notin vms
            <4>1. vms = {}
                BY <3>2 DEF VMs
            <4> QED BY <2>0, <3>2, <4>1 DEF VMs, Booted, ovVars
        <3> QED BY <3>1, <3>2
    <2>4. Exits'
        BY DEF Exits, Stages
    <2>5. EditsKept'
        BY DEF EditsKept, VMs, Exits, Booted, TypeOK, ovVars
    <2> QED BY <1>1, <2>1, <2>2, <2>3, <2>4, <2>5
<1>3. CASE AfterConvert
    <2> USE <1>3 DEF AfterConvert, EnsureSharedListener, StartListener
    <2>0. /\ boots = listener /\ stageEnv = listener /\ listener \in Boots
          /\ boots + 1 \in Boots /\ 0 \notin Boots /\ boots \in Nat
        BY DEF VMs, Booted, Boots, MaxBoots
    <2>1. TypeOK'
        BY <1>1, <2>0 DEF TypeOK
    <2>2. Phases'
        BY DEF Phases, ovVars
    <2>3. VMs'
        <3>1. CASE listener \in vms
            BY <2>0, <3>1 DEF VMs, Booted, ovVars
        <3>2. CASE listener \notin vms
            <4>1. vms = {}
                BY <3>2 DEF VMs
            <4> QED BY <2>0, <3>2, <4>1 DEF VMs, Booted, ovVars
        <3> QED BY <3>1, <3>2
    <2>4. Exits'
        BY DEF Exits, Stages
    <2>5. EditsKept'
        BY DEF EditsKept, VMs, Exits, Booted, TypeOK, ovVars
    <2> QED BY <1>1, <2>1, <2>2, <2>3, <2>4, <2>5
<1> QED BY <1>2, <1>3

\* The converter and the customizers edit the guest.
LEMMA ConvertInv ==
    PipeInv /\ (ConvertAttach \/ Convert \/ FinalizeAttach \/ Customize)
        => PipeInv'
<1> SUFFICES ASSUME PipeInv, ConvertAttach \/ Convert \/ FinalizeAttach \/ Customize
             PROVE  PipeInv'
    OBVIOUS
<1> USE DEF PipeInv, InBody, Step, FailTo
<1>1. OverlayTypeOK' /\ OnDisk'
    BY DisksAlone DEF ConvertAttach, Attach, Convert, FinalizeAttach,
           Customize
<1>2. CASE ConvertAttach
    <2>1. TypeOK'
        BY <1>1, <1>2 DEF ConvertAttach, Attach, Adoptable, TypeOK, VMs,
               Booted, Boots, MaxBoots, Stages
    <2>2. Phases'
        BY <1>2 DEF ConvertAttach, Attach, Adoptable, Phases, ovVars
    <2>3. VMs'
        BY <1>2 DEF ConvertAttach, Attach, Adoptable, VMs, Booted, TypeOK,
               Boots, MaxBoots, ovVars
    <2>4. Exits'
        BY <1>2 DEF ConvertAttach, Attach, Adoptable, Exits, Stages
    <2>5. EditsKept'
        BY <1>2 DEF ConvertAttach, Attach, Adoptable, EditsKept, VMs, Exits,
               Booted, TypeOK, ovVars
    <2> QED BY <1>1, <2>1, <2>2, <2>3, <2>4, <2>5
<1>3. CASE Convert
    <2>1. TypeOK'
        BY <1>1, <1>3 DEF Convert, Edit, TypeOK, VMs, Booted, Boots, MaxBoots,
               Stages
    <2>2. Phases'
        BY <1>3 DEF Convert, Edit, Phases, ovVars
    <2>3. VMs'
        BY <1>3 DEF Convert, Edit, VMs, Booted, TypeOK, Boots, MaxBoots,
               ovVars
    <2>4. Exits'
        BY <1>3 DEF Convert, Edit, Exits, Stages
    <2>5. EditsKept'
        BY <1>3 DEF Convert, Edit, EditsKept, VMs, Exits, Booted, TypeOK,
               ovVars
    <2> QED BY <1>1, <2>1, <2>2, <2>3, <2>4, <2>5
<1>4. CASE FinalizeAttach
    <2>1. TypeOK'
        BY <1>1, <1>4 DEF FinalizeAttach, Attach, Adoptable, TypeOK, VMs,
               Booted, Boots, MaxBoots, Stages
    <2>2. Phases'
        BY <1>4 DEF FinalizeAttach, Attach, Adoptable, Phases, ovVars
    <2>3. VMs'
        BY <1>4 DEF FinalizeAttach, Attach, Adoptable, VMs, Booted, TypeOK,
               Boots, MaxBoots, ovVars
    <2>4. Exits'
        BY <1>4 DEF FinalizeAttach, Attach, Adoptable, Exits, Stages
    <2>5. EditsKept'
        BY <1>4 DEF FinalizeAttach, Attach, Adoptable, EditsKept, VMs, Exits,
               Booted, TypeOK, ovVars
    <2> QED BY <1>1, <2>1, <2>2, <2>3, <2>4, <2>5
<1>5. CASE Customize
    <2>1. TypeOK'
        BY <1>1, <1>5 DEF Customize, Edit, TypeOK, VMs, Booted, Boots,
               MaxBoots, Stages
    <2>2. Phases'
        BY <1>5 DEF Customize, Edit, Phases, ovVars
    <2>3. VMs'
        BY <1>5 DEF Customize, Edit, VMs, Booted, TypeOK, Boots, MaxBoots,
               ovVars
    <2>4. Exits'
        BY <1>5 DEF Customize, Edit, Exits, Stages
    <2>5. EditsKept'
        BY <1>5 DEF Customize, Edit, EditsKept, VMs, Exits, Booted, TypeOK,
               ovVars
    <2> QED BY <1>1, <2>1, <2>2, <2>3, <2>4, <2>5
<1> QED BY <1>2, <1>3, <1>4, <1>5

\* kc-finalize exits and the VM is killed.
LEMMA CloseInv ==
    PipeInv /\ (FinalizeExits \/ CloseListener)
        => PipeInv'
<1> SUFFICES ASSUME PipeInv, FinalizeExits \/ CloseListener
             PROVE  PipeInv'
    OBVIOUS
<1> USE DEF PipeInv, InBody, Step, FailTo
<1>1. OverlayTypeOK' /\ OnDisk'
    BY DisksAlone DEF FinalizeExits, CloseListener
<1>2. CASE FinalizeExits
    <2>1. TypeOK'
        BY <1>1, <1>2 DEF FinalizeExits, TypeOK, VMs, Booted, Boots, MaxBoots,
               Stages
    <2>2. Phases'
        BY <1>2 DEF FinalizeExits, Phases, ovVars
    <2>3. VMs'
        BY <1>2 DEF FinalizeExits, VMs, Booted, TypeOK, Boots, MaxBoots,
               ovVars
    <2>4. Exits'
        BY <1>2 DEF FinalizeExits, Exits, Stages, TypeOK
    <2>5. EditsKept'
        BY <1>2 DEF FinalizeExits, EditsKept, VMs, Exits, Booted, TypeOK,
               ovVars
    <2> QED BY <1>1, <2>1, <2>2, <2>3, <2>4, <2>5
<1>3. CASE CloseListener
    <2>1. TypeOK'
        BY <1>1, <1>3 DEF CloseListener, TypeOK, VMs, Booted, Boots, MaxBoots,
               Stages
    <2>2. Phases'
        BY <1>3 DEF CloseListener, Phases, ovVars
    <2>3. VMs'
        BY <1>3 DEF CloseListener, VMs, Booted, TypeOK, Boots, MaxBoots,
               ovVars
    <2>4. Exits'
        BY <1>3 DEF CloseListener, Exits, Stages
    <2>5. EditsKept'
        BY <1>3 DEF CloseListener, EditsKept, VMs, Exits, Booted, TypeOK,
               ovVars
    <2> QED BY <1>1, <2>1, <2>2, <2>3, <2>4, <2>5
<1> QED BY <1>2, <1>3

\* kc-finalize, or the cleanup after a failure, syncs and unmounts the guest.
LEMMA TeardownInv == PipeInv /\ (FinalizeTeardown \/ Cleanup) => PipeInv'
<1> SUFFICES ASSUME PipeInv, FinalizeTeardown \/ Cleanup PROVE PipeInv'
    OBVIOUS
<1> USE DEF PipeInv, InBody, Step, FailTo
<1>1. /\ stageEnv = listener /\ listener \in Boots /\ pc = "fn"
      /\ UNCHANGED <<pc, k, path, present, ret, fnRet, run, result,
                     overlayEnabled, failed, json, listener, stageEnv, boots,
                     vms, exited, vmDied>>
    BY DEF FinalizeTeardown, Cleanup, VMs, Booted
<1>2. /\ mounted' \in {mounted, mounted \ {listener}}
      /\ \/ UNCHANGED <<delta, backing, written, cache, mounted>>
            /\ (FinalizeTeardown => listener \notin vms)
         \/ Flush(listener)
    BY <1>1 DEF FinalizeTeardown, Cleanup, TeardownGuest, Adoptable
<1>3. /\ OverlayTypeOK' /\ OnDisk'
      /\ \A d \in Disks : written[d] \subseteq written'[d]
      /\ listener \in vms /\ FinalizeTeardown =>
            \A d \in Disks : written'[d] = written[d] \cup cache[listener]
    <2>1. CASE UNCHANGED <<delta, backing, written, cache, mounted>>
                  /\ (FinalizeTeardown => listener \notin vms)
        BY <1>1, <2>1, DisksAlone DEF ovVars
    <2>2. CASE Flush(listener)
        <3>1. cache[listener] \in SUBSET Edits
            BY <1>1 DEF TypeOK
        <3> QED BY <1>1, <2>2, <3>1, DisksWritten DEF Flush
    <2> QED BY <1>2, <2>1, <2>2
<1>4. TypeOK'
    BY <1>1, <1>2, <1>3 DEF FinalizeTeardown, Cleanup, Flush, TypeOK
<1>5. Phases'
    BY <1>1 DEF FinalizeTeardown, Cleanup, Phases
<1>6. VMs'
    BY <1>1 DEF FinalizeTeardown, Cleanup, VMs, Booted
<1>7. Exits'
    BY <1>1 DEF FinalizeTeardown, Cleanup, Exits
<1>8. EditsKept'
    <2>1. CASE FinalizeTeardown
        BY <1>1, <1>3, <2>1 DEF FinalizeTeardown, EditsKept, Booted
    <2>2. CASE Cleanup
        BY <1>1, <2>2 DEF Cleanup, EditsKept, Exits, Booted
    <2> QED BY <2>1, <2>2
<1> QED BY <1>3, <1>4, <1>5, <1>6, <1>7, <1>8

\* A VM dies, or its kernel writes dirty pages, at any time.
LEMMA VMInv == PipeInv /\ (\E i \in Boots : VMDies(i) \/ Writeback(i)) => PipeInv'
<1> SUFFICES ASSUME PipeInv, NEW i \in Boots, VMDies(i) \/ Writeback(i)
             PROVE  PipeInv'
    OBVIOUS
<1> USE DEF PipeInv
<1>1. i = listener /\ pc = "fn" /\ run = "pipeline"
    BY DEF VMDies, Writeback, VMs
<1>2. CASE VMDies(i)
    <2>1. OverlayTypeOK' /\ OnDisk'
        BY <1>2, DisksAlone DEF VMDies
    <2>2. TypeOK'
        BY <1>2, <2>1 DEF VMDies, TypeOK
    <2>3. Phases'
        BY <1>2 DEF VMDies, Phases, ovVars
    <2>4. VMs' /\ Exits'
        BY <1>2 DEF VMDies, VMs, Booted, Exits, ovVars
    <2>5. EditsKept'
        BY <1>2 DEF VMDies, EditsKept
    <2> QED BY <2>1, <2>2, <2>3, <2>4, <2>5
<1>3. CASE Writeback(i)
    <2>1. /\ OverlayTypeOK' /\ OnDisk'
          /\ \A d \in Disks : written'[d] = written[d] \cup cache[i]
        <3>1. cache[i] \in SUBSET Edits
            BY DEF TypeOK
        <3> QED BY <1>1, <1>3, <3>1, DisksWritten DEF Writeback, Flush
    <2>2. TypeOK'
        BY <1>3, <2>1 DEF Writeback, Flush, TypeOK
    <2>3. Phases'
        BY <1>3 DEF Writeback, Phases
    <2>4. VMs' /\ Exits'
        BY <1>3 DEF Writeback, VMs, Booted, Exits
    <2>5. EditsKept'
        BY <1>1, <1>3, <2>1 DEF Writeback, EditsKept, Booted
    <2> QED BY <2>1, <2>2, <2>3, <2>4, <2>5
<1> QED BY <1>2, <1>3

\* The body returns: to RunWithOverlay, or without overlays to runPipeline.
LEMMA ReturnInv == PipeInv /\ BodyReturns => PipeInv'
<1> SUFFICES ASSUME PipeInv, BodyReturns PROVE PipeInv'
    OBVIOUS
<1> USE DEF PipeInv, BodyReturns, InBody, FnReturns
<1>1. /\ pc = "fn" /\ run = "pipeline" /\ stage = "body" /\ listener = 0
      /\ vms = {}
    BY DEF VMs, Booted, TypeOK, Boots
<1>2. UNCHANGED <<run, result, overlayEnabled, stage, failed, json, listener, stageEnv,
                  boots, vms, mounted, cache, exited, vmDied>>
    BY DEF pipeVars
<1>3. /\ fnRet' = (IF failed THEN "error" ELSE "ok")
      /\ IF overlayEnabled /\ ~failed THEN pc' = "commit" /\ UNCHANGED ret
         ELSE pc' = "returned" /\ ret' = IF failed THEN "error" ELSE "ok"
      /\ UNCHANGED <<delta, backing, written>>
    BY DEF FnOk, FnFails, ReturnTo, TypeOK
<1>4. OverlayTypeOK' /\ OnDisk'
    <2>1. CASE overlayEnabled
        <3>1. FnOk \/ FnFails
            BY <2>1
        <3> QED BY <1>2, <2>1, <3>1, FnInv DEF OnDisk, OverlayInv
    <2>2. CASE ~overlayEnabled
        <3>1. UNCHANGED <<k, path, present>>
            BY <2>2
        <3> QED BY <1>2, <1>3, <2>2, <3>1 DEF OnDisk, TypeOK, OverlayTypeOK
    <2> QED BY <2>1, <2>2
<1>5. TypeOK'
    BY <1>2, <1>4 DEF TypeOK
<1>6. Phases'
    BY <1>1, <1>2, <1>3 DEF Phases, TypeOK
<1>7. VMs' /\ Exits'
    BY <1>1, <1>2 DEF VMs, Booted, Exits
<1>8. EditsKept'
    BY <1>1, <1>2, <1>3 DEF EditsKept, Booted
<1> QED BY <1>4, <1>5, <1>6, <1>7, <1>8

\* RunWithOverlay creates or commits overlays, before and after the body.
LEMMA OverlayMoveInv == PipeInv /\ OverlayMove => PipeInv'
<1> SUFFICES ASSUME PipeInv, OverlayMove PROVE PipeInv'
    OBVIOUS
<1> USE DEF PipeInv, OverlayMove
<1>1. /\ run = "pipeline"
      /\ UNCHANGED <<run, result, overlayEnabled, stage, failed, json, listener, stageEnv,
                     boots, vms, mounted, cache, exited, vmDied>>
    BY DEF pipeVars
<1>2. /\ pc \in {"create", "commit"} /\ UNCHANGED <<fnRet, written>>
      /\ \/ pc' = pc /\ ret' = ret
         \/ pc = "create" /\ pc' = "fn" /\ ret' = ret
         \/ pc' = "returned" /\ (ret' = "ok" => pc = "commit")
    BY DEF OverlayStep, CreateOne, CreateFails, CreateDone, CommitSome, CommitOne,
           CommitFails, CommitDone, ReturnTo
<1>3. overlayEnabled
    BY <1>2 DEF OnDisk
<1>4. OverlayTypeOK' /\ OnDisk'
    BY <1>1, <1>3, CreateInv, CommitInv DEF OverlayStep, OnDisk, OverlayInv
<1>5. TypeOK'
    BY <1>1, <1>4 DEF TypeOK
<1>6. stage = "input" \/ (stage = "body" /\ ~failed)
    BY <1>2 DEF Phases
<1>7. Phases'
    BY <1>1, <1>2, <1>3, <1>6 DEF Phases
<1>8. vms = {}
    BY <1>2 DEF VMs
<1>9. VMs' /\ Exits'
    BY <1>1, <1>8 DEF VMs, Booted, Exits
<1>10. EditsKept'
    BY <1>1, <1>2, <1>6 DEF EditsKept, Booted
<1> QED BY <1>4, <1>5, <1>7, <1>9, <1>10

\* Run moves on, or the container is killed.
LEMMA RunInv ==
    PipeInv /\ (Copy \/ DiscoverDisks \/ PipelineReturned \/ WriteXML \/ KilledAll
                \/ UNCHANGED vars)
        => PipeInv'
<1> USE DEF PipeInv
<1>1. ASSUME PipeInv, Copy \/ DiscoverDisks \/ PipelineReturned \/ WriteXML
      PROVE  PipeInv'
    <2>1. /\ UNCHANGED <<ovVars, overlayEnabled>> /\ UNCHANGED pipeVars
          /\ vms = {}
        BY <1>1 DEF Copy, DiscoverDisks, PipelineReturned, WriteXML, VMs
    <2>2. OverlayTypeOK' /\ OnDisk'
        BY <1>1, <2>1, DisksAlone
    <2>3. TypeOK'
        BY <1>1, <2>1, <2>2 DEF Copy, DiscoverDisks, PipelineReturned, WriteXML, ReturnRun,
               TypeOK, pipeVars
    <2>4. Phases'
        BY <1>1, <2>1 DEF Copy, DiscoverDisks, PipelineReturned, WriteXML, ReturnRun,
               Phases, pipeVars, ovVars
    <2>5. VMs' /\ Exits' /\ EditsKept'
        BY <1>1, <2>1 DEF VMs, Booted, Exits, EditsKept, pipeVars, ovVars
    <2> QED BY <2>2, <2>3, <2>4, <2>5
<1>2. ASSUME PipeInv, KilledAll PROVE PipeInv'
    <2>1. OverlayTypeOK' /\ OnDisk'
        <3>1. overlayEnabled' = overlayEnabled /\ Killed
            BY <1>2 DEF KilledAll
        <3>2. CASE overlayEnabled
            BY <1>2, <3>1, <3>2, KilledInv DEF OnDisk, OverlayInv
        <3>3. CASE ~overlayEnabled
            BY <1>2, <3>1, <3>3 DEF OnDisk, TypeOK, OverlayTypeOK, Killed
        <3> QED BY <3>2, <3>3
    <2>2. TypeOK'
        BY <1>2, <2>1 DEF KilledAll, TypeOK
    <2>3. Phases'
        BY <1>2 DEF KilledAll, Killed, Phases
    <2>4. VMs' /\ Exits' /\ EditsKept'
        BY <1>2 DEF KilledAll, Killed, VMs, Booted, Exits, EditsKept
    <2> QED BY <2>1, <2>2, <2>3, <2>4
<1>3. ASSUME PipeInv, UNCHANGED vars PROVE PipeInv'
    <2>1. UNCHANGED <<ovVars, overlayEnabled, pipeVars, run, result>>
        BY <1>3 DEF vars
    <2>2. OverlayTypeOK' /\ OnDisk'
        BY <1>3, <2>1, DisksAlone
    <2>3. TypeOK'
        BY <1>3, <2>1, <2>2 DEF TypeOK, pipeVars
    <2>4. Phases'
        BY <1>3, <2>1 DEF Phases, pipeVars, ovVars
    <2>5. VMs' /\ Exits' /\ EditsKept'
        BY <1>3, <2>1 DEF VMs, Booted, Exits, EditsKept, pipeVars, ovVars
    <2> QED BY <2>2, <2>3, <2>4, <2>5
<1> QED BY <1>1, <1>2, <1>3

\* Every step of kc-v2v keeps the invariant.
LEMMA PipeStepInv == PipeInv /\ [Next]_vars => PipeInv'
BY PrepareInv, ListenerInv, ConvertInv, CloseInv, TeardownInv, VMInv, ReturnInv,
   OverlayMoveInv, RunInv
   DEF Next, BodyStep, RunStep, Done

\* The facts about Run, its stages, the VMs and the disks hold throughout
\* every run of kc-v2v.
THEOREM PipelineInvariant == Spec => []PipeInv
BY PipeInitInv, PipeStepInv, PTL DEF Spec

-----------------------------------------------------------------------------
\* The state of kc-v2v stays well formed; in particular the three places that
\* boot an appliance (setupSharedListener and the two calls of
\* ensureSharedListener) boot at most three VMs in a run.
THEOREM PipelineTypeCorrect == Spec => []TypeOK
BY PipelineInvariant, PTL DEF PipeInv

\* No appliance VM has an overlay open when RunWithOverlay commits it.
THEOREM CommitsWithoutWriters == Spec => []CommitWithoutWriters
<1>1. PipeInv => CommitWithoutWriters
    BY DEF PipeInv, VMs, CommitWithoutWriters
<1> QED BY <1>1, PipelineInvariant, PTL

\* Every stage process is started with the environment of the listener that
\* is current after any restart.
THEOREM CurrentListener == Spec => []StagesGetCurrentListener
<1>1. PipeInv => StagesGetCurrentListener
    BY DEF PipeInv, VMs, Booted, StagesGetCurrentListener
<1> QED BY <1>1, PipelineInvariant, PTL

\* With overlays no backing disk changes unless kc-prepare, the converter and
\* kc-finalize have all exited with status 0.
THEOREM OnlyConvertedGuests == Spec => []CommitOnlyConvertedGuests
<1>1. PipeInv => CommitOnlyConvertedGuests
    <2> SUFFICES ASSUME PipeInv, overlayEnabled, NEW d \in Disks, backing[d] # {}
                 PROVE  exited = Stages
        BY DEF CommitOnlyConvertedGuests
    <2>1. fnRet = "ok"
        BY DEF PipeInv, OnDisk, OverlayInv, Contents, Empty
    <2> QED BY <2>1 DEF PipeInv, Phases, Exits
<1> QED BY <1>1, PipelineInvariant, PTL

\* A run that succeeds without losing a VM has left the edits of the converter
\* and of the customizers on every disk.
THEOREM EditsOnDisks == Spec => []SuccessMeansEditsOnDisks
<1>1. PipeInv => SuccessMeansEditsOnDisks
    <2> SUFFICES ASSUME PipeInv, result = "ok", ~vmDied, NEW d \in Disks
                 PROVE  {"convert", "finalize"} \subseteq backing[d]
        BY DEF SuccessMeansEditsOnDisks
    <2>1. ret = "ok" /\ stage = "body" /\ ~failed
        BY DEF PipeInv, Phases
    <2>2. backing = written
        BY <2>1 DEF PipeInv, OnDisk, OverlayInv, Contents
    <2> QED BY <2>1, <2>2 DEF PipeInv, EditsKept
<1> QED BY <1>1, PipelineInvariant, PTL

\* When Run has returned, on whichever path, no VM is running and no overlay
\* file is left.
THEOREM NothingOrphaned == Spec => []NoOrphans
<1>1. PipeInv => NoOrphans
    <2> SUFFICES ASSUME PipeInv, run = "returned" PROVE vms = {} /\ present = {}
        BY DEF NoOrphans
    <2>1. vms = {}
        BY DEF PipeInv, VMs
    <2>2. CASE ~overlayEnabled
        BY <2>1, <2>2 DEF PipeInv, OnDisk
    <2>3. CASE overlayEnabled /\ pc = "returned"
        BY <2>1, <2>3 DEF PipeInv, OnDisk, OverlayInv, Positions
    <2>4. CASE overlayEnabled /\ pc # "returned"
        BY <2>1, <2>4 DEF PipeInv, Phases, OnDisk, OverlayInv, Positions
    <2> QED BY <2>1, <2>2, <2>3, <2>4
<1> QED BY <1>1, PipelineInvariant, PTL

-----------------------------------------------------------------------------
(* The refinement of RunWithOverlay's promise.                             *)

\* With overlays, a step of RunWithOverlay on the pipeline's state is a step of
\* the specification it is mapped to.
LEMMA OverlayNextMapped ==
    ASSUME overlayEnabled = TRUE, overlayEnabled' = TRUE, OverlayNext
    PROVE  RunWithOverlay!OverlayNext
<1> USE DEF Called, RunWithOverlay!Disks, Disks
<1>1. CASE OverlayStep
    BY <1>1 DEF OverlayStep, CreateOne, CreateFails, CreateDone, CommitSome, CommitOne,
           CommitFails, CommitDone, ReturnTo, DiscardOverlays,
           RunWithOverlay!OverlayNext, RunWithOverlay!OverlayStep,
           RunWithOverlay!CreateOne, RunWithOverlay!CreateFails,
           RunWithOverlay!CreateDone, RunWithOverlay!CommitSome,
           RunWithOverlay!CommitOne, RunWithOverlay!CommitFails,
           RunWithOverlay!CommitDone, RunWithOverlay!ReturnTo,
           RunWithOverlay!DiscardOverlays
<1>2. CASE FnOk \/ FnFails
    BY <1>2 DEF FnOk, FnFails, ReturnTo, DiscardOverlays, RunWithOverlay!OverlayNext,
           RunWithOverlay!FnOk, RunWithOverlay!FnFails, RunWithOverlay!ReturnTo,
           RunWithOverlay!DiscardOverlays
<1>3. CASE Killed \/ Ended
    BY <1>3 DEF Killed, Ended, ovVars, RunWithOverlay!OverlayNext,
           RunWithOverlay!Killed, RunWithOverlay!Ended, RunWithOverlay!ovVars
<1>4. ASSUME NEW S \in SUBSET Disks, NEW E \in SUBSET Edits, FnWrite(S, E)
      PROVE  RunWithOverlay!OverlayNext
    BY <1>4 DEF FnWrite, WriteDisks, RunWithOverlay!OverlayNext,
           RunWithOverlay!FnWrite, RunWithOverlay!WriteDisks
<1> QED BY <1>1, <1>2, <1>3, <1>4 DEF OverlayNext

\* With overlays, every step of kc-v2v is a step of RunWithOverlay or leaves
\* its state alone.
LEMMA StepIsOverlayStep ==
    ASSUME PipeInv, [Next]_vars, overlayEnabled
    PROVE  [OverlayNext]_ovVars
<1> SUFFICES ASSUME ~UNCHANGED ovVars PROVE OverlayNext
    OBVIOUS
<1>1. CASE FinalizeTeardown \/ Cleanup
    <2>1. /\ pc = "fn" /\ stageEnv \in Boots
          /\ UNCHANGED <<pc, k, path, present, ret, fnRet>>
        BY <1>1 DEF FinalizeTeardown, Cleanup, Step, InBody, PipeInv, VMs, Booted
    <2>2. Flush(stageEnv)
        BY <1>1, <2>1 DEF FinalizeTeardown, Cleanup, TeardownGuest, ovVars
    <2>3. cache[stageEnv] \in SUBSET Edits
        BY <2>1 DEF PipeInv, TypeOK
    <2>4. FnWrite(Disks, cache[stageEnv])
        BY <2>1, <2>2 DEF FnWrite, Flush
    <2> QED BY <2>3, <2>4 DEF OverlayNext
<1>2. ASSUME NEW i \in Boots, Writeback(i) PROVE OverlayNext
    <2>1. cache[i] \in SUBSET Edits /\ pc = "fn"
        BY <1>2 DEF PipeInv, TypeOK, VMs, Writeback
    <2>2. FnWrite(Disks, cache[i])
        BY <1>2, <2>1 DEF FnWrite, Writeback, Flush
    <2> QED BY <2>1, <2>2 DEF OverlayNext
<1>3. CASE BodyReturns
    BY <1>3 DEF BodyReturns, FnReturns, OverlayNext
<1>4. CASE OverlayMove
    BY <1>4 DEF OverlayMove, OverlayNext
<1>5. CASE KilledAll
    BY <1>5 DEF KilledAll, OverlayNext
<1>6. ~(Copy \/ DiscoverDisks \/ PipelineReturned \/ WriteXML \/ Done \/ UNCHANGED vars)
    BY DEF Copy, DiscoverDisks, PipelineReturned, WriteXML, Done, vars
<1>7. ~(\E i \in Boots : VMDies(i))
    BY DEF VMDies
<1>8. ~(BuildInput \/ SetupSharedListener \/ PrepareOk \/ PrepareFails
        \/ AfterPrepare \/ ConvertAttach \/ Convert \/ AfterConvert
        \/ FinalizeAttach \/ Customize \/ FinalizeExits \/ CloseListener)
    BY DEF BuildInput, SetupSharedListener, PrepareOk, PrepareFails, AfterPrepare,
           AfterConvert, EnsureSharedListener, ConvertAttach, FinalizeAttach, Attach,
           Convert, Customize, FinalizeExits, CloseListener
<1> QED BY <1>1, <1>2, <1>3, <1>4, <1>5, <1>6, <1>7, <1>8 DEF Next, BodyStep, RunStep

\* Whether there are overlays is decided before Run and never changes.
LEMMA OverlayEnabledConstant == [Next]_vars => overlayEnabled' = overlayEnabled
BY DEF Next, BodyStep, RunStep, BuildInput, SetupSharedListener, PrepareOk, PrepareFails,
       AfterPrepare, AfterConvert, EnsureSharedListener, ConvertAttach, FinalizeAttach,
       Attach, Convert, Customize, FinalizeTeardown, FinalizeExits, Cleanup,
       CloseListener, BodyReturns, FnReturns, Copy, DiscoverDisks, OverlayMove,
       PipelineReturned, WriteXML, KilledAll, Done, VMDies, Writeback, vars

\* With overlays kc-v2v uses RunWithOverlay as its specification allows: what
\* the stages and their VMs do to the disks, whenever VMs die and stages fail,
\* is what a function inside RunWithOverlay may do, and nothing is written
\* once that function has returned.  Without overlays it is not called.
THEOREM PipelineImplementsOverlay == Spec => ImplementsOverlay
<1>1. Init => RunWithOverlay!OverlayInit
    <2> SUFFICES ASSUME Init PROVE RunWithOverlay!OverlayInit
        OBVIOUS
    <2> USE DEF RunWithOverlay!OverlayInit, Called, RunWithOverlay!Disks,
                RunWithOverlay!Empty, Disks, Empty
    <2>1. CASE overlayEnabled
        BY <2>1 DEF Init, OverlayInit
    <2>2. CASE ~overlayEnabled
        BY <2>2
    <2> QED BY <2>1, <2>2
<1>2. PipeInv /\ [Next]_vars =>
        [RunWithOverlay!OverlayNext]_(RunWithOverlay!ovVars)
    <2> SUFFICES ASSUME PipeInv, [Next]_vars
                 PROVE  [RunWithOverlay!OverlayNext]_(RunWithOverlay!ovVars)
        OBVIOUS
    <2>1. overlayEnabled' = overlayEnabled /\ overlayEnabled \in BOOLEAN
        BY OverlayEnabledConstant DEF PipeInv, TypeOK
    <2>2. CASE overlayEnabled
        <3>1. CASE OverlayNext
            BY <2>1, <2>2, <3>1, OverlayNextMapped
        <3>2. CASE UNCHANGED ovVars
            BY <2>1, <2>2, <3>2 DEF RunWithOverlay!ovVars, ovVars, Called
        <3> QED BY <2>2, <3>1, <3>2, StepIsOverlayStep
    <2>3. CASE ~overlayEnabled
        BY <2>1, <2>3 DEF RunWithOverlay!ovVars, Called, Empty, Disks
    <2> QED BY <2>2, <2>3
<1> QED
    BY <1>1, <1>2, PipelineInvariant, PTL
       DEF Spec, ImplementsOverlay, RunWithOverlay!OverlaySpec
=============================================================================
