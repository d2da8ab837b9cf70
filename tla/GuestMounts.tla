---------------------------- MODULE GuestMounts ----------------------------
(***************************************************************************)
(* Disks, mapper devices and mounts of a guest under the direct and the    *)
(* qemu backend, over the stages kc-prepare, kc-convert-*, kc-finalize and *)
(* the clean-up kc-finalize --teardown-only.                               *)
(*                                                                         *)
(* mnt, open and loop are the kernel's side: of the host for the direct    *)
(* backend, of the appliance for qemu.  be is what the Backend value of    *)
(* the running stage has recorded; a new stage starts with what            *)
(* pipeline.json hands over.  One action is one command (mount, umount,    *)
(* cryptsetup, vgchange, losetup), and every command may fail.             *)
(***************************************************************************)
EXTENDS Naturals, Sequences, FiniteSets, FiniteSetsExt, SequencesExt, MountTable

CONSTANTS
  DataPartitions,  \* the partitions beside p2, which holds the guest's system
  Fstabs,          \* the fstabs of Linux guests: what DeviceEntries and Resolve leave
  MaxFaults,       \* bound: kinds of commands that fail without a cause
  MaxMounts        \* bound: mounts under which a command may still be run

\* Partitions, and what unlocking and activating can add
Partitions == DataPartitions \cup {"p2"}
Volumes == {"mapper", "lv", "ldm"}

\* What holds the guest's system on p2
WindowsLayouts == {"ldm", "bitlk", "spaces"}
Layouts == {"plain", "luks", "lvm", "lvm_on_luks", "luks_on_lvm"} \cup WindowsLayouts

\* A data partition has a name of its own; an fstab is a sequence of entries for
\* data partitions and for the root device.
ASSUME GuestsAssumption ==
  /\ MaxFaults \in Nat /\ MaxMounts \in Nat
  /\ IsFiniteSet(DataPartitions)
  /\ DataPartitions \cap ({"p2", "virtual", "root", "disk", ""} \cup Volumes) = {}
  /\ \A f \in Fstabs : f \in Seq([dev : DataPartitions \cup {"root"}, at : Paths])

Probe == "scan"        \* a probe mount, outside the guest's tree
\* p is a directory on the way to q
Above(p, q) == <<p, q>> \in Under \/ <<p, q>> = <<"/", "/proc">>

Commands == {"losetup", "vgchange", "luksOpen", "luksClose", "mount", "umount", "attach"}

VARIABLES
  kind,      \* the backend, "direct" or "qemu"
  shared,    \* qemu: the stages adopt the appliance of kc-v2v
  layout,
  fstab,     \* Linux: the entries of /etc/fstab; Windows: the ESP, if there is one
  mnt,       \* the kernel's mount table, oldest first
  open,      \* mapper devices and logical volumes that exist
  loop,      \* the image: "none", "attached", or "lazy" (detached when unused)
  be,        \* the Backend of the running stage
  infos,     \* DiskInfo.Partitions: device -> mount point, "" for none
  json,      \* pipeline.json has a prepare section
  root,      \* RootDevice
  stage, pc,
  ok,        \* the stage succeeded
  todo,      \* what the loop under way has still to do
  failed     \* the kinds of commands that failed without a cause

vars == <<kind, shared, layout, fstab, mnt, open, loop, be, infos, json, root, stage, pc, ok, todo, failed>>
guest == <<kind, shared, layout, fstab>>
kernel == <<mnt, open, loop>>
record == <<infos, json, root>>

-----------------------------------------------------------------------------
(* The kernel's side *)

\* the device d is on, "p2" being on the disk
On(d) ==
  CASE d = "mapper" -> IF layout = "luks_on_lvm" THEN "lv" ELSE "p2"
    [] d = "lv" -> IF layout = "lvm_on_luks" THEN "mapper" ELSE "p2"
    [] d = "ldm" -> "p2"
    [] OTHER -> "disk"

System ==
  CASE layout \in {"plain", "spaces"} -> "p2"
    [] layout \in {"luks", "luks_on_lvm", "bitlk"} -> "mapper"
    [] layout \in {"lvm", "lvm_on_luks"} -> "lv"
    [] layout = "ldm" -> "ldm"

Exists(d, O) == d \in Partitions \cup O
Mounted(d) == \E i \in DOMAIN mnt : mnt[i].dev = d
InUse(d, M, O) == (\E i \in DOMAIN M : M[i].dev = d) \/ \E e \in O : On(e) = d
Busy(p) == \E i \in DOMAIN mnt : Above(p, mnt[i].at)

\* The planners: beside "/", findESP's partition, or the entries of the fstab but
\* those for a mount point that was seen and those for the root device.
WindowsPlanner == {<< >>} \cup {<< Entry(d, "/boot/efi") >> : d \in DataPartitions}
LinuxPlanner ==
  {fstab[i] : i \in {j \in DOMAIN fstab :
                       /\ fstab[j].at # "/" /\ fstab[j].dev # "root"
                       /\ \A k \in 1..(j - 1) : fstab[k].at # fstab[j].at}}
Planned == IF layout \in WindowsLayouts THEN Range(fstab) ELSE LinuxPlanner

\* A loop device that was asked to go goes with its last user.
Loop(l, M, O) == IF l = "lazy" /\ ~\E d \in Partitions : InUse(d, M, O) THEN "none" ELSE l

Fails(c) == c \in failed \/ Cardinality(failed) < MaxFaults
Fault(c) == Fails(c) /\ failed' = failed \cup {c}

\* The mounts umount finds for t; it takes off the last.  Every probe of the
\* direct backend has a directory of its own.
At(t) == {i \in DOMAIN mnt : mnt[i].at = t.at /\ (kind = "direct" /\ t.at = Probe => mnt[i].dev = t.dev)}
CanUmount(t) == At(t) # {} /\ ~Busy(t.at)

New == [mounts |-> <<>>, probes |-> <<>>, maps |-> FALSE, ldm |-> FALSE, disk |-> FALSE]

Init ==
  /\ kind \in {"direct", "qemu"}
  /\ shared \in (IF kind = "qemu" THEN BOOLEAN ELSE {FALSE})
  /\ layout \in Layouts /\ fstab \in (IF layout \in WindowsLayouts THEN WindowsPlanner ELSE Fstabs)
  /\ mnt = <<>> /\ open = {} /\ loop = "none"
  /\ be = New /\ infos = [d \in Partitions |-> ""] /\ json = FALSE /\ root = ""
  /\ stage = "prepare" /\ pc = "setup" /\ ok = TRUE /\ todo = <<>> /\ failed = {}

-----------------------------------------------------------------------------
(* kc-prepare: open the disks, unlock, check, discover, mount *)

\* FirstUnsupported
Unsupported == IF kind = "qemu" THEN layout = "spaces" ELSE layout \in {"ldm", "bitlk", "spaces"}

\* vgchange -ay makes the volumes of the groups it can see
Activated(O) ==
  IF layout \in {"lvm", "luks_on_lvm"} \/ (layout = "lvm_on_luks" /\ "mapper" \in O)
  THEN O \cup {"lv"} ELSE O

\* activateLDM
Assembled(O) == IF kind = "qemu" /\ layout = "ldm" THEN O \cup {"ldm"} ELSE O

\* Setup.  Its LVM errors are warnings; on any other one the backend is torn
\* down (direct by itself, then both by Open).
SetupDisks ==
  /\ pc = "setup" /\ ~Unsupported
  /\ loop' = IF kind = "direct" THEN "attached" ELSE loop
  /\ \/ open' = Activated(Assembled(open)) /\ UNCHANGED failed
     \/ open' = Assembled(open) /\ Fault("vgchange")
  /\ be' = [be EXCEPT !.disk = kind = "direct", !.ldm = "ldm" \in open']
  /\ pc' = "unlock"
  /\ UNCHANGED <<guest, mnt, record, stage, ok, todo>>

SetupFails ==
  /\ pc = "setup"
  /\ \/ /\ Unsupported /\ UNCHANGED failed
        /\ loop' = IF kind = "direct" THEN "attached" ELSE loop
        /\ open' = IF kind = "direct" THEN Activated(open) ELSE open
        /\ be' = [be EXCEPT !.disk = kind = "direct"]
     \/ Fault("losetup") /\ UNCHANGED <<loop, open, be>>
  /\ pc' = "teardown" /\ ok' = FALSE
  /\ UNCHANGED <<guest, mnt, record, stage, todo>>

\* decryptDisks and decryptBitLocker: a volume that stays locked is no error.
UnlockWith(layouts) ==
  /\ pc = "unlock" /\ layout \in layouts /\ Exists(On("mapper"), open)
  /\ \/ /\ open' = open \cup {"mapper"} /\ be' = [be EXCEPT !.maps = TRUE]
        /\ pc' = "rescan" /\ UNCHANGED failed
     \/ Fault("luksOpen") /\ pc' = "precheck" /\ UNCHANGED <<open, be>>
  /\ UNCHANGED <<guest, mnt, loop, record, stage, ok, todo>>

Decrypt == UnlockWith({"luks", "lvm_on_luks", "luks_on_lvm"})
UnlockClevis == UnlockWith({"luks", "lvm_on_luks", "luks_on_lvm"})
DecryptBitLocker == UnlockWith({"bitlk"})

NoKeys ==
  /\ pc = "unlock" /\ pc' = "precheck"
  /\ UNCHANGED <<guest, kernel, be, record, stage, ok, todo, failed>>

RescanBlock ==
  /\ pc = "rescan" /\ pc' = "precheck"
  /\ \/ open' = Activated(open) /\ UNCHANGED failed
     \/ Fault("vgchange") /\ UNCHANGED open
  /\ UNCHANGED <<guest, mnt, loop, be, record, stage, ok, todo>>

\* The devices with a filesystem of their own that the disk infos name
Checked == {d \in DOMAIN infos : d \in DataPartitions \cup {System}}

\* FSCheck of every partition, before anything is mounted in prepare and
\* after everything is unmounted in finalize; its result is a warning.
FSCheck ==
  \/ /\ pc = "precheck" /\ pc' = "discover"
     /\ todo' = SetToSeq({Entry(d, Probe) : d \in {e \in DataPartitions \cup {System} : Exists(e, open)}})
     /\ UNCHANGED <<guest, kernel, be, record, stage, ok, failed>>
  \/ /\ pc = "postcheck" /\ pc' = "close"
     /\ UNCHANGED <<guest, kernel, be, record, stage, ok, todo, failed>>

\* Discover: every candidate is mounted read-only and looked at.
ProbeMount ==
  /\ pc = "discover" /\ todo # <<>>
  /\ \/ /\ mnt' = Append(mnt, Head(todo)) /\ pc' = "probed"
        /\ be' = IF kind = "direct" THEN [be EXCEPT !.probes = Append(@, Head(todo))] ELSE be
        /\ UNCHANGED <<todo, failed>>
     \/ Fault("mount") /\ todo' = Tail(todo) /\ UNCHANGED <<mnt, be, pc>>
  /\ UNCHANGED <<guest, open, loop, record, stage, ok>>

ProbeUnmount ==
  /\ pc = "probed" /\ pc' = "discover"
  /\ \/ mnt' = RemoveAt(mnt, Max(At(Head(todo)))) /\ UNCHANGED failed
     \/ Fault("umount") /\ UNCHANGED mnt
  /\ root' = IF Head(todo).dev = System THEN System ELSE root
  /\ todo' = Tail(todo)
  /\ UNCHANGED <<guest, open, loop, be, infos, json, stage, ok>>

\* Discover and Select: no root is an error; so are several when the policy is
\* "single", and then pipeline.json is written all the same.
Select ==
  /\ pc = "discover" /\ todo = <<>>
  /\ \/ /\ root # "" /\ pc' = "mount" /\ todo' = <<Entry(root, "/")>>
        /\ UNCHANGED <<json, root, ok>>
     \/ /\ pc' = "release" /\ ok' = FALSE /\ root' = "" /\ todo' = Reverse(be.probes)
        /\ json' \in {FALSE, root # ""}
  /\ UNCHANGED <<guest, kernel, be, infos, stage, failed>>

\* Apply, with the backend's Mount: the root first, then what its fstab says.
\* remountFromDiskInfos uses the same Mount in a fresh appliance.
Mount ==
  /\ pc \in {"mount", "remount"} /\ todo # <<>> /\ Exists(Head(todo).dev, open)
  /\ mnt' = Append(mnt, Head(todo))
  /\ be' = [be EXCEPT !.mounts = Append(@, Head(todo))]
  /\ IF pc = "mount"
     THEN /\ infos' = UpdateMountPoint(infos, Head(todo).dev, Head(todo).at)
          /\ IF Head(todo).at = "/" THEN todo' \in SortSpecs(Planned) ELSE todo' = Tail(todo)
     ELSE todo' = Tail(todo) /\ UNCHANGED infos
  /\ UNCHANGED <<guest, open, loop, json, root, stage, pc, ok, failed>>

\* As if a mount that fails in a fresh appliance were skipped.
MountFails_Skips ==
  /\ pc \in {"mount", "remount"} /\ todo # <<>>
  /\ \/ ~Exists(Head(todo).dev, open) /\ UNCHANGED failed
     \/ Exists(Head(todo).dev, open) /\ Fault("mount")
  /\ IF pc = "mount" THEN pc' = "release" /\ ok' = FALSE /\ todo' = Reverse(be.probes)
                     ELSE todo' = Tail(todo) /\ UNCHANGED <<pc, ok>>
  /\ UNCHANGED <<guest, kernel, be, record, stage>>

MountFails ==
  /\ pc \in {"mount", "remount"} /\ todo # <<>>
  /\ \/ ~Exists(Head(todo).dev, open) /\ UNCHANGED failed
     \/ Exists(Head(todo).dev, open) /\ Fault("mount")
  /\ ok' = FALSE
  /\ IF pc = "mount" THEN pc' = "release" /\ todo' = Reverse(be.probes)
                     ELSE pc' = "exit" /\ todo' = <<>>
  /\ UNCHANGED <<guest, kernel, be, record, stage>>

\* The rest of prepare reads the mounted guest and writes pipeline.json.
Prepared ==
  /\ pc = "mount" /\ todo = <<>>
  /\ json' \in BOOLEAN /\ ok' = json'
  /\ pc' = "release" /\ todo' = Reverse(be.probes)
  /\ UNCHANGED <<guest, kernel, be, infos, root, stage, failed>>

\* The deferred Release: the direct backend tries its probes' mounts again,
\* qemu closes the session, and a VM of its own with it.
Release ==
  /\ pc = "release" /\ kind = "qemu" /\ pc' = "exit"
  /\ IF shared THEN UNCHANGED kernel ELSE mnt' = <<>> /\ open' = {} /\ UNCHANGED loop
  /\ UNCHANGED <<guest, be, record, stage, ok, todo, failed>>

-----------------------------------------------------------------------------
(* From stage to stage *)

\* A failed stage is followed by kc-finalize --teardown-only.
NextStage ==
  /\ pc = "exit"
  /\ be' = New /\ todo' = <<>>
  /\ IF ok
     THEN stage' = (IF stage = "prepare" THEN "convert" ELSE "finalize") /\ pc' = "attach"
     ELSE IF stage = "cleanup" THEN stage' = stage /\ pc' = "mountroot"
     ELSE stage' = "cleanup" /\ pc' = IF json THEN "attach" ELSE "mountroot"
  /\ ok' = TRUE
  /\ UNCHANGED <<guest, kernel, record, failed>>

Ready == IF stage = "cleanup" THEN "teardown" ELSE "work"

\* NewMounted: the direct backend has the mounts on the host, a shared
\* appliance has them too, and a fresh one must mount them again.
Attach ==
  /\ pc = "attach"
  /\ \/ /\ kind = "direct" /\ be' = [be EXCEPT !.disk = TRUE]
        /\ pc' = Ready /\ UNCHANGED <<kernel, todo>>
     \/ /\ shared /\ \E plan \in Plans(WithRootMount(infos, root)) : be' = [be EXCEPT !.mounts = plan]
        /\ pc' = Ready /\ UNCHANGED <<kernel, todo>>
     \/ /\ kind = "qemu" /\ ~shared
        /\ mnt' = <<>> /\ open' = Assembled({}) /\ UNCHANGED loop
        /\ be' = [be EXCEPT !.ldm = "ldm" \in open']
        /\ pc' = "remount" /\ todo' \in Plans(WithRootMount(infos, root))
  /\ UNCHANGED <<guest, record, stage, ok, failed>>

AttachFails ==
  /\ pc = "attach" /\ kind = "qemu" /\ Fault("attach")
  /\ pc' = "exit" /\ ok' = FALSE
  /\ UNCHANGED <<guest, kernel, be, record, stage, todo>>

Remounted ==
  /\ pc = "remount" /\ todo = <<>> /\ pc' = Ready
  /\ UNCHANGED <<guest, kernel, be, record, stage, ok, todo, failed>>

\* RunCommand of the qemu backend: the virtual filesystems come and go with
\* every command, and neither is checked.
MountVirtualFS ==
  /\ pc = "work" /\ kind = "qemu" /\ Len(mnt) < MaxMounts /\ pc' = "chroot"
  /\ \/ mnt' = Append(mnt, Entry("virtual", "/proc")) /\ UNCHANGED failed
     \/ Fault("mount") /\ UNCHANGED mnt
  /\ UNCHANGED <<guest, open, loop, be, record, stage, ok, todo>>

UnmountVirtualFS ==
  /\ pc = "chroot" /\ pc' = "work"
  /\ LET t == Entry("virtual", "/proc")
     IN IF At(t) # {}
        THEN \/ mnt' = RemoveAt(mnt, Max(At(t))) /\ UNCHANGED failed
             \/ Fault("umount") /\ UNCHANGED mnt
        ELSE UNCHANGED <<mnt, failed>>
  /\ UNCHANGED <<guest, open, loop, be, record, stage, ok, todo>>

\* A converter just exits; its session is not closed.
Converted ==
  /\ pc = "work" /\ stage = "convert"
  /\ pc' = "exit" /\ ok' \in BOOLEAN
  /\ UNCHANGED <<guest, kernel, be, record, stage, todo, failed>>

-----------------------------------------------------------------------------
(* UnmountFilesystems, ReleaseDevices *)

\* Which mounts go, and in which order.  qemu looks them up in the disk infos
\* when it adopted the appliance and has none.
Recorded ==
  IF be.mounts = <<>> /\ shared THEN Plans(WithRootMount(infos, root)) ELSE {be.mounts}

\* As if the mounts were taken off in the order they were made.
ToUmount_Forward(recorded) ==
  IF kind = "direct" THEN be.probes \o be.mounts
  ELSE <<Entry("virtual", "/proc")>> \o recorded

ToUmount(recorded) ==
  IF kind = "direct" THEN Reverse(be.probes) \o Reverse(be.mounts)
  ELSE <<Entry("virtual", "/proc")>> \o Reverse(recorded)

\* The direct backend forgets its mounts at once.
UnmountFilesystems ==
  /\ pc = "teardown" \/ (pc = "work" /\ stage = "finalize")
  /\ pc' = "umount"
  /\ \E recorded \in Recorded :
       /\ todo' = ToUmount(recorded)
       /\ be' = IF kind = "direct" THEN [be EXCEPT !.mounts = <<>>, !.probes = <<>>]
                ELSE [be EXCEPT !.mounts = recorded]
  /\ UNCHANGED <<guest, kernel, record, stage, ok, failed>>

\* s without its last entry t
Without(s, t) == IF t \in Range(s) THEN RemoveAt(s, Max({i \in DOMAIN s : s[i] = t})) ELSE s

\* As if qemu's UnmountAll forgot every mount, also one that it could not unmount.
Umount_Forgets ==
  /\ pc \in {"umount", "sweep", "release"} /\ todo # <<>>
  /\ be' = [be EXCEPT !.mounts = Without(@, Head(todo))]
  /\ \/ /\ CanUmount(Head(todo)) /\ UNCHANGED failed
        /\ mnt' = RemoveAt(mnt, Max(At(Head(todo)))) /\ loop' = Loop(loop, mnt', open)
     \/ ~CanUmount(Head(todo)) /\ UNCHANGED <<mnt, loop, failed>>
     \/ CanUmount(Head(todo)) /\ Fault("umount") /\ UNCHANGED <<mnt, loop>>
  /\ todo' = Tail(todo)
  /\ UNCHANGED <<guest, open, record, stage, pc, ok>>

\* One umount of a loop that goes on whatever it answers; qemu keeps the entry
\* of a mount that is still there.
Umount ==
  /\ pc \in {"umount", "sweep", "release"} /\ todo # <<>>
  /\ \/ /\ CanUmount(Head(todo)) /\ UNCHANGED failed
        /\ mnt' = RemoveAt(mnt, Max(At(Head(todo)))) /\ loop' = Loop(loop, mnt', open)
        /\ be' = [be EXCEPT !.mounts = Without(@, Head(todo))]
     \/ ~CanUmount(Head(todo)) /\ UNCHANGED <<mnt, loop, be, failed>>
     \/ CanUmount(Head(todo)) /\ Fault("umount") /\ UNCHANGED <<mnt, loop, be>>
  /\ todo' = Tail(todo)
  /\ UNCHANGED <<guest, open, record, stage, pc, ok>>

\* unmountUnder: what /proc/mounts still has under the mount root, deepest first
Swept == {Reverse(s) : s \in OrdersBy(Depth, {e \in Range(mnt) : e.at # Probe})}

UmountDone ==
  /\ pc \in {"umount", "sweep", "release"} /\ todo = <<>>
  /\ pc = "release" => kind = "direct"
  /\ IF pc = "umount" /\ kind = "direct" THEN pc' = "sweep" /\ todo' \in Swept
     ELSE /\ UNCHANGED todo
          /\ pc' = IF pc = "release" THEN "exit" ELSE IF stage = "finalize" THEN "postcheck" ELSE "close"
  /\ UNCHANGED <<guest, kernel, be, record, stage, ok, failed>>

\* TeardownMountRoot: without pipeline.json only the mount root is known.
TeardownMountRoot ==
  /\ pc = "mountroot"
  /\ IF kind = "direct" THEN pc' = "sweep" /\ todo' \in Swept ELSE pc' = "over" /\ UNCHANGED todo
  /\ UNCHANGED <<guest, kernel, be, record, stage, ok, failed>>

\* As if the direct backend, too, closed only the mappers this process opened.
CloseCrypt_OwnMaps ==
  /\ pc = "close" /\ pc' = "deactivate"
  /\ IF "mapper" \in open /\ ~InUse("mapper", mnt, open) /\ be.maps
     THEN open' = open \ {"mapper"} /\ loop' = Loop(loop, mnt, open')
     ELSE UNCHANGED <<open, loop>>
  /\ be' = [be EXCEPT !.maps = FALSE]
  /\ UNCHANGED <<guest, mnt, record, stage, ok, todo, failed>>

\* CloseCrypt: the direct backend tries every mapper of the host, qemu those
\* this process opened.
CloseCrypt ==
  /\ pc = "close" /\ pc' = "deactivate"
  /\ LET can == "mapper" \in open /\ ~InUse("mapper", mnt, open) /\ (kind = "direct" \/ be.maps)
     IN \/ can /\ open' = open \ {"mapper"} /\ loop' = Loop(loop, mnt, open') /\ UNCHANGED failed
        \/ can /\ Fault("luksClose") /\ UNCHANGED <<open, loop>>
        \/ ~can /\ UNCHANGED <<open, loop, failed>>
  /\ be' = [be EXCEPT !.maps = FALSE]
  /\ UNCHANGED <<guest, mnt, record, stage, ok, todo>>

\* ldmtool remove all, if this process assembled them; then vgchange -an
Deactivate ==
  /\ pc = "deactivate" /\ pc' = "detach"
  /\ \/ /\ open' = open \ {v \in {"lv", "ldm"} : ~InUse(v, mnt, open) /\ (v = "ldm" => be.ldm)}
        /\ loop' = Loop(loop, mnt, open') /\ UNCHANGED failed
     \/ Fault("vgchange") /\ UNCHANGED <<open, loop>>
  /\ be' = [be EXCEPT !.ldm = FALSE]
  /\ UNCHANGED <<guest, mnt, record, stage, ok, todo>>

\* losetup -d for the disks the Backend knows; closing the session.  finalize
\* then writes its metadata, which can fail.
Detach ==
  /\ pc = "detach"
  /\ \/ kind = "direct" /\ loop' = (IF be.disk THEN Loop("lazy", mnt, open) ELSE loop) /\ UNCHANGED <<mnt, open, failed>>
     \/ kind = "direct" /\ be.disk /\ Fault("losetup") /\ UNCHANGED kernel
     \/ kind = "qemu" /\ shared /\ UNCHANGED <<kernel, failed>>
     \/ kind = "qemu" /\ ~shared /\ mnt' = <<>> /\ open' = {} /\ UNCHANGED <<loop, failed>>
  /\ \/ stage = "finalize" /\ pc' = "over" /\ UNCHANGED ok
     \/ stage = "finalize" /\ pc' = "exit" /\ ok' = FALSE
     \/ stage = "prepare" /\ pc' = "exit" /\ UNCHANGED ok
     \/ stage = "cleanup" /\ pc' = "over" /\ UNCHANGED ok
  /\ be' = New
  /\ UNCHANGED <<guest, record, stage, todo>>

Terminating == pc = "over" /\ UNCHANGED vars

Next ==
  \/ SetupDisks \/ SetupFails \/ Decrypt \/ UnlockClevis \/ DecryptBitLocker \/ NoKeys \/ RescanBlock
  \/ FSCheck \/ ProbeMount \/ ProbeUnmount \/ Select \/ Mount \/ MountFails \/ Prepared \/ Release
  \/ NextStage \/ Attach \/ AttachFails \/ Remounted \/ MountVirtualFS \/ UnmountVirtualFS \/ Converted
  \/ UnmountFilesystems \/ Umount \/ UmountDone \/ TeardownMountRoot
  \/ CloseCrypt \/ Deactivate \/ Detach \/ Terminating

Spec == Init /\ [][Next]_vars

-----------------------------------------------------------------------------
(* Correctness *)

TwiceMounted == \E e, f \in Planned : e # f /\ e.dev = f.dev
GuestMounted == {e \in Range(mnt) : e.at # Probe /\ e.dev # "virtual"}
PreparedTable == {Entry(System, "/")} \cup Planned

\* A converter and finalize work on exactly the filesystems prepare mounted,
\* whether they found them mounted or mounted them again (NewMounted,
\* WithRootMount, remountFromDiskInfos); a guest they cannot see whole is an
\* error.  Except for a device the fstab mounts twice: the disk infos keep one
\* of its mount points, and a fresh appliance mounts that one.
AttachedSeesPreparedTable ==
  pc \in {"work", "chroot"} /\ ~(TwiceMounted /\ kind = "qemu" /\ ~shared) => GuestMounted = PreparedTable

\* Filesystems are checked while they are not mounted and, in finalize, while
\* their mapper devices still exist (finalize Run, UnmountFilesystems before
\* FSCheck before ReleaseDevices) - unless an umount failed, or the stage
\* adopted the mounts of a device that is mounted twice.
CheckedUnmounted ==
  /\ pc \in {"precheck", "postcheck"} /\ "umount" \notin failed /\ ~(TwiceMounted /\ shared)
       => \A d \in Checked : ~Mounted(d)
  /\ pc = "postcheck" => \A d \in Checked : d = System => Exists(d, open)

\* The qemu backend never forgets a mount that is still there, whichever
\* umounts fail, so that a later teardown finds it (UnmountAll,
\* recordAdoptedMounts) - except a device the fstab mounts twice, of which a
\* stage that adopts the appliance is told one mount point.
MountsStayRecorded ==
  kind = "qemu" /\ pc \in {"mount", "remount", "work", "chroot", "umount", "postcheck", "close"}
    /\ ~(TwiceMounted /\ shared /\ stage # "prepare")
    => GuestMounted \subseteq Range(be.mounts)

\* When no command failed, a run that handed its disks over in pipeline.json
\* ends with nothing mounted, and on the host with no mapper, volume or loop
\* device - except a LUKS container whose volume group is still active when
\* it is to be closed.
NothingLeft ==
  pc = "over" /\ failed = {} /\ json /\ ~(TwiceMounted /\ shared)
    => /\ GuestMounted = {}
       /\ kind = "direct" /\ layout # "lvm_on_luks" => open = {} /\ loop = "none"
=============================================================================
