# TLA+ models of kc-utils

kc-utils converts virtual machines from vSphere to KubeVirt. This directory
holds TLA+ specifications of the parts of it whose correctness depends on the
order of events: parallel downloads under one export lease, a stream that may
end anywhere, disks committed one after the other, a pipeline of processes that
share one virtual machine, mounts and sessions that outlive the process that
made them, and conversions most of whose steps may fail. TLC checks them on small instances; TLAPS
proves the most important properties for all instances.

## 1. The system

| Part | State it keeps | Operations | Hard because |
|---|---|---|---|
| `kc-copy` (`pkg/copy`) | NFC lease and vCenter session, goroutine pool, first error, progress list and file | `Run`, `ExportVM`, `CopyDisk`, `Complete`, `Abort` | goroutines, cancellation, a lease that expires |
| VMDK reader (`pkg/copy/vmdk.go`) | position in the stream, target file or device | `StreamToRaw` | a connection cut at any byte, 64-bit arithmetic on foreign numbers |
| Overlays (`pkg/prepare/guest/overlay`) | overlay files, redirected paths, backing disks | `RunWithOverlay`, `CreateOverlays`, `CommitOverlays`, `DiscardOverlays` | several disks, one guest; failure or kill between them |
| `kc-v2v` (`pkg/cmd/v2v`) | shared listener, stage environment, `pipeline.json` | `Run`, `runPipelineOnceBody`, `ensureSharedListener`, cleanup | the appliance VM may die; deferred cleanup order |
| `kc-prepare`, `kc-convert-linux`, `kc-convert-windows`, `kc-finalize` | the mounted guest, their section of `pipeline.json` | one `Run` each, `TeardownOnly` | most failures are warnings |
| qemu backend (`pkg/backend/plugins/qemu`, `pkg/qemuagent`) | VM process, agent connection, mount list, crypt maps | `boot`, `adoptVMSession`, `Mount`, `UnmountAll`, `Teardown`, agent calls | a request/response protocol over a byte channel without connections |
| guestfs backend | guestfish listener, lazy mount specs, what is believed mounted | `withRecovery`, `Mount`, every file operation, `ReleaseDevices` | restart and replay of a session, answers lost after the work is done |
| direct backend | loop devices, crypt maps, host mounts | `Setup`, `Mount`, `ProbeMount`, `UnmountFilesystems`, `ReleaseDevices`, `TeardownMountRoot` | partial teardown, devices stacked on devices |
| conversion blocks and customizers (`pkg/convert-*`, `pkg/finalize`) | guest files, registry hives on the host, block errors | some twenty blocks per converter, plugins in the order of a map | most failures are only logged; hives saved after files are deleted; second runs |
| guest facade, editors | the active backend | dispatch, line edits | many formats |
| HTTP server (`pkg/cmd/v2v/server`) | warnings, server handle | four handlers | shutdown from inside a handler |

How they interact: `kc-v2v` runs `kc-copy` and waits for it, then calls
`RunWithOverlay`; the function it passes boots the appliance VM, runs the stage
programs one after the other with the VM's socket in their environment, and
closes the VM in a deferred function. Stages talk to each other only through
`pipeline.json` and through the mounts and the page cache inside the VM. The
disks are shared by the VM (through the overlays or directly) and by
`qemu-img commit`.

## 2. Modules

| Module | Models | Composes |
|---|---|---|
| `CopyJob` | abstract: a job that copies disks and ends once | |
| `NfcCopy` | `pkg/copy/copy.go`, `vsphere.go`, `download.go` | implements `CopyJob` |
| `VmdkStream` | `pkg/copy/vmdk.go` | |
| `Overlay` | `overlay.go`; also the contract of the function it runs | |
| `V2VPipeline` | `pkg/cmd/v2v/pipeline.go`, the stages, the appliance VM | extends `Overlay`, implements its specification |
| `AgentRpc` | `qemu/session.go`, `qemu/client.go`, `pkg/qemuagent`, the serve loop of `kc-guest-agent` | detail of what `V2VPipeline` calls booting and adopting a VM |
| `GuestfsSession` | `guestfs/backend.go`, `session.go`, `fs.go`, `mount_specs.go` | the guestfs counterpart of `AgentRpc` and of the VM in `V2VPipeline` |
| `MountTable` | `guest/mount_table.go`, `SortSpecs`, `updateMountPoint`, `orderMountPlans` | operators used by `GuestMounts` |
| `GuestMounts` | the direct and the qemu backend's disks, mappers and mounts under `kc-prepare`, the converters, `kc-finalize` and `--teardown-only` | detail of what `V2VPipeline` calls mounting |
| `Converter` | what both converters share: guest, process, published output, faults | |
| `LinuxConversion` | `cmd/convert-linux/pipeline.go` and the blocks and plugins below `pkg/convert-linux` | extends `Converter` |
| `WindowsConversion` | `cmd/convert-windows/pipeline.go` and the blocks and plugins below `pkg/convert-windows` | extends `Converter` |
| `Conversion` | a converter followed by the customizers of `kc-finalize`, and a second run on the disks of a failed one | extends both; detail of "edits" in `V2VPipeline` |
| `NfcCopy_proofs`, `Overlay_proofs`, `VmdkStream_proofs`, `AgentRpc_proofs`, `GuestfsSession_proofs`, `GuestMounts_proofs`, `Conversion_proofs` | proofs about the module of that name | |
| `V2VPipeline_proofs` | proofs about `V2VPipeline` | extends `Overlay_proofs`, whose invariant is a part of its own |
| `MC*` | instances for TLC | |

**NfcCopy.** `Run` is one process (`phase`), each goroutine another
(`worker[d]`). The steps of a goroutine follow its source line by line: the
`select`, the recheck of the context, opening the target, the GET, the stream,
the sync, `mu.Lock` with the append, `WriteJSON` with the two deferred calls.
`CopyDisk` steps that look at the context (`CtxStep`) fail with its error once
it is cancelled; the others (`PlainStep`) do not notice. A control request made
with a cancelled context never leaves the process; with a live one the server
executes it, or the network loses request or answer (`netFault`).

**VmdkStream.** One action per turn of the loop and per place where a read can
end. A byte position is abstracted to the field it falls in, since the code
treats all positions of a field alike. The stream is the sequence of
sectors behind the header: a marker with its grain, a marker, or a sector that
is none (descriptor, grain table). What the reader takes a sector for depends on
its size and type field only, so a reader that skipped a wrong length reads
tables as markers. Both lengths that it skips, the overhead (`vmdk.go:120`) and
the payload of a metadata marker (`vmdk.go:212`), are products that wrap in `int64`
(`Int64`), and a product that is not positive skips nothing. A sector's content is
its own number, so a misplaced sector is visible; `Absent` is what lies behind the
end of a file and is different from a sector of zeros. `decompress` is modelled by
how the deflate stream of a grain ends (`zlib`): one that is cut short gives what
it held and no error, one that is broken or has a wrong checksum is an error only
if the grain buffer is not full before that is noticed, and what has no zlib header
is refused. The data is counted in whole sectors. The sector size, the largest `int64` and the grain limit are
constants, small in the run so that the largest legal values are among the inputs.

**Overlay.** Disk contents are sets of edits. `path[d]` decides where a write
goes, as `disk.Path` does. `qemu-img commit` copies piece by piece
(`CommitSome`), so that failing in the middle of a disk is possible. `Killed`
stops the process anywhere.

**V2VPipeline.** `stage` is the position in `runPipelineOnceBody` and in the
stage process it waits for. Each VM has its own mounts and page cache; both
disappear with it. A stage is split where the death of the VM makes a
difference. The retry of `kc-prepare` with a root selector
(`pipeline.go:228-243`) is not reachable: it needs exit status 0 together with
status `error` in `pipeline.json`, and `kc-prepare` exits with status 1 whenever
it writes that. Whether overlays are used (`overlayEnabled`) is chosen at the
start. `ImplementsOverlay` maps a run with overlays to `Overlay`: what the stages
do is what a function inside `RunWithOverlay` may do, in particular no VM writes
to an overlay after the function has returned.

**AgentRpc.** The host's session (`pc`: boot, probes, ready, kill), two callers
of one client, the agent's serve loop, and between them a channel of three
queues: `wire` (written by the host, not yet in the guest), `inbox` (in the
guest's port) and `outbox` (on its way to the host). The channel is external.
It is modelled from how the code uses it: the port in the guest outlives a host
connection (`bootstrap_linux.go:50`), reads end of file while no host is
connected, and drops what is unread when it is closed; a host that closes its
connection loses what it has not read, and what it wrote may still arrive or
not. Messages are whole frames: a request is its number, a response the number
it answers, which the host never looks at because the code has no such number.
A session that adopts its VM finds what the sessions before it left: requests in
`wire` and `inbox` (`inherited`), the agent anywhere in its loop, and perhaps the
client that `kc-v2v` keeps (`register.go:63`) on the one connection that QEMU
serves (`chardev`). What the new session writes then waits in the socket's backlog,
so while the other client stays, every probe times out and the adoption ends with
an error; when it leaves, the probes that are still open are served. That QEMU
serves one connection of a socket chardev at a time is external behaviour; the
code shows `server=on` (`launch.go:205`) and two clients of one socket.
Time is not modelled; a probe may time out at any moment. `restart` is not
modelled: `ensureSession` is called once per backend, before there is a session,
so its restart branch is never reached. The file primitives are calls like any
other.

**GuestfsSession.** `be` is the Go value `Backend` of the stage process, what it
*believes*; `appl[l]` is the appliance behind listener `l`, what is *there*. An
operation goes through the code's steps one script at a time (`ensureSession`,
inspection, the mount script, the script itself, `tryRestart`), since the
listener can die between any two and also after a script and before its answer.
File operations fall into kinds that the recovery treats alike: reads, queries
that turn errors into "no", moves that cannot be done twice, commands that need
`/proc`. Three stages follow each other, over the listener of `kc-v2v`
(`env # 0`), which the parent replaces between stages, or over their own.

**GuestMounts.** `mnt`, `open` and `loop` are the kernel's mount table, mapper
devices and loop device; `be` is what the backend has recorded. One action is
one command. A fault is a *kind* of command that fails: once chosen, commands of
that kind may fail at every later call, which covers both one failure and a
failure that repeats. The layouts say what holds the root filesystem: a plain
partition, LUKS, LVM, each on the other, LDM, BitLocker, storage spaces. Both
backends go through the same stages because `pkg/guest` dispatches the same
calls to them; where their code differs (what is forgotten when, what is tried
again, which mappers are closed) the actions differ. The qemu appliance is
shared by the stages or, stand-alone, booted by each, which then mounts the
table of `prepare` anew (`MountTable`). A guest has a table of its own: the
fstabs are a constant, sequences of entries as `DeviceEntries` and `Resolve` leave
them, and the planner drops what it has seen and what is on the root device
(`Planned`). Go's `sort.Slice` is not stable, so sorting by length or depth gives
any of the orders in which no entry precedes one with a smaller key (`OrdersBy`).

**Converter, LinuxConversion, WindowsConversion, Conversion.** A converter is a
sequence of blocks, and what matters of each is what it does to the guest and
what it makes of a failure: fatal, an entry in `output.Errors`, or a line in
the log (`c.logged`, which no program reads and which the properties use to say
what they except, along with what the code does not notice at all). A file of the guest is what the properties tell apart of it:
`names[f]` says whose device names it uses, `script` is the list of commands
with the lines that disable the unit as one element, a hive is its sets of
services, filters and keys. A Linux kernel has a place among version *strings*
(`ver`), which is all that `kernel.Best` and both scanners compare, and a place among
*releases* (`release`), which only the properties use: "5.9" is the greater string
and 5.14 the later release. A BLS entry has the place of its file name in the
directory, the prefix `0-` or none, the version it boots and the versions its text
contains anywhere, since `SetDefaultKernel` searches the text. All three backends
list a directory in the order of names (`os.ReadDir`, or `ls` in the appliance).
Loops over a registry of plugins visit them in any
order, since the registry is a Go map. The Windows hives are edited on the host
(`c.system`, `c.software`) and saved last, while files are deleted at once;
`Rerun` starts again from what a failed run left. `labelled` says whether all
that the converter wrote has its SELinux label.

## 3. Runs

| Run | Instance | Shows |
|---|---|---|
| `nfc_copy` | 3 disks (one block device), 2 slots | the bound of the pool, the reported error is the cause, success means every disk recorded, the lease outlives the downloads, the progress file only grows, `Run` returns, refinement of `CopyJob` |
| `vmdk_stream` | 90 exports: 16 images of 4 sectors, file and block target; malformed headers and grains, damaged deflate streams, lengths that are not true or wrap | data in place except what damaged deflate streams lost, nothing misplaced whatever lengths are stated, refused elements are errors |
| `overlay` | 3 disks, 2 edits | backing disks untouched before success, success means committed, nothing left behind, a commit adds only what was written |
| `v2v_pipeline` | 2 disks, with and without overlays | no commit under a running VM, current listener, only converted guests committed, edits reach the disks, no orphans, termination, refinement of `Overlay` |
| `agent_rpc` | 2 callers, 3 probes, 7 requests, own VM or adopted one with up to 2 requests of earlier sessions under way and `kc-v2v`'s client connected or not | answers off by no more than the probes that timed out and the requests inherited, requests handled once and in order, boot, calls and kill end, an own VM not left running, an adopted one left alone |
| `guestfs_session` | 3 listeners, 2 deaths, LUKS or plain root, shared or own listener | an operation that succeeded saw exactly the recorded mounts; a script is replayed only by a new listener; operations return; stages end their own listeners and no other |
| `guest_mounts` | 8 layouts, 4 fstabs, ESP or none, 3 ways to run, 2 kinds of faults | later stages see what `prepare` mounted; checks run on unmounted filesystems whose mappers exist; no mount is forgotten; without faults nothing is left |
| `conversion` | 30 Linux and 9 Windows guests, 3 faults, 2 runs | the guest boots from the announced bus, with the kernel that has virtio and the greatest version string; what is scheduled for first boot runs, in order; labels are restored; nothing of the source's tools is started |

Runs that end in a counterexample, each a disagreement between the code and
what the repository says of it:

| Run | The code | The text |
|---|---|---|
| `nfc_copy_abort` | `Abort` is called with the context that the failing goroutine has cancelled; the lease stays | `pkg/copy/README.md`: "aborts the NFC lease" |
| `vmdk_whole_image` | a stream cut at a marker is a nil error | `vmdk.go`: "writes the decompressed raw disk image" |
| `v2v_adopted_mounts` | after a restart behind prepare nothing is mounted in the VM the next stage adopts | `backend.go`: "Prepare's mounts are still live in the appliance" |
| `conversion_esp` | `ESPDevices` holds a device path, and the editors look for a directory of that name in the guest, so they do nothing | `docs/apps/kc-convert-linux.md`: "Update UEFI boot entries on ESP partitions" |

The properties that hold say in their comments which cases they except. These
exceptions are what the code does, and a maintainer may want to look at them:

* a file target is not extended over trailing zeros (`vmdk.go:266`;
  `docs/apps/kc-copy.md:182` says that the file "already contains zeros" there);
  `DataInPlace` speaks of the sectors that carry data;
* a grain whose deflate stream is cut short, and one whose checksum is wrong behind
  a full buffer, are accepted (`vmdk.go:43`), so nil does not speak for the
  sectors they lose (`LostSectors` in `DataInPlace`, `NilMeansNoElementRefused`);
* lengths that are not true, or that wrap (`vmdk.go:120`, `vmdk.go:212`), put the
  reader out of step with the stream, and it may end nil at a zero sector that it
  takes for the end marker; nothing is misplaced, but data is missing (`Honest`);
* when a commit fails the disks before it stay changed (`overlay.go:67`;
  `overlay/README.md:3` says that backing disks are untouched);
* `TeardownDiscard` of the qemu backend is `Teardown` and syncs
  (`qemu/teardown.go:78`; `docs/apps/kc-v2v.md:45` says "never Syncs");
* an agent's answer may lag: the agent may answer a timed-out probe on the next
  connection, and each later call then reads the answer of the request before
  it, although `session.go:227` expects that "a timed-out ping never corrupts
  the framing of the returned client". The same holds for requests that an
  earlier session left under way, although a session that adopts its VM has
  timed out nothing itself; and a response larger than `MaxMessageSize` is not sent at all while its caller waits without a deadline
  (`AnswersLag`, `SessionReturns`);
* `fsck` runs on a filesystem whose umount failed (`CheckedUnmounted`);
* a device that the fstab mounts twice is recorded once (`updateMountPoint`);
* the direct backend closes mappers before it deactivates volume groups, so a
  volume group inside LUKS keeps both, and with them the loop device
  (`NothingLeft`);
* the kernel that is selected has the greatest version string
  (`select.go:26`, `rpm.go:51`, `deb.go:50`), where `kernel/README.md:5` says
  "highest-versioned": "5.14.0-99" is preferred to "5.14.0-100". `LinuxBoots`
  claims the latest release only where strings and releases have the same order;
* `SetDefaultKernel` of BLS takes the first entry whose text contains the version,
  a rescue entry or one of a longer version among them, passes over entries it
  cannot read, leaves another entry that has the prefix already, and returns nil
  when it found none (`bls.go:64`): `LinuxBoots` speaks of the entry that alone
  mentions the version, and of no run in which one was unread or prefixed before;
* an initramfs that could not be compared with a backup is accepted, and when
  no mkconfig works `grub.cfg` keeps the names of the source (`LinuxBoots`);
* when the unit of the first-boot script cannot be written, later commands are
  appended to the script and reported as scheduled (`FirstbootRuns`); a user's
  script is appended behind the lines that disable the unit and remove the
  script, and runs only because bash still has the file open;
* on guests before Windows 8 `vmwarecleanup` is a `.bat` and runs before every
  `.ps1`, whatever its priority (`FirstbootRuns`);
* a second Windows run does not find PV drivers of which the first one deleted
  the files without saving the hive, so their filter stays (`WindowsBoots`,
  `SourceToolsGone`).

Further hazards that no property covers, because no text of the repository says
what should happen or because the answer lies outside it: a lease whose `Wait`
fails is not aborted (`vsphere.go:62`); a file target is not synced
(`download.go:82`); a kept work directory hands an old `pipeline.json` to the
clean-up (`v2v/pipeline.go:287`); a guestfs `Rename` that was done and
whose answer was lost fails when it is retried (`guestfs/fs.go:202`); `Exists` and
`IsDir` answer "no" on any error (`fs.go:101`); `Release` of the guestfs backend
does nothing, so a stand-alone `prepare` keeps its listener, where
`docs/architecture/backends.md:77` has it exit; loop devices of a run that failed
before `pipeline.json` stay attached (`direct/backend.go:281`); a probe mount whose
umount fails is covered by the next one (`qemu/probe.go:66`); a stand-alone stage
under qemu neither unlocks nor activates again and fails (`qemu/backend.go:67`);
grub2's `SetDefaultKernel` ignores the version (`grub2.go:43`); `blkid` is asked for
the source's device names on the machine that converts (`standard.go:94`); of two
names for one MAC a random one is kept (`nicnaming.go:42`); the VMware MSI script
is a `.ps1` also for launchers that run only `.bat` files (`vmware/remove.go:95`).

**Bounds.** Three disks and two slots are the smallest pool in which one
goroutine waits for a slot while two others fail or record in either order. Two
grains of two sectors give a grain with data and zeros, a gap in front of a
grain and a trailing zero grain. Three overlays make a first, a middle and a
last disk of each loop. A run of `kc-v2v` boots at most three VMs (`MaxBoots`):
one at the start and one in each `ensureSharedListener`.
Of the numbers that wrap, with a largest `int64` of 31 and sectors of two bytes,
a payload of 34 comes to two sectors, one of 32 to none, one of 16 to a negative length.
Three probes leave two answers late at once; two inherited requests can be one
that the agent handles and one behind it; seven requests leave two calls behind all of
these, and up to six calls on a VM of its own, so that both callers call.
Two deaths (`MaxCrashes`) and three listeners (`MaxListeners`) let a shared
listener die in a stage, its private successor die during the retry, and the
parent start another one. Two kinds of faults (`MaxFaults`) let a failing umount
meet a failing clean-up; `MaxMounts` keeps leaked virtual filesystems finite and
leaves room for them beside the largest of the tables. The fstabs have nested mount
points listed child first, a device mounted twice, and a mount point and the root
device named twice; two of the paths have the same length. The Linux guests are half of the combinations
of four sets of kernels, three boot loaders and five profiles, chosen so that
every two meet; one set of kernels has the order of strings against that of
releases, and the BLS entries are one for each kernel, with a rescue entry in front of
them, or with one that has the prefix; the profiles share out tools, distributions, package sources and
network set-ups. The Windows guests have a product of every version handler,
driver trees that are complete, incomplete and hidden by a directory of another
name, and tools that left their uninstall keys or not. Three faults let a first
run fail fatally after a logged failure and a second run fail once more. Products
whose handlers are equal, and distributions of one package format, are in the
tables (`Classify`, `LocalPackageMajorVersion`) and not each in an instance.

**Fairness.** `NfcCopy` assumes that the Go scheduler runs every goroutine and
that every download ends; the code sets no read deadline, so a server that
neither sends nor closes would block it. `V2VPipeline` assumes that subprocesses
exit: the code waits for them without a timeout. `AgentRpc` assumes that the
host and the agent run, that deadlines pass and that a process sent SIGKILL
exits, and that QEMU accepts a connection and passes frames on when it serves no
other; not that callers call, that another client leaves, or that QEMU obeys SIGTERM. `GuestfsSession`
assumes that an operation under way goes on, since guestfish answers or dies;
not that anything is called. The other modules state safety only and assume
nothing. No fairness is assumed of VMs, of the network or of the server.

**Type invariants.** They are proved (section 4) and in no run, for `NfcCopy`,
`Overlay`, `VmdkStream`, `V2VPipeline`, `AgentRpc`, `GuestfsSession` and
`GuestMounts`; those of the last two are in their proof modules.

## 4. Proofs

The theorems hold for every value of the constants that satisfies the named
assumptions of the modules. Each module has one inductive invariant, a
conjunction of named parts; the properties follow from it, and the runs' small
instances were used to check it before it was proved.

**`NfcCopy_proofs`**: every finite set of disks (`DisksAssumption`), every integer
`copy_concurrency` (`ConcurrencyAssumption`). `TypeCorrect`, `BoundedPool`,
`RootCause`, `LeaseOutlives`, `SuccessRecorded`, `FileGrows` and the refinement
`Implements` follow from `CopyInv`. The invariant says that the elements of the
channel are exactly the goroutines past the `select` (`Slots`), that inside the
pool the context is cancelled if and only if a first error is stored (`Phased`,
which is why no goroutine can store a cancellation first), that the lease is
alive until the first error (`LeaseAlive`), and that the list holds each
goroutine that got there once and is what the holder of the mutex writes
(`Records`). Steps before the record share one lemma (`QuietInv`), since all that
matters of them is that they leave the records alone and exit only under a
stored error.

**`Overlay_proofs`**: every number of disks, every set of edits
(`OverlayAssumption`). `OverlayTypeCorrect`, `BackingUntouched`,
`SuccessCommitted`, `LeavesNothingBehind`, `AddsWrittenOnly` follow from
`OverlayInv`: which overlays exist and which paths are redirected at each
position of the two loops (`Positions`), and what overlay and backing disk hold
(`Contents`).

**`V2VPipeline_proofs`**: the same, with the edits of the converter and of the
customizers among the edits (`PipelineAssumption`). `PipeInv` says where `Run` is
relative to `RunWithOverlay` (`Phases`), that only the VM of the current listener
can be running and that each of the three places that boot one boots at most one
(`VMs`), which stages have exited (`Exits`), that while no VM has died each edit
is in the page cache of the VM the stages use or on the disks (`EditsKept`), and
what the disks hold (`OnDisk`): with overlays that is `OverlayInv`, whose step
lemmas are used again. From it follow `PipelineTypeCorrect`,
`CommitsWithoutWriters`, `CurrentListener`, `OnlyConvertedGuests`, `EditsOnDisks`
and `NothingOrphaned`. `PipelineImplementsOverlay` is the refinement: every step
of a stage or a VM is a step that `Overlay` allows the function it runs, or a
stutter. The invariant is needed there, because the step in which a VM writes
back its cache is allowed only while the function runs.

**`AgentRpc_proofs`**: any callers, any number of probes and of inherited requests,
any bound on requests above both (`AgentAssumption`). A response carries no request number, so what a
call gets depends on all that is under way. `AgentInv` says that the responses
not read, the request being handled and the requests not read are numbered in
increasing order (`InOrder`), and that the oldest of them is at most as many
requests behind the last one as probes were given up and requests inherited (`Lag`); `Waiting` ties the
caller that waits to the mutex and to the request written last. From it follow
`AgentTypeCorrect`, `AnswersLagBehind`, `OnceInOrder`, `NoVMLeft` and the action
property `AdoptedAlone`.

**`GuestfsSession_proofs`**: any number of listeners and deaths
(`GuestfsBounds`). `SessionInv` has what makes the backend's beliefs safe: a
listener that died does not come back and a new one gets a pid nobody has
recorded (`Pids`), of the listeners a stage started only the one it uses runs
(`Ownership`), what carried out a script is the current listener or dead
(`Replay`), mounts the backend believes in are all there or none is (`Mounts`),
and the tables an operation was carried out under so far are the recorded one
(`Seen`). From it follow `SessionTypeCorrect`, `AckedOnRecordedMounts`,
`RepeatedOnlyAfterDeath`, `OwnListenersEnded` and the action property
`SharedLeftAlone`.

**`GuestMounts_proofs`**: every set of mount points, every finite set of data
partitions, every fstab over them, any number of kinds of faults. What is assumed
of paths (`PathsAssumption`) is what strings give: "/" is above every other path,
and a path is longer and deeper than those above it; `GuestsAssumption` has the names of
devices distinct. The same mounts are in three tables, the kernel's, the backend's
and that of the disk infos, and a stage sees only the last two. `MountInv` says how
they agree at every place of every stage: the disk infos name entries of the
guest's table, and every mount of the guest is in them (`Infos`); the kernel has
one mount at a path, but for probes and virtual filesystems whose umount failed
(`Kernel`); what is mounted and what a loop has still to mount is the table, and
nothing is hidden by a later mount (`Pending`); while no umount failed, what
is mounted is still to be unmounted, children first (`Unmounted`); what `prepare` hands over
is whole (`Handover`), and recorded (`Records`). That sorting puts parents first is
the lemma `OrderFacts`; reversed, it never finds a mount busy (`ReverseOrder`), which
is why an umount fails only by a fault. `Clean` carries this to the mappers, the
volumes and the loop device. From it follow `MountInvariant`, `AttachedSeesTable`,
`ChecksUnmounted`, `MountsAreRecorded` and `NothingIsLeft`. The proof made the
exception of `MountsStayRecorded` smaller: it is about adopted appliances only.

**`VmdkStream_proofs`**: every sector size, limit of `int64` and of grains
(`VmdkNumbers`; the range of `int64` is a multiple of the sector size), and every
set of exports, of any length, capacity, grain size and order of grains, that
satisfies `Exports`. That assumption is about the server: the end marker comes
last and only once, a grain that lies within the disk carries what the source has
at its place as far as its deflate stream goes, and if no grain is malformed all
data is in some grain or was lost in a damaged deflate stream. It says nothing
about malformed grains and nothing about the lengths an export states. That these
are true is a condition (`Honest`) of the properties that need it, and
`NoGrainMisplaced` does not. TLC evaluates the assumption on the exports of
`MCVmdkStream`. `StreamInv` says that every grain in front of `pos` was accepted
and is in its place, and of an honest export that `pos` is at a marker
(`Progress`), for which `HonestOverhead` and `HonestMetadata` show that true
lengths do not wrap; later writes do not undo that because an accepted grain is
not malformed, for which the comparisons of `processCompressedGrain`, made in
bytes, are taken to sectors (`BytesToSectors`). From it follow
`StreamTypeCorrect`, `NoGrainMisplaced`, `NilMeansAccepted` and
`NilMeansDataInPlace`.

**`Conversion_proofs`**: every set of guests, any number of faults and of runs of
`kc-v2v` on the disks that a failed one left. What is assumed of a guest
(`LinuxGuestsAssumption`, `WindowsGuestsAssumption`) is that no converter was
there before, that what is enabled of a product belongs to one that is
installed, with the files that reveal it, that the kernels of a guest are
finitely many with a version string each, and that a BLS entry has a name of its
own and the version it boots in its text. Nothing relates the order of the version
strings to that of the releases. `ConversionInv` has a part for each
converter. Linux: whether setfiles is still to come, has run or is left to
`kc-finalize` (`Labels`), that an enabled unit still has tools that reveal
themselves (`Units`), and that in the first-boot script the commands stand in
front of the lines that disable the unit (`ScriptsOK`). Windows: files are deleted
at once and hives are saved last, so the traces of a product are spread over the
files, the hive on the disk and the host's copy of it; `ToolsInv` says which of
them agree at each block, which is what makes a second run find what the first
one left, and why the properties except software that only deleted files
revealed. `FiltersInv`, `ServicesInv`, `DriversInv` and `FirstbootInv` say the same of
class filters, services, drivers and scripts before and after saving. The
blocks that touch nothing a property looks at share one lemma. From it follow
`LabelsAreRestored`, `SourceToolsAreGone`, `WindowsGuestsBoot` and
`ScheduledCommandsRun`.

What a Linux guest boots from has an invariant of its own on top of that one,
`BootInv`: each of its parts holds from the block on that establishes it
(`Past`), also when a later stage fails after the output was published, and says
nothing before, so that a second run may start anywhere. The scan's list is
sorted by version string (`ScanInv`); the kernel that is selected is the best of it,
and a BLS entry that alone mentions it is the only one with the prefix, unless
something kept it from being so (`SelectInv`, `SetDefaultFacts`); the files that were remapped
without an error name no device of the source and `grub.cfg` follows the grub
defaults, or that is logged (`NamesInv`); the image of the selected kernel has
its drivers or was not compared (`RebuildInv`). `BestIsBest` shows what
`kernel.Best` computes for a list of any length. That needs the order of the
list: `Best` gives up a kernel with virtio drivers for one with a greater version
string and without them that it meets later, and gives the stated result only
because both scanners sort by the same comparison, greatest first. The
library's induction theorems cannot be used for it, so the lemma takes the
least prefix for which the walk would be wrong (`WFMin`), and `BestWalk` shows in
the same way that the recursive function exists. From it follows
`LinuxGuestsBoot`.

Only model-checked:

* the liveness properties (`Run` of `kc-copy` returns, `RunReturns`,
  `SessionReturns`, `OperationReturns`): the prover does not reason about
  fairness.

## 5. Not modelled, and the plan

* **Disk selection of `kc-copy`** (`filter.go`, `target.go`): pairs lease URLs with
  targets without state; planned as pure operators (`DiskSelect`).
* **Configuration and vSphere inventory**: reading of environment variables and
  properties.
* **Guest configuration editors** (`pkg/common/configedit`, `hivex`): line by line
  edits of files. What an edit achieves is in the conversion modules; the lines
  could be pure operators against reference definitions (`ConfigEdit`).
* **HTTP server** and the **debug channel** of the appliance: small, and nothing
  else depends on them (`HttpServer`, `DebugChannel`).
* **Inspection** in `kc-prepare`: recognising distributions and Windows versions
  from files.
* **Container builds.**

Failures that the modelled parts take no account of, because the code ignores
them or they lie in a library: the refresh of the lease's progress fails
(`NfcCopy`); a file of an overlay cannot be removed (`overlay.go:43`, `71`, `85`);
`guestfish --remote exit` fails (`session.go:533`); an edit of an open registry hive
fails, apart from opening and saving it; a run-action of the user's fails at first boot.
The scripts that `dynamicscriptslinux` schedules name a path of the host
(`dynamicscriptslinux.go:146`) and are not claimed to run by `FirstbootRuns`.

Out of reach: what the tools that are run do inside (qemu-img, fsck, dracut,
hivex), file formats byte by byte, and timing.
