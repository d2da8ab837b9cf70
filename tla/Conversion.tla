---------------------------- MODULE Conversion ----------------------------
(***************************************************************************)
(* A guest's conversion from the attached disks to the target section of   *)
(* pipeline.json: the converter of its operating system, then the          *)
(* customizers of kc-finalize, and, when a stage fails, a second run of    *)
(* kc-v2v on the same disks (overlays disabled, so that what the first run *)
(* wrote is there).                                                        *)
(***************************************************************************)
EXTENDS LinuxConversion, WindowsConversion

Init ==
  /\ LinuxInit \/ WindowsInit
  /\ out = NoOutput /\ faults = 0 /\ runs = 1

-----------------------------------------------------------------------------
(* kc-finalize *)

AttachFinalize ==
  /\ c.pc = "finalize"
  /\ \/ Try(TRUE) /\ c' = [c EXCEPT !.pc = "customize", !.done = {}]
     \/ Try(FALSE) /\ Fatal
  /\ UNCHANGED <<g, out, runs>>

\* A customizer that fails is a warning of the target metadata, in which
\* WriteTargetMeta also puts the converter's errors.
Customized(name, ok) ==
  c' = [c EXCEPT !.done = @ \cup {name}, !.errors = IF ok THEN @ ELSE @ \cup {name}]

Customizing(name) == c.pc = "customize" /\ name \notin c.done

\* Host name and time zone first; /.autorelabel only when the converter did
\* not relabel, and only if they were set.  That it cannot be written is logged.
Native ==
  /\ Customizing("native")
  /\ LET needed == ~out.relabeled /\ g.os = "linux" /\ g.selinux # "none" IN
     \/ ~needed /\ Try(TRUE) /\ g' = g /\ Customized("native", TRUE)
     \/ needed /\ Try(TRUE) /\ g' = [g EXCEPT !.autorelabel = TRUE] /\ Customized("native", TRUE)
     \/ /\ needed /\ Try(FALSE) /\ g' = g
        /\ c' = [c EXCEPT !.done = @ \cup {"native"}, !.logged = @ \cup {"autorelabel"}]
     \/ g.hostname /\ Try(FALSE) /\ g' = g /\ Customized("native", FALSE)
  /\ UNCHANGED <<out, runs>>

\* A script of the user for the first boot goes behind the lines that disable
\* the unit, or into a new script; one that fails is logged.  labelled stays
\* what the converter left: it says nothing of the files that finalize writes.
DynamicScriptsLinux ==
  /\ Customizing("dynamicscriptslinux")
  /\ \/ ~(g.os = "linux" /\ g.dynamic) /\ Try(TRUE) /\ g' = g /\ Customized("dynamicscriptslinux", TRUE)
     \/ /\ g.os = "linux" /\ g.dynamic
        /\ \/ Try(FALSE) /\ g' = g /\ \E ok \in BOOLEAN : Customized("dynamicscriptslinux", ok)
           \/ /\ g.script # << >> /\ Try(TRUE) /\ Customized("dynamicscriptslinux", TRUE)
              /\ g' = [g EXCEPT !.script = Append(@, "dynamic")]
           \/ /\ g.script = << >> /\ Customized("dynamicscriptslinux", TRUE)
              /\ \E r \in InstallResults : 
                   Try(r = "ok") /\ g' = [Install(g, "dynamic", r) EXCEPT !.labelled = g.labelled]
  /\ UNCHANGED <<out, runs>>

\* Into the directory of the first-boot scripts, as .ps1: their names begin
\* with the user's number, here one that comes before pnputil's.
DynamicScriptsWindows ==
  /\ Customizing("dynamicscriptswindows")
  /\ \/ ~(g.os = "windows" /\ g.dynamic) /\ Try(TRUE) /\ g' = g /\ Customized("dynamicscriptswindows", TRUE)
     \/ /\ g.os = "windows" /\ g.dynamic
        /\ \/ /\ Try(TRUE) /\ Customized("dynamicscriptswindows", TRUE)
              /\ g' = [g EXCEPT !.scripts = @ \cup {Script(1000, FALSE)}]
           \/ Try(FALSE) /\ g' = g /\ \E ok \in BOOLEAN : Customized("dynamicscriptswindows", ok)
  /\ UNCHANGED <<out, runs>>

WriteTargetMeta ==
  /\ c.pc = "customize"
  /\ c.done = {"native", "dynamicscriptslinux", "dynamicscriptswindows"}
  /\ \/ Try(TRUE) /\ Goto("done")
     \/ Try(FALSE) /\ Fatal
  /\ UNCHANGED <<g, out, runs>>

\* kc-v2v is run again on the disks that a failed run left.
Rerun ==
  /\ c.pc = "failed" /\ runs < MaxRuns
  /\ runs' = runs + 1 /\ out' = NoOutput
  /\ c' = IF g.os = "linux" THEN NewLinux ELSE NewWindows
  /\ UNCHANGED <<g, faults>>

Terminating ==
  /\ c.pc = "done" \/ (c.pc = "failed" /\ runs = MaxRuns)
  /\ UNCHANGED vars

Next ==
  \/ LinuxNext \/ WindowsNext
  \/ AttachFinalize \/ Native \/ DynamicScriptsLinux \/ DynamicScriptsWindows \/ WriteTargetMeta
  \/ Rerun \/ Terminating

Spec == Init /\ [][Next]_vars

-----------------------------------------------------------------------------
(* Properties *)

Linux == g.os = "linux" /\ out.published
Windows == g.os = "windows" /\ out.published

\* The entry e boots v, and is the only one that mentions it.
Alone(e, v) == e.kernel = v /\ \A d \in g.entries \ {e} : v \notin d.mentions

\* The strings of the kernels' versions are in the order of the versions.
InReleaseOrder(ks) == \A x, y \in ks : Greater(x, y) <=> x.release > y.release

\* A converted Linux guest boots.  Of the kernels that the scan found bootable,
\* the one selected has virtio drivers if any has, and of its kind the greatest
\* version string: that is the latest release only where the strings have the
\* order of the releases, less than kernel/README.md:5 promises ("the
\* highest-versioned kernel").  Its BLS entry is the first one, unless setting
\* the default failed, an entry could not be read, another entry mentions the
\* version, or another had the prefix already (bls.go, SetDefaultKernel).
\* When a virtio disk is announced, its initramfs was rebuilt and has the drivers,
\* unless it could not be compared with the one of before.  And unless an error is
\* reported no file names a device of the source, grub.cfg included if mkconfig
\* makes it and ran.
LinuxBoots ==
  Linux =>
    LET k == c.selected
        bootable == {x \in {c.kernels[i] : i \in DOMAIN c.kernels} : x.path /\ ~x.xen}
    IN /\ k = NoKernel => bootable = {}
       /\ k # NoKernel =>
            /\ k \in bootable
            /\ \A x \in bootable : (x.virtio => k.virtio) /\ (x.virtio = k.virtio => ~Greater(x, k))
            /\ InReleaseOrder(bootable) =>
                 \A x \in bootable : x.virtio = k.virtio => x.release <= k.release
            /\ g.names.bls # "none" /\ {"default", "unread", "prefixed"} \cap c.logged = {} =>
                 \A e \in g.entries : Alone(e, k.ver) => \A d \in g.entries \ {e} : Precedes(e, d)
            /\ out.bus = "virtio" => g.initrd[k.ver].virtio \/ "unverified" \in c.logged
       /\ "device-remap" \notin out.errors /\ g.names.fstab # "none" =>
            /\ \A f \in {"fstab", "crypttab", "grub", "bls"} : g.names[f] # "source"
            /\ DetectFirst = "grub2" /\ g.names.cfg = "source" => {"default", "args"} \cap c.logged # {}

\* The software h is revealed only by files that removing it deletes.
FilesOnly(h) == h.evidence \subseteq h.removes /\ h.keys \cap g.installed = {}

\* A Windows guest that is announced with a virtio disk boots from one: a
\* storage driver starts at boot in the SYSTEM hive on its disk, is bound to its
\* devices in the database that this Windows reads, and its file is in
\* System32\drivers unless copying it failed, also when the hive had a key for
\* it.  No class filter is left whose driver was deleted: the hive that the
\* filter was removed from is on the disk.  The exception is a second run after
\* one that deleted the only evidence of the PV drivers and failed before it
\* saved the hive.
WindowsBoots ==
  Windows =>
    /\ out.bus = "virtio" =>
         \E d \in BootCriticalDrivers \cap g.system.boot :
           /\ d \in g.sys \cup g.lost
           /\ d \in IF Version.registrar = "driverdb" THEN g.system.driverDB ELSE g.system.criticalDB
    /\ "XENFILT" \in g.system.filters /\ (runs = 1 \/ ~FilesOnly(AWSPV)) => "xenfilt.sys" \in g.files

\* What is scheduled for the first boot is run then.  Linux: every command whose
\* scheduling was reported as done stands in front of the lines that disable
\* the unit, and the unit is enabled unless writing it failed.  Windows: RunOnce
\* on the disk starts the launcher, unless writing that failed, and the launcher
\* runs every script of a contributor, in the order of their priorities, but for
\* vmwarecleanup, which is a .bat among .ps1 files on the guests before Windows 8.
FirstbootRuns ==
  /\ Linux =>
       \A cmd \in g.scheduled \ {"dynamic"} :
         /\ g.unit \/ g.torn
         /\ \E i \in DOMAIN g.script : g.script[i] = cmd /\ \A j \in 1..i : g.script[j] # "tail"
  /\ Windows /\ "firstboot" \notin out.errors =>
       LET own == {s \in g.scripts : s.prio \notin {10, 1000}} IN
       /\ g.software.runOnce /\ (g.launcher \/ "launcher" \in c.logged)
       /\ \A s \in own : LauncherRuns(Version.launcher, s)
       /\ \A s, t \in {x \in own : x.prio # 9100} : s.prio < t.prio => RunsBefore(s, t)

\* A guest whose conversion ended has its SELinux labels restored, or restores
\* them at boot, for all that the converter wrote: unless the native customizer
\* is reported as failed, or could not write /.autorelabel.
LabelsRestored ==
  c.pc = "done" /\ g.os = "linux" /\ g.selinux = "enforcing" =>
    g.labelled \/ g.autorelabel \/ "native" \in c.errors \/ "autorelabel" \in c.logged

\* Nothing of the source hypervisor's tools is started in a converted guest,
\* whatever order their plugins ran in, and also when an earlier run removed a
\* part of them.  Linux: no unit is enabled but one whose disabling failed;
\* Windows: no service and no class filter, but those of software that a second
\* run cannot find.
SourceToolsGone ==
  /\ Linux => g.units \subseteq g.kept
  /\ Windows =>
       /\ g.system.enabled \cap DisabledServices = {}
       /\ \A h \in WindowsRemoves :
            h.name \in g.tools /\ (runs = 1 \/ ~FilesOnly(h)) =>
              (h.stops \cap g.system.enabled) \cup (h.filters \cap g.system.filters) = {}

\* What docs/apps/kc-convert-linux.md promises of UEFI guests: every EFI system
\* partition of a converted guest has a loader that the target's firmware finds.
EspHasFallback == out.published => \A esp \in DOMAIN g.efi : g.efi[esp]
=============================================================================
