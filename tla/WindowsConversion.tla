------------------------- MODULE WindowsConversion -------------------------
(***************************************************************************)
(* kc-convert-windows: the blocks of cmd/convert-windows/pipeline.go, in   *)
(* their order, with the plugins they call.                                *)
(*                                                                         *)
(* The SYSTEM and SOFTWARE hives are checked out first, edited on the host *)
(* (c.system, c.software) and saved at the very end, SYSTEM before         *)
(* SOFTWARE, while files are deleted from and copied to the guest at once: *)
(* a converter that fails in between leaves a guest whose files and hives  *)
(* disagree, and a second run starts from that guest.                      *)
(***************************************************************************)
EXTENDS Converter

CONSTANT WindowsGuests     \* the guests that may be converted

\* The version handlers.  dirs: where drivers are looked for when there are none
\* of the guest's own version, the preferences and then the fallbacks
Modern(dirs) == [launcher |-> "modern", ps |-> TRUE, static |-> "netcmdlet", disk |-> "getdisk", devcon |-> FALSE,
                 registrar |-> "driverdb", heads |-> FALSE, agent |-> TRUE, dirs |-> dirs]
Win7(dirs) == [launcher |-> "psv1", ps |-> TRUE, static |-> "registry", disk |-> "diskpart", devcon |-> TRUE,
               registrar |-> "criticaldb", heads |-> FALSE, agent |-> TRUE, dirs |-> dirs]
Win2008 == [Win7(<< "2k8", "2k8R2" >>) EXCEPT !.static = "wminetsh", !.disk = "skip", !.agent = FALSE]
WinVista == [Win2008 EXCEPT !.disk = "diskpart", !.dirs = << "vista" >>]
Win2003 == [Win7(<< "2k3" >>) EXCEPT !.launcher = "batonly", !.ps = FALSE, !.heads = TRUE, !.agent = FALSE]
WinXP == [Win2003 EXCEPT !.disk = "skip", !.dirs = << "xp" >>]

\* Classify, for the products that the handlers tell apart
Classify == [win11 |-> Modern(<< "w11" >>), server2022 |-> Modern(<< "w11" >>), server2025 |-> Modern(<< "w11" >>),
             win10 |-> Modern(<< "w10" >>), server2019 |-> Modern(<< "w10" >>), server2016 |-> Modern(<< "w10" >>),
             win81 |-> Modern(<< "w8.1" >>), win8 |-> Modern(<< "w8" >>), unknown |-> Modern(<< >>),
             win7 |-> Win7(<< "w7" >>), server2008r2 |-> Win7(<< "2k8r2" >>), server2008 |-> Win2008,
             vista |-> WinVista, server2003 |-> Win2003, xp |-> WinXP]
Version == Classify[g.product]

NewWindows == [pc |-> "attach", errors |-> {}, done |-> {}, drivers |-> {}, copied |-> {}, logged |-> {},
               system |-> g.system, software |-> g.software]

WindowsInit == g \in WindowsGuests /\ c = NewWindows

AttachWindows ==
  /\ At("windows", "attach")
  /\ \/ Try(TRUE) /\ Goto("open")
     \/ Try(FALSE) /\ Fatal
  /\ UNCHANGED <<g, out, runs>>

\* A hive that was written in part cannot be opened.
OpenHives ==
  /\ At("windows", "open")
  /\ \/ /\ g.system.whole /\ g.software.whole
        /\ Try(TRUE)
        /\ c' = [c EXCEPT !.pc = "drivers", !.system = g.system, !.software = g.software]
     \/ ~(g.system.whole /\ g.software.whole) /\ Try(TRUE) /\ Fatal
     \/ Try(FALSE) /\ Fatal
  /\ UNCHANGED <<g, out, runs>>

\* The directory of virtio-win that a product's name stands for
CanonicalOSVersions ==
  [win11 |-> "w11", server2022 |-> "2k22", server2025 |-> "2k25", win10 |-> "w10", server2019 |-> "2k19",
   server2016 |-> "2k16", win81 |-> "w8.1", win8 |-> "w8", unknown |-> "unknown", win7 |-> "w7",
   server2008r2 |-> "2k8R2", server2008 |-> "2k8", vista |-> "vista", server2003 |-> "2k3", xp |-> "xp"]

\* FindBestOSDir: the guest's own directory, else the first of the handler's
FindBestOSDir(tree) ==
  LET dirs == SelectSeq(<< CanonicalOSVersions[g.product] >> \o Version.dirs, LAMBDA d : d \in DOMAIN tree)
  IN IF dirs = << >> THEN "none" ELSE Head(dirs)

\* FindDrivers: the first directory of the guest's architecture that exists
\* decides, also when it has nothing for the guest's version.
ArchSearchNames == [amd64 |-> << "amd64", "x86_64" >>, x86 |-> << "x86", "i386" >>]
FindDrivers ==
  LET archs == SelectSeq(ArchSearchNames[g.arch], LAMBDA a : a \in DOMAIN g.virtio.drivers)
      tree == g.virtio.drivers[Head(archs)]
      dir == FindBestOSDir(tree)
  IN IF archs = << >> \/ dir = "none" THEN {} ELSE tree[dir]

\* The MSIs of the guest agent that are at hand for the architecture, and the
\* versions that cannot run the agent, which do not get them
CollectGuestAgentMSIs == g.virtio.agent
OmitGuestAgentFiles(files) == IF Version.agent THEN files ELSE {p \in files : p.name # "qemu-ga"}

\* The files that a package's .inf names for the architecture
ParseINFRequirements(p) == {n.file : n \in {m \in p.needs : m.arch \in {"any", g.arch}}}

\* FilterComplete drops a package that lacks one of them.
FilterComplete(packages) == {p.name : p \in {q \in packages : ParseINFRequirements(q) \subseteq q.files}}

\* Without a driver for this guest the converter ends.
CollectDrivers ==
  /\ At("windows", "drivers")
  /\ \/ /\ FindDrivers # {} /\ Try(TRUE)
        /\ c' = [c EXCEPT !.pc = "remove",
                          !.drivers = FilterComplete(OmitGuestAgentFiles(FindDrivers \cup CollectGuestAgentMSIs))]
     \/ FindDrivers = {} /\ Try(TRUE) /\ Fatal
     \/ Try(FALSE) /\ Fatal
  /\ UNCHANGED <<g, out, runs>>

-----------------------------------------------------------------------------
(* Block 4: removing hypervisor software.  evidence and keys: the files and *)
(* the uninstall keys that reveal it; filters, services: what it drops from *)
(* the SYSTEM hive; removes: the files it deletes.                          *)

NoTools == [name |-> "none", evidence |-> {}, keys |-> {}, services |-> {},
            filters |-> {}, stops |-> {}, removes |-> {}]

AWSPV == [NoTools EXCEPT !.name = "awspv", !.evidence = {"xenfilt.sys"}, !.keys = {"AWS_PV_Drivers"},
            !.filters = {"XENFILT"}, !.stops = {"xenfilt"}, !.removes = {"xenfilt.sys"}]
CitrixTools == [NoTools EXCEPT !.name = "citrix", !.evidence = {"Citrix/XenTools"}, !.keys = {"Citrix_XenTools"},
            !.filters = {"XENFILT"}, !.stops = {"XenSvc"}, !.removes = {"Citrix/XenTools"}]
EC2Cleanup == [NoTools EXCEPT !.name = "ec2", !.evidence = {"Amazon"}, !.filters = {"XENFILT"},
            !.stops = {"xenfilt", "AmazonSSMAgent"}, !.removes = {"Tasks/Amazon", "xenfilt.sys"}]
EC2Launch == [NoTools EXCEPT !.name = "ec2launch", !.evidence = {"Amazon/EC2Launch"}, !.keys = {"EC2Launch"},
            !.removes = {"Amazon/EC2Launch"}]
HyperVRemove == [NoTools EXCEPT !.name = "hyperv", !.services = {"vmicheartbeat"}]
NutanixRemove == [NoTools EXCEPT !.name = "nutanix", !.evidence = {"Nutanix"}, !.keys = {"Nutanix"},
            !.removes = {"Nutanix"}]
ParallelsTools == [NoTools EXCEPT !.name = "parallels", !.evidence = {"Parallels_Tools"},
            !.keys = {"Parallels_Tools"}, !.filters = {"prl_strg"}, !.stops = {"prl_strg"},
            !.removes = {"Parallels_Tools"}]
VBoxAdditions == [NoTools EXCEPT !.name = "virtualbox", !.evidence = {"Guest_Additions"},
            !.keys = {"VirtualBox_Guest_Additions"}, !.removes = {"Guest_Additions", "vboxguest.sys"}]
VMwareRemove == [NoTools EXCEPT !.name = "vmware", !.evidence = {"VMware_Tools"}, !.keys = {"VMware_Tools"},
            !.removes = {"VMware_Tools"}]

WindowsRemoves == {AWSPV, CitrixTools, EC2Cleanup, EC2Launch, HyperVRemove, NutanixRemove, ParallelsTools,
                   VBoxAdditions, VMwareRemove}

\* What is assumed of a guest: no converter was here before; the files that
\* reveal a product that is installed are there, and its uninstall key is no
\* other's; every class filter belongs to a product that is installed.
ASSUME WindowsGuestsAssumption ==
  \A x \in WindowsGuests :
    /\ {"os", "product", "files", "system", "software", "tools", "installed", "sys", "lost",
        "scripts", "launcher"} \subseteq DOMAIN x
    /\ {"filters", "services", "enabled", "boot", "criticalDB", "driverDB"} \subseteq DOMAIN x.system
    /\ {"keys", "runOnce"} \subseteq DOMAIN x.software
    /\ x.os = "windows" /\ x.product \in DOMAIN Classify
    /\ x.scripts = {} /\ x.installed = x.software.keys
    /\ \A h \in WindowsRemoves :
         /\ h.name \in x.tools => h.evidence \subseteq x.files
         /\ h.keys \cap x.installed # {} => h.name \in x.tools
    /\ \A f \in x.system.filters : \E h \in WindowsRemoves : h.name \in x.tools /\ f \in h.filters

Revealed(h) == \/ h.evidence \cap g.files # {}
               \/ h.keys \cap c.software.keys # {}
               \/ h.services \cap c.system.services # {}

\* RemoveFilter and DisableService, in the host's copy of the SYSTEM hive
RemoveFilter(hive, filters) == [hive EXCEPT !.filters = @ \ filters]
DisableService(hive, names) == [hive EXCEPT !.enabled = @ \ names]

Script(prio, bat) == [prio |-> prio, bat |-> bat]
\* vmware-msi-uninstall, a .ps1 whatever the version
WriteMSIUninstallFirstboot(x) == [x EXCEPT !.scripts = @ \cup {Script(10, FALSE)}]

\* Every Remove returns nil: a file that cannot be deleted is logged or not.
RemoveTools(h) ==
  /\ h.name \notin c.done /\ Revealed(h)
  /\ \E left \in {{}} \cup {{f} : f \in h.removes \cap g.files}, written \in BOOLEAN :
       /\ Failing(Cardinality(left) + IF written THEN 0 ELSE 1)
       /\ h.name # "vmware" => written
       /\ LET x == [g EXCEPT !.files = @ \ (h.removes \ left)]
          IN g' = IF h.name = "vmware" /\ written THEN WriteMSIUninstallFirstboot(x) ELSE x
  /\ c' = [c EXCEPT !.done = @ \cup {h.name}, !.software.keys = @ \ h.keys,
                    !.system = DisableService(RemoveFilter(@, h.filters), h.stops)]

RemoveHypervisors ==
  /\ At("windows", "remove")
  /\ \/ \E h \in WindowsRemoves : RemoveTools(h)
     \/ /\ \A h \in WindowsRemoves : ~Revealed(h) \/ h.name \in c.done
        /\ c' = [c EXCEPT !.pc = "copy", !.done = {}] /\ UNCHANGED <<g, faults>>
  /\ UNCHANGED <<out, runs>>

-----------------------------------------------------------------------------
(* Blocks 5 to 9: drivers and services *)

BootCriticalDrivers == {"viostor", "vioscsi"}

\* Copy: a package counts as copied when one of its files is; a boot driver's
\* .sys also goes to System32\drivers, and one that does not arrive is logged.
CopyDrivers ==
  /\ At("windows", "copy")
  /\ \/ \E failed \in SUBSET c.drivers, lost \in SUBSET (c.drivers \cap BootCriticalDrivers) :
          LET copied == c.drivers \ failed IN
          /\ failed \cap lost = {} /\ Failing(2 * Cardinality(failed) + Cardinality(lost))
          /\ g' = [g EXCEPT !.staged = @ \cup copied, !.lost = lost,
                            !.sys = @ \cup ((copied \cap BootCriticalDrivers) \ lost)]
          /\ c' = [c EXCEPT !.pc = "register", !.copied = copied]
     \/ /\ c.drivers # {} /\ Try(FALSE)     \* a directory cannot be made
        /\ g' = g /\ Report({"driver-copy"}, "register")
  /\ UNCHANGED <<out, runs>>

\* Register: the service starts at boot, and the PCI devices are bound to it.
\* criticaldb writes the whole service key.
RegisterCriticalDB(hive, names) ==
  [hive EXCEPT !.services = @ \cup names, !.enabled = @ \cup names, !.boot = @ \cup names,
               !.criticalDB = @ \cup names]

\* As if a service key that exists were left alone.
RegisterDriverDB_OnlyNew(hive, names) ==
  [hive EXCEPT !.services = @ \cup names, !.enabled = @ \cup names, !.boot = @ \cup (names \ hive.services),
               !.driverDB = @ \cup names]

\* driverdb keeps a service key that exists, but for its start type.
RegisterDriverDB(hive, names) ==
  [hive EXCEPT !.services = @ \cup names, !.enabled = @ \cup names, !.boot = @ \cup names,
               !.driverDB = @ \cup names]

\* The storage drivers that were copied
RegisterStorage(hive) ==
  LET names == c.copied \cap BootCriticalDrivers
  IN IF Version.registrar = "driverdb" THEN RegisterDriverDB(hive, names) ELSE RegisterCriticalDB(hive, names)

\* DevicePath gets the directory of the drivers, once.
UpdateDevicePath(hive) == [hive EXCEPT !.devicePath = TRUE]

\* The plugins that disable services, each those of its product
VMwareServices == {"VMTools", "VGAuthService"}
HyperVServices == {"vmicheartbeat", "storflt"}
NutanixServices == {"NutanixGuestTools"}
VBoxServices == {"VBoxService", "VBoxGuest"}
DisabledServices == VMwareServices \cup HyperVServices \cup NutanixServices \cup VBoxServices

\* CrashControl: no reboot after a crash
DisableAutoReboot(hive) == [hive EXCEPT !.autoReboot = FALSE]

RegisterDrivers ==
  /\ At("windows", "register")
  /\ c' = [c EXCEPT !.pc = "firstboot", !.software = UpdateDevicePath(@),
             !.system = DisableAutoReboot(DisableService(RegisterStorage(@), DisabledServices))]
  /\ UNCHANGED <<g, out, faults, runs>>

-----------------------------------------------------------------------------
(* Blocks 10 to 12: first boot *)

\* The contributors: their scripts if they ShouldRun
Contributor(run, prio, bat) == IF run THEN {Script(prio, bat)} ELSE {}
Pnputil == Contributor(Version.ps /\ c.drivers \ {"qemu-ga"} # {}, 2000, FALSE)
StaticIP == Contributor(g.options.static, 2500, ~Version.ps)
RouteCleanup ==
  Contributor(g.options.static /\ ~g.options.offline /\ Version.ps /\ Version.static # "wminetsh", 2600, FALSE)
MultipleIPs == Contributor(g.options.static /\ ~g.options.offline /\ Version.ps /\ g.options.manyIPs, 2700, FALSE)
QemuGA == Contributor("qemu-ga" \in c.drivers, 3000, FALSE)
DiskOnliner == Contributor(Version.disk # "skip", 4000, ~Version.ps)
VMwareCleanup == Contributor(g.options.removeVMware, 9100, Version.devcon)
Signal == Contributor(g.options.signal, 99999, ~Version.ps)
Contributors ==
  Pnputil \cup StaticIP \cup RouteCleanup \cup MultipleIPs \cup QemuGA \cup DiskOnliner \cup VMwareCleanup \cup Signal

\* A script or the launcher that cannot be written is logged; RunOnce is set
\* all the same.
ConfigureFirstboot ==
  /\ At("windows", "firstboot")
  /\ \/ \E missed \in {{}} \cup {{s} : s \in Contributors}, launcher \in BOOLEAN :
          /\ Failing(Cardinality(missed) + IF launcher THEN 0 ELSE 1)
          /\ g' = [g EXCEPT !.scripts = @ \cup (Contributors \ missed), !.launcher = @ \/ launcher]
          /\ c' = [c EXCEPT !.pc = "ntfs", !.software.runOnce = TRUE,
                            !.logged = IF launcher THEN @ ELSE @ \cup {"launcher"}]
     \/ Try(FALSE) /\ g' = g /\ Report({"firstboot"}, "ntfs")     \* no directory
  /\ UNCHANGED <<out, runs>>

\* firstboot.bat runs all .bat files by name, then, where there is PowerShell,
\* all .ps1 files by name.  The names begin with the priority, and 99999 comes
\* after 9100.
LauncherRuns(launcher, s) == s.bat \/ launcher # "batonly"
RunsBefore(s, t) == (s.bat /\ ~t.bat) \/ (s.bat = t.bat /\ s.prio < t.prio)

-----------------------------------------------------------------------------
(* Blocks 13 to 17: boot sector, UEFI, capabilities, hives, output *)

\* The heads of the first NTFS partition of the first disk; failures are logged.
FixNTFSHeads ==
  /\ At("windows", "ntfs")
  /\ \E ok \in BOOLEAN :
       /\ Try(ok) /\ (Version.heads \/ ok)
       /\ g' = [g EXCEPT !.heads = @ \/ (Version.heads /\ ok)]
  /\ Goto("uefi")
  /\ UNCHANGED <<out, runs>>

\* The BCD editor: the Microsoft loader becomes the fallback.
BCDEditor(x, failed) == ConvertAllESPs(x, failed)

FixupBCD ==
  /\ At("windows", "uefi")
  /\ \E failed \in SUBSET g.espDevices : Failing(Cardinality(failed)) /\ g' = BCDEditor(g, failed)
  /\ Goto("system")
  /\ UNCHANGED <<out, runs>>

\* Save and Checkin; a check-in that fails may have replaced part of the file.
Checkin(hive, block) ==
  \/ Try(TRUE) /\ g' = [g EXCEPT ![hive] = c[hive]] /\ Goto(block)
  \/ \E whole \in BOOLEAN : Try(FALSE) /\ g' = [g EXCEPT ![hive].whole = whole] /\ Fatal

SaveSystem == At("windows", "system") /\ Checkin("system", "software") /\ UNCHANGED <<out, runs>>
SaveSoftware == At("windows", "software") /\ Checkin("software", "output") /\ UNCHANGED <<out, runs>>

\* Build: virtio when either storage driver was copied
BuildWindows == IF c.copied \cap BootCriticalDrivers # {} THEN "virtio" ELSE "ide"

WriteWindows ==
  /\ At("windows", "output")
  /\ \/ /\ Try(TRUE) /\ Goto("finalize")
        /\ out' = [published |-> TRUE, bus |-> BuildWindows, errors |-> c.errors, relabeled |-> FALSE]
     \/ Try(FALSE) /\ Fatal /\ UNCHANGED out
  /\ UNCHANGED <<g, runs>>

WindowsNext ==
  \/ AttachWindows \/ OpenHives \/ CollectDrivers \/ RemoveHypervisors \/ CopyDrivers \/ RegisterDrivers
  \/ ConfigureFirstboot \/ FixNTFSHeads \/ FixupBCD \/ SaveSystem \/ SaveSoftware \/ WriteWindows
=============================================================================
