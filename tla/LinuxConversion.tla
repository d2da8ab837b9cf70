-------------------------- MODULE LinuxConversion --------------------------
(***************************************************************************)
(* kc-convert-linux: the blocks of cmd/convert-linux/pipeline.go, in their *)
(* order, with the plugins they call.                                      *)
(*                                                                         *)
(* The guest g holds the kernels under /lib/modules and /boot with their   *)
(* initramfs images and the backups of these; which device names           *)
(* fstab, crypttab, the grub defaults, the BLS entries and grub.cfg use    *)
(* ("source", "virtio", or "none" without such a file); the units and      *)
(* files of the source hypervisor's tools; the first-boot script and unit; *)
(* and whether files were written since the SELinux labels were last right.*)
(*                                                                         *)
(* Of a kernel, ver is the place of its version string among all strings,  *)
(* byte by byte as Go compares them, and release the place of its version  *)
(* among versions: 5.9 is the greater string, 5.14 the later release.  The *)
(* code only knows the string.                                             *)
(*                                                                         *)
(* Of a BLS entry, name is the place of its file name among the others,    *)
(* zero whether the prefix "0-" comes before it, kernel the version that   *)
(* its linux line boots, and mentions the versions its text contains       *)
(* anywhere: that line's, the one a rescue entry was made from, and those  *)
(* that begin like a longer version.                                       *)
(***************************************************************************)
EXTENDS Converter, SequencesExt

CONSTANT LinuxGuests     \* the guests that may be converted

NoImage == [virtio |-> FALSE, size |-> 0]
NoKernel == [ver |-> 0, release |-> 0, path |-> FALSE, xen |-> FALSE, virtio |-> FALSE]

\* The process of one run
NewLinux == [pc |-> "attach", errors |-> {}, done |-> {}, kernels |-> << >>,
             selected |-> NoKernel, networkd |-> FALSE, relabeled |-> FALSE, logged |-> {}]

LinuxInit == g \in LinuxGuests /\ c = NewLinux

Wrote(x) == [x EXCEPT !.labelled = FALSE]

AttachLinux ==
  /\ At("linux", "attach")
  /\ \/ Try(TRUE) /\ Goto("scan")
     \/ Try(FALSE) /\ Fatal
  /\ UNCHANGED <<g, out, runs>>

-----------------------------------------------------------------------------
(* Blocks 4, 5, 8: boot loader and kernels *)

\* DetectFirst: BLS entries are preferred to grub2.
DetectFirst == IF g.names.bls # "none" THEN "bls" ELSE IF g.names.grub # "none" THEN "grub2" ELSE "none"

\* What a scanner makes of the kernels: nothing is bootable when /boot cannot
\* be read, and a kernel whose drivers cannot be listed has no virtio.
ProbeModules(k, listed) ==
  [k EXCEPT !.virtio = @ /\ k.path /\ listed, !.xen = @ /\ k.path /\ listed /\ ~k.virtio]
ScanKernels(boot, unlisted) ==
  {ProbeModules([k EXCEPT !.path = @ /\ boot], k.ver \notin unlisted) : k \in g.kernels}

\* The > of Go between the version strings of two kernels
Greater(k, l) == k.ver > l.ver

\* Both scanners sort by that, the greatest string first: the sequences of all
\* of ks in that order, one when no two have the same version.
ByVersion(ks) == {s \in [1 .. Cardinality(ks) -> ks] : \A i, j \in DOMAIN s : i < j => Greater(s[i], s[j])}

\* scanKernels: the deb scanner is asked when the rpm scanner fails or finds
\* nothing; both read the same directories.
Scan ==
  /\ At("linux", "scan")
  /\ \E f \in {"none", "rpm", "both", "boot", "drivers"}, v \in {k.ver : k \in g.kernels} \cup {0} :
       /\ f = "drivers" <=> v # 0
       /\ Failing([none |-> 0, rpm |-> 1, both |-> 2, boot |-> 1, drivers |-> 1][f])
       /\ \E kernels \in ByVersion(IF f = "both" THEN {} ELSE ScanKernels(f # "boot", {v})) :
            c' = [c EXCEPT !.pc = "remap", !.kernels = kernels]
  /\ UNCHANGED <<g, out, runs>>

\* kernel.Best walks the scanned list once: the best of the first n.
Better(best, k) ==
  IF ~k.xen /\ k.path /\ (best = NoKernel \/ (k.virtio /\ ~best.virtio) \/ Greater(k, best)) THEN k ELSE best
Best(kernels) ==
  LET best[n \in 0 .. Len(kernels)] == IF n = 0 THEN NoKernel ELSE Better(best[n - 1], kernels[n])
  IN best[Len(kernels)]

\* RegenerateConfig of grub2: mkconfig reads the grub defaults; when neither
\* binary works the old grub.cfg stays, and no error is returned.
RegenerateConfig(x, ok) == IF ok THEN [x EXCEPT !.names.cfg = x.names.grub] ELSE x

\* The order of the directory, which is that of the file names
Precedes(d, e) == (d.zero /\ ~e.zero) \/ (d.zero = e.zero /\ d.name < e.name)

\* SetDefaultKernel puts "0-" in front of the name of the first entry that
\* mentions the version, unless it is there.  Entries that cannot be read are
\* passed over, and it is no error when none is found.
SetDefaultBLS(x, v, unread, ok) ==
  LET found == {e \in x.entries \ unread : v \in e.mentions}
      first == {e \in found : \A d \in found \ {e} : Precedes(e, d)}
  IN IF ok THEN [x EXCEPT !.entries = (@ \ first) \cup {[e EXCEPT !.zero = TRUE] : e \in first}] ELSE x

\* SetDefaultKernel of grub2 sets GRUB_DEFAULT=0 whatever the version is.
SetDefaultGrub2(x, ok) == RegenerateConfig(x, ok)

\* That the default cannot be set is logged; what else may keep the entry from
\* being the first is only noted here: one that was not read, another that had
\* the prefix before.
SelectKernel ==
  /\ At("linux", "select")
  /\ LET selected == Best(c.kernels)
         prefixed == {e \in g.entries : e.zero /\ selected.ver \notin e.mentions}
     IN
     /\ \E ok \in BOOLEAN, unread \in SUBSET g.entries :
          /\ Failing((IF ok THEN 0 ELSE 1) + Cardinality(unread))
          /\ selected = NoKernel \/ DetectFirst = "none" => ok
          /\ selected = NoKernel \/ ~ok => unread = {}
          /\ c' = [c EXCEPT !.pc = "console", !.selected = selected,
                            !.logged = @ \cup (IF ok THEN {} ELSE {"default"})
                                         \cup (IF unread = {} THEN {} ELSE {"unread"})
                                         \cup (IF prefixed = {} THEN {} ELSE {"prefixed"})]
          /\ g' = IF selected = NoKernel THEN g
                  ELSE CASE DetectFirst = "bls" -> Wrote(SetDefaultBLS(g, selected.ver, unread, ok))
                         [] DetectFirst = "grub2" -> Wrote(SetDefaultGrub2(g, ok))
                         [] OTHER -> g
  /\ UNCHANGED <<out, runs>>

\* AddKernelArg and RemoveKernelArg edit the BLS entries, or the grub defaults
\* and then grub.cfg.
EditArgsBLS(x) == Wrote(x)
EditArgsGrub2(x, ok) == Wrote(RegenerateConfig(x, ok))
EditArgs(x, ok) ==
  CASE DetectFirst = "bls" -> EditArgsBLS(x)
    [] DetectFirst = "grub2" -> EditArgsGrub2(x, ok)
    [] OTHER -> x

\* Without a boot loader there is nothing to edit; failures are logged.
Logged(what, ok, block) == c' = [c EXCEPT !.pc = block, !.logged = IF ok THEN @ ELSE @ \cup {what}]
ConfigureConsole ==
  /\ At("linux", "console")
  /\ \E ok \in BOOLEAN :
       /\ DetectFirst = "none" => ok
       /\ Try(ok) /\ g' = EditArgs(g, ok) /\ Logged("args", ok, "display")
  /\ UNCHANGED <<out, runs>>

\* xorg.conf with a driver of the source gets the modesetting driver.
ConfigureXorgDriver(x, ok) == IF x.xorg = "source" /\ ok THEN Wrote([x EXCEPT !.xorg = "modesetting"]) ELSE x

ConfigureDisplay ==
  /\ At("linux", "display")
  /\ \E ok, xorg \in BOOLEAN :
       /\ (DetectFirst = "none" => ok) /\ (g.xorg # "source" => xorg)
       /\ Failing((IF ok THEN 0 ELSE 1) + (IF xorg THEN 0 ELSE 1))
       /\ g' = ConfigureXorgDriver(EditArgs(g, ok), xorg) /\ Logged("args", ok, "cleanup")
  /\ UNCHANGED <<out, runs>>

-----------------------------------------------------------------------------
(* Block 6: device names *)

\* fstab and crypttab are always written; in crypttab the UUID is preferred
\* when blkid knows the source's device name, on whatever machine it runs.
RemapFile(x, f, name) == IF x.names[f] = "none" THEN x ELSE Wrote([x EXCEPT !.names[f] = name])
RemapCrypttab(x, uuid) == RemapFile(x, "crypttab", IF uuid THEN "uuid" ELSE "virtio")
\* The others are written when a root= or resume= argument changes.
RemapKernelArgs(x, f) == IF x.names[f] = "source" THEN Wrote([x EXCEPT !.names[f] = "virtio"]) ELSE x
RemapGrubDefaults(x) == RemapKernelArgs(x, "grub")
RemapBLSEntries(x) == RemapKernelArgs(x, "bls")

\* Remap stops at the first file it cannot read or write, before file n.
RemapOrder == << "fstab", "crypttab", "grub", "bls" >>
Remap(x, n, uuid) ==
  LET fstab == RemapFile(x, "fstab", "virtio")
      crypttab == RemapCrypttab(fstab, uuid)
      grub == RemapGrubDefaults(crypttab)
  IN << x, fstab, crypttab, grub, RemapBLSEntries(grub) >>[n]
\* Nothing is remapped in a guest without /etc/fstab (Detect).
RemapDevices ==
  /\ At("linux", "remap")
  /\ \/ g.names.fstab = "none" /\ Try(TRUE) /\ g' = g /\ Goto("uefi")
     \/ \E uuid \in BOOLEAN :
          /\ g.names.fstab # "none" /\ (g.names.crypttab = "none" => ~uuid)
          /\ \/ Try(TRUE) /\ g' = Remap(g, 5, uuid) /\ Goto("uefi")
             \/ \E n \in 1..4 :
                  /\ g.names[RemapOrder[n]] # "none" /\ (n < 3 => ~uuid)
                  /\ Try(FALSE) /\ g' = Remap(g, n, uuid) /\ Report({"device-remap"}, "uefi")
  /\ UNCHANGED <<out, runs>>

-----------------------------------------------------------------------------
(* Block 7: UEFI *)

\* The grub-fallback editor copies the guest's loader to EFI/BOOT unless one
\* is there; what fails is logged.
GrubFallback(x, failed) == ConvertAllESPs(x, failed)

FixupUEFI ==
  /\ At("linux", "uefi")
  /\ \/ g.espDevices = {} /\ Try(TRUE) /\ g' = g /\ Goto("select")
     \/ \* fewer than 10 free inodes on /boot/efi
        g.espDevices # {} /\ Try(FALSE) /\ g' = g /\ Report({"uefi/pre-check"}, "select")
     \/ \E failed \in SUBSET g.espDevices :
          /\ g.espDevices # {} /\ Failing(Cardinality(failed))
          /\ g' = GrubFallback(g, failed) /\ Goto("select")
  /\ UNCHANGED <<out, runs>>

-----------------------------------------------------------------------------
(* Block 11: hypervisor tools.  detect: files that reveal them; units: what *)
(* Cleanup disables and masks; removes: the files it removes.               *)

VMware == [name |-> "vmware", detect |-> {"etc/vmware-tools", "bin/vmtoolsd"},
           units |-> {"vmtoolsd", "vgauthd"}, removes |-> {"etc/vmware-tools"}]
Xen == [name |-> "xen", detect |-> {"INITRD_MODULES=xenblk"}, units |-> {}, removes |-> {"INITRD_MODULES=xenblk"}]
Citrix == [name |-> "citrix", detect |-> {"sbin/xe-daemon"}, units |-> {"xe-daemon"}, removes |-> {"sbin/xe-daemon"}]
EC2NetHooks == {"set-hostname-imds", "policy-routes@ens5"}
EC2 == [name |-> "ec2", detect |-> {"bin/amazon-ssm-agent", "datasource_list:Ec2"},
        units |-> {"amazon-ssm-agent"} \cup EC2NetHooks, removes |-> {"datasource_list:Ec2"}]
VirtualBox == [name |-> "virtualbox", detect |-> {"sbin/VBoxService", "VBoxGuestAdditions"},
               units |-> {"vboxadd"}, removes |-> {"VBoxGuestAdditions"}]
HyperV == [name |-> "hyperv", detect |-> {"sbin/hv_kvp_daemon"}, units |-> {"hv-kvp-daemon"}, removes |-> {}]
Kudzu == [name |-> "kudzu", detect |-> {"init.d/kudzu"}, units |-> {"kudzu"}, removes |-> {}]
Nutanix == [name |-> "nutanix", detect |-> {"init.d/ngt_guest_agent"}, units |-> {"ngt_guest_agent"},
            removes |-> {"init.d/ngt_guest_agent"}]
Parallels == [name |-> "parallels", detect |-> {"sbin/prltoolsd", "lib/parallels-tools"},
              units |-> {"prltoolsd"}, removes |-> {"lib/parallels-tools"}]

LinuxCleanups == {VMware, Xen, Citrix, EC2, VirtualBox, HyperV, Kudzu, Nutanix, Parallels}

\* What is assumed of a guest: no converter was here before, an enabled unit of
\* the tools belongs to tools that a file reveals, each of the kernels has its
\* own version and a place for its initramfs, and each BLS entry its own name
\* and the version it boots in its text.
ASSUME LinuxGuestsAssumption ==
  \A x \in LinuxGuests :
    /\ {"os", "selinux", "labelled", "autorelabel", "files", "units", "kept", "script", "unit", "torn",
        "scheduled", "kernels", "names", "entries", "initrd", "backup"} \subseteq DOMAIN x
    /\ x.os = "linux" /\ x.script = << >> /\ x.scheduled = {}
    /\ \A u \in x.units : \E h \in LinuxCleanups : u \in h.units /\ h.detect \cap x.files # {}
    /\ x.kernels \subseteq [ver : Nat \ {0}, release : Nat \ {0}, path : BOOLEAN, xen : BOOLEAN, virtio : BOOLEAN]
    /\ IsFiniteSet(x.kernels) /\ \A k, l \in x.kernels : k.ver = l.ver => k = l
    /\ {k.ver : k \in x.kernels} \subseteq DOMAIN x.initrd
    /\ {"fstab", "crypttab", "grub", "bls", "cfg"} \subseteq DOMAIN x.names
    /\ x.entries \subseteq [name : Nat, zero : BOOLEAN, kernel : Nat, mentions : SUBSET Nat]
    /\ x.entries = {} <=> x.names.bls = "none"
    /\ \A d, e \in x.entries : e.kernel \in e.mentions /\ (d.name = e.name => d = e)

\* As if the loop over the plugins ended at the first one that matches.
Detect_First(h) == c.done = {} /\ h.detect \cap g.files # {}

Detect(h) == h.detect \cap g.files # {}

\* Removing the links of a unit and masking it; a failure is logged.
DisableSystemdUnit(x, units, kept) ==
  [x EXCEPT !.units = @ \ (units \ kept), !.kept = (@ \ units) \cup (kept \cap x.units)]

\* schedulePkgRemove: a unit of its own removes the packages at first boot.
SchedulePkgRemove(x, ok) == [x EXCEPT !.removal = @ \/ ok]

\* Every Cleanup returns nil: what fails is logged, and the rest is done.
Cleanup(h) ==
  /\ h.name \notin c.done /\ Detect(h)
  /\ \E kept \in {{}} \cup {{u} : u \in h.units \cap g.units}, removed, scheduled \in BOOLEAN :
       /\ Failing(Cardinality(kept) + (IF removed THEN 0 ELSE 1) + (IF scheduled THEN 0 ELSE 1))
       /\ h.name # "vmware" => scheduled
       /\ h.removes \cap g.files = {} => removed
       /\ LET x == Wrote(DisableSystemdUnit(g, h.units, kept))
              y == IF removed THEN [x EXCEPT !.files = @ \ h.removes] ELSE x
          IN g' = IF h.name = "vmware" THEN SchedulePkgRemove(y, scheduled) ELSE y
  /\ Visit(h.name)

CleanHypervisors ==
  /\ At("linux", "cleanup")
  /\ \/ \E h \in LinuxCleanups : Cleanup(h)
     \/ /\ \A h \in LinuxCleanups : ~Detect(h) \/ h.name \in c.done
        /\ c' = [c EXCEPT !.pc = "network", !.done = {}] /\ UNCHANGED <<g, faults>>
  /\ UNCHANGED <<out, runs>>

-----------------------------------------------------------------------------
(* First boot.  script is the list of commands of kc-firstboot.sh with the *)
(* lines that disable the unit at "tail"; << >> when there is no script.   *)

\* As if the commands were appended at the end.
AppendCommands_AtEnd(s, cmd) == Append(s, cmd)

\* appendCommands: in front of the first line that disables the unit.
AppendCommands(s, cmd) ==
  LET i == CHOOSE i \in DOMAIN s : s[i] = "tail" /\ \A j \in 1..(i - 1) : s[j] # "tail"
  IN InsertAt(s, i, cmd)

\* Install: how it ends is "ok", "script" (the script is not written) or
\* "unit" (it is, and the unit that runs it is not).  The unit is written
\* only together with a new script.
InstallResults == {"ok", "script"} \cup (IF g.script = << >> THEN {"unit"} ELSE {})
Install(x, cmd, r) ==
  LET y == [Wrote(x) EXCEPT !.scheduled = IF r = "ok" THEN @ \cup {cmd} ELSE @] IN
  CASE r = "script" -> Wrote(x)
    [] r # "script" /\ x.script # << >> -> [y EXCEPT !.script = AppendCommands(@, cmd)]
    [] OTHER -> [y EXCEPT !.script = << cmd, "tail" >>, !.unit = r = "ok", !.torn = @ \/ r = "unit"]

-----------------------------------------------------------------------------
(* Blocks 11 to 13, 15: network, guest agent, clean-up, static addresses *)

\* networkd.Detect: the profile or the release of Amazon, or networkd enabled
\* where NetworkManager is masked or not enabled
NetworkdDetect ==
  g.networkd.amazon \/ (g.networkd.enabled /\ (g.networkd.nmMasked \/ ~g.networkd.nmEnabled))

\* The DHCP profile and the wait-online drop-in
InstallKubeVirtNetworking(x) == Wrote(x)

KubeVirtNetworking ==
  /\ At("linux", "network")
  /\ \/ Try(TRUE) /\ c' = [c EXCEPT !.pc = "agent", !.networkd = NetworkdDetect]
     \/ /\ NetworkdDetect /\ Try(FALSE)
        /\ c' = [c EXCEPT !.pc = "agent", !.networkd = TRUE, !.errors = @ \cup {"networkd"}]
  /\ g' = IF NetworkdDetect THEN InstallKubeVirtNetworking(g) ELSE g
  /\ UNCHANGED <<out, runs>>

Format(distro) == IF distro \in {"debian", "ubuntu"} THEN "deb" ELSE "rpm"

\* The EL release whose packages the guest takes; 0 when it is not known
LocalPackageMajorVersion(distro, major) ==
  CASE distro = "amzn" -> IF major = 2 THEN 7 ELSE 9
    [] distro = "fedora" -> 0
    [] OTHER -> major

\* The releases of the packages at hand that are not newer than the guest's,
\* and all when the guest's is unknown.
ElMajorCandidates(want, supported) == IF want = 0 THEN supported ELSE {m \in supported : m <= want}
FindBestEL == ElMajorCandidates(LocalPackageMajorVersion(g.distro, g.major), g.agent.supported) # {}
FindPackages == (Format(g.distro) = "rpm" /\ FindBestEL) \/ g.agent.flat

\* The repositories of Amazon Linux 2023 do not have the agent.
NetworkAvailable == ~g.agent.offline /\ ~(g.distro = "amzn" /\ g.major >= 2023)

\* A local package, copied into the guest, else one from the network; failures
\* are logged.
AgentCommands(copied) == IF (FindPackages /\ copied) \/ NetworkAvailable THEN {"agent"} ELSE {}

InstallAgent ==
  /\ At("linux", "agent")
  /\ \/ g.agent.present /\ Try(TRUE) /\ g' = g
     \/ /\ ~g.agent.present
        /\ \E copied \in BOOLEAN, r \in InstallResults :
             /\ ~FindPackages => copied
             /\ AgentCommands(copied) = {} => r = "ok"
             /\ Failing((IF copied THEN 0 ELSE 1) + (IF r = "ok" THEN 0 ELSE 1))
             /\ g' = IF AgentCommands(copied) = {} THEN g ELSE Install(g, "agent", r)
  /\ Goto("tidy")
  /\ UNCHANGED <<out, runs>>

\* Caches of device names and rpm's locks, and aliases of kernel modules
Clean(x, ok) == [x EXCEPT !.caches = @ /\ ~ok]
ConfigureAliases(x, ok) == [x EXCEPT !.aliases = IF ok THEN "virtio" ELSE @]

\* guestcleanup.Run; failures are logged.
GuestCleanup ==
  /\ At("linux", "tidy")
  /\ \E removed, written \in BOOLEAN :
       /\ Failing((IF removed THEN 0 ELSE 1) + (IF written THEN 0 ELSE 1))
       /\ g' = Wrote(ConfigureAliases(Clean(g, removed), written))
  /\ Goto("initramfs")
  /\ UNCHANGED <<out, runs>>

\* The namers.  net has a record for each file of a network configuration or
\* lease in which the static address stands; a namer takes the first one, in
\* the order of the directory, of those that name a device.
Named(kind) == {f \in g.net : f.kind = kind /\ f.dev # "none"}
Ifcfg == {f \in Named("ifcfg") : f.dev # "lo"}
NM == Named("nm")
Netplan == Named("netplan")
Dhclient == Named("dhclient")
Wicked == Named("wicked")
\* NetworkManager's leases: the connection that was used last
Nmdhcp == {f \in Named("nmdhcp") : \A h \in Named("nmdhcp") : h.time <= f.time}
Namers == Ifcfg \cup NM \cup Netplan \cup Dhclient \cup Wicked \cup Nmdhcp

\* An existing udev rule stays; the .link file is written all the same.
WriteUdevRules(x, dev) == [x EXCEPT !.udev = IF @ = "none" THEN dev ELSE @]
WriteSystemdLinks(x, dev) == [x EXCEPT !.links = @ \cup {dev}]

\* nicnaming.Apply: of two names for the same MAC the one met first is kept.
NameNICs ==
  /\ At("linux", "static")
  /\ g.static /\ ~c.networkd /\ "nicnaming" \notin c.done
  /\ \/ Namers = {} /\ Try(TRUE) /\ g' = g /\ Visit("nicnaming")
     \/ \E f \in Namers :
          /\ Try(TRUE) /\ Visit("nicnaming")
          /\ g' = Wrote(WriteSystemdLinks(WriteUdevRules(g, f.dev), f.dev))
     \/ /\ Namers # {} /\ Try(FALSE) /\ g' = g
        /\ c' = [c EXCEPT !.done = @ \cup {"nicnaming"}, !.errors = @ \cup {"nic-naming"}]
  /\ UNCHANGED <<out, runs>>

\* networkd's profiles, or macToIP and the first-boot command that reads it
WriteStaticNetworks(x) == Wrote([x EXCEPT !.profiles = TRUE])
WriteMacToIP(x) == [x EXCEPT !.macToIP = TRUE]

ConfigureStaticIPs ==
  /\ At("linux", "static")
  /\ \/ ~g.static /\ Try(TRUE) /\ g' = g /\ Goto("relabel")
     \/ g.static /\ c.networkd /\ Try(TRUE) /\ g' = WriteStaticNetworks(g) /\ Goto("relabel")
     \/ g.static /\ c.networkd /\ Try(FALSE) /\ g' = g /\ Report({"static-ip"}, "relabel")
     \/ /\ g.static /\ ~c.networkd /\ "nicnaming" \in c.done
        /\ \/ Try(FALSE) /\ g' = g /\ Report({"static-ip"}, "relabel")
           \/ \E r \in InstallResults :
                /\ Try(r = "ok") /\ g' = Install(WriteMacToIP(g), "static", r)
                /\ Report(IF r = "ok" THEN {} ELSE {"static-ip"}, "relabel")
  /\ UNCHANGED <<out, runs>>

-----------------------------------------------------------------------------
(* Block 14: the initramfs, the only fatal block *)

\* As if the image were only looked for.
VerifyInitramfsRebuilt_Exists(backup, image) == backup = NoImage \/ image # NoImage

\* verifyInitramfsRebuilt: only the sizes are compared, and without a backup
\* nothing is.
VerifyInitramfsRebuilt(backup, image) == backup = NoImage \/ (image # NoImage /\ image.size # backup.size)

Image(k, size) == [virtio |-> k.virtio, size |-> size]
\* What dracut leaves: a new image, the old one though it exits 0, or, when it
\* fails or reports FAILED, the old one or one without the drivers.
DracutResults(k, old) ==
  {[err |-> FALSE, image |-> Image(k, n), cost |-> 0] : n \in IF g.dracut /\ k.virtio THEN {1, 2} ELSE {}}
  \cup {[err |-> FALSE, image |-> old, cost |-> 1] : n \in IF g.dracut THEN {1} ELSE {}}
  \cup {[err |-> TRUE, image |-> old, cost |-> IF g.dracut /\ k.virtio THEN 1 ELSE 0]}
  \cup {[err |-> TRUE, image |-> [virtio |-> FALSE, size |-> 1], cost |-> 1] : n \in IF g.dracut THEN {1} ELSE {}}

\* Debian's tools, tried when dracut failed: the list of modules is written,
\* then update-initramfs, then mkinitramfs; their word is taken.
InitramfsTools(k, old) ==
  {[err |-> FALSE, image |-> Image(k, 3), cost |-> n] : n \in {0, 1}} \cup {[err |-> TRUE, image |-> old, cost |-> 2]}

\* How the rebuild can end.  The image that dracut made is compared with the
\* backup, unless that cannot be read; verified says that it was, and that it
\* is the image of before.
Rebuilds(k, old, backup) ==
  LET results == DracutResults(k, old)
      built == {r \in results : ~r.err}
      broken == results \ built
      End(image, ok, verified, cost) == [image |-> image, ok |-> ok, verified |-> verified, cost |-> cost]
  IN {End(r.image, VerifyInitramfsRebuilt(backup, r.image), backup # NoImage, r.cost) : r \in built}
     \cup {End(r.image, TRUE, FALSE, r.cost + 1) : r \in IF backup = NoImage THEN {} ELSE built}
     \cup {End(r.image, FALSE, TRUE, r.cost) : r \in IF g.initramfsTools THEN {} ELSE broken}
     \cup UNION {{End(t.image, ~t.err, TRUE, r.cost + t.cost) : t \in InitramfsTools(k, r.image)} :
                   r \in IF g.initramfsTools THEN broken ELSE {}}

\* A backup of an earlier run stays when copying fails.
InjectVirtioModules ==
  /\ At("linux", "initramfs")
  /\ c.selected # NoKernel
  /\ \E copied \in BOOLEAN :
       LET v == c.selected.ver
           old == g.initrd[v]
           backup == IF old # NoImage /\ copied THEN old ELSE g.backup[v]
       IN /\ old = NoImage => copied
          /\ \E r \in Rebuilds(c.selected, old, backup) :
               /\ Failing(r.cost + IF copied THEN 0 ELSE 1)
               /\ g' = Wrote([g EXCEPT !.initrd[v] = r.image, !.backup[v] = backup])
               /\ c' = [c EXCEPT !.pc = IF r.ok THEN "static" ELSE "failed",
                                 !.logged = IF copied /\ r.verified THEN @ ELSE @ \cup {"unverified"}]
  /\ UNCHANGED <<out, runs>>

SkipInitramfs ==
  /\ At("linux", "initramfs")
  /\ c.selected = NoKernel
  /\ Goto("static")
  /\ UNCHANGED <<g, out, faults, runs>>

-----------------------------------------------------------------------------
(* Blocks 16 and 17: SELinux, capabilities, output *)

\* As if the result of setfiles were not looked at.
Relabel_Assumed ==
  /\ At("linux", "relabel")
  /\ \E ok \in BOOLEAN : Try(ok) /\ g' = [g EXCEPT !.labelled = ok, !.autorelabel = FALSE]
  /\ c' = [c EXCEPT !.pc = "output", !.relabeled = g.selinux = "enforcing"]
  /\ UNCHANGED <<out, runs>>

\* Relabel: setfiles over all mount points, then /.autorelabel is removed.
\* A failure is logged: finalize will write /.autorelabel.
Relabel ==
  /\ At("linux", "relabel")
  /\ \/ g.selinux # "enforcing" /\ Try(TRUE) /\ g' = g /\ Goto("output")
     \/ g.selinux = "enforcing" /\ Try(FALSE) /\ g' = g /\ Goto("output")
     \/ /\ g.selinux = "enforcing"
        /\ Try(TRUE)
        /\ g' = [g EXCEPT !.labelled = TRUE, !.autorelabel = FALSE]
        /\ c' = [c EXCEPT !.pc = "output", !.relabeled = TRUE]
  /\ UNCHANGED <<out, runs>>
\* guestcaps.Build: virtio, unless the selected kernel is known to lack it
BuildLinux == IF c.selected # NoKernel /\ ~c.selected.virtio THEN "ide" ELSE "virtio"

WriteLinux ==
  /\ At("linux", "output")
  /\ \/ /\ Try(TRUE) /\ Goto("finalize")
        /\ out' = [published |-> TRUE, bus |-> BuildLinux, errors |-> c.errors, relabeled |-> c.relabeled]
     \/ Try(FALSE) /\ Fatal /\ UNCHANGED out
  /\ UNCHANGED <<g, runs>>

LinuxNext ==
  \/ AttachLinux \/ Scan \/ RemapDevices \/ FixupUEFI \/ SelectKernel \/ ConfigureConsole \/ ConfigureDisplay
  \/ CleanHypervisors \/ KubeVirtNetworking \/ InstallAgent \/ GuestCleanup
  \/ InjectVirtioModules \/ SkipInitramfs \/ NameNICs \/ ConfigureStaticIPs \/ Relabel \/ WriteLinux
=============================================================================
