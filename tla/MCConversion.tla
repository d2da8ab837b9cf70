--------------------------- MODULE MCConversion ---------------------------
(* Guests that between them have every kind of kernel, boot loader, tools,  *)
(* network set-up, version and driver tree that the converters tell apart.  *)
EXTENDS Conversion, TLC

\* The kernel whose version string is the greater one, 2, need not be the later
\* release: think of 5.9 and 5.14.
K(ver, release, xen, virtio) ==
  [ver |-> ver, release |-> release, path |-> TRUE, xen |-> xen, virtio |-> virtio]
Kernels == << {K(1, 2, FALSE, TRUE), K(2, 1, FALSE, TRUE)},      \* both will do, the later one is passed over
              {K(1, 1, FALSE, TRUE), K(2, 2, FALSE, FALSE)},     \* the newer one lacks virtio
              {K(1, 1, FALSE, FALSE), K(2, 2, TRUE, FALSE)},     \* a Xen kernel, and no virtio at all
              {[K(2, 2, FALSE, TRUE) EXCEPT !.path = FALSE], K(1, 1, FALSE, TRUE)} >>   \* modules without an image

\* An entry for each kernel, a rescue entry before them that was made from
\* kernel 2, an administrator's entry that has the prefix
B(name, kernel, mentions) == [name |-> name, zero |-> FALSE, kernel |-> kernel, mentions |-> mentions]
Own == {B(2, 1, {1}), B(3, 2, {2})}
Entries(p) ==
  CASE p.uefi -> Own
    [] p.dracut /\ ~p.uefi -> Own \cup {B(1, 9, {2, 9})}
    [] OTHER -> {B(2, 1, {1, 2}), [B(3, 2, {2}) EXCEPT !.zero = TRUE]}

Loaders == << "bls", "grub2", "none" >>
Names(loader, crypt) ==
  [fstab |-> IF loader = "none" THEN "none" ELSE "source", crypttab |-> IF crypt THEN "source" ELSE "none",
   grub |-> IF loader = "none" THEN "none" ELSE "source", bls |-> IF loader = "bls" THEN "source" ELSE "none",
   cfg |-> IF loader = "grub2" THEN "source" ELSE "none"]

Agent(present, flat, offline) == [present |-> present, supported |-> {8, 9}, flat |-> flat, offline |-> offline]
Networkd(amazon, enabled, nm, masked) ==
  [amazon |-> amazon, enabled |-> enabled, nmEnabled |-> nm, nmMasked |-> masked]
F(kind, dev, time) == [kind |-> kind, dev |-> dev, time |-> time]

\* The tools in a guest, with how it is set up otherwise
Profiles == <<
  [tools |-> {VMware}, networkd |-> Networkd(FALSE, TRUE, TRUE, FALSE), static |-> TRUE,
   net |-> {F("ifcfg", "eth0", 0), F("ifcfg", "lo", 0), F("nmdhcp", "ens192", 2), F("nmdhcp", "ens3", 1)},
   selinux |-> "enforcing", distro |-> "rhel", major |-> 9, agent |-> Agent(FALSE, FALSE, FALSE),
   uefi |-> TRUE, dracut |-> TRUE, debian |-> FALSE, old |-> TRUE],
  [tools |-> {Xen, EC2}, networkd |-> Networkd(TRUE, TRUE, FALSE, FALSE), static |-> TRUE, net |-> {},
   selinux |-> "none", distro |-> "ubuntu", major |-> 22, agent |-> Agent(FALSE, TRUE, TRUE),
   uefi |-> FALSE, dracut |-> FALSE, debian |-> TRUE, old |-> TRUE],
  [tools |-> {Citrix, VirtualBox}, networkd |-> Networkd(FALSE, FALSE, FALSE, FALSE), static |-> FALSE, net |-> {},
   selinux |-> "enforcing", distro |-> "amzn", major |-> 2, agent |-> Agent(FALSE, FALSE, TRUE),
   uefi |-> FALSE, dracut |-> TRUE, debian |-> TRUE, old |-> FALSE],
  [tools |-> {HyperV, Kudzu}, networkd |-> Networkd(FALSE, FALSE, FALSE, FALSE), static |-> TRUE,
   net |-> {F("ifcfg", "lo", 0), F("nm", "none", 0)},
   selinux |-> "disabled", distro |-> "rhel", major |-> 7, agent |-> Agent(TRUE, FALSE, FALSE),
   uefi |-> FALSE, dracut |-> TRUE, debian |-> FALSE, old |-> TRUE],
  [tools |-> {Nutanix, Parallels}, networkd |-> Networkd(FALSE, TRUE, TRUE, TRUE), static |-> FALSE, net |-> {},
   selinux |-> "none", distro |-> "fedora", major |-> 39, agent |-> Agent(FALSE, FALSE, TRUE),
   uefi |-> TRUE, dracut |-> FALSE, debian |-> FALSE, old |-> TRUE] >>

LinuxGuest(ks, loader, p) ==
  [os |-> "linux", kernels |-> ks,
   initrd |-> [v \in {1, 2} |-> IF p.old THEN [virtio |-> FALSE, size |-> 5] ELSE NoImage],
   backup |-> [v \in {1, 2} |-> NoImage],
   names |-> Names(loader, p.uefi), entries |-> IF loader = "bls" THEN Entries(p) ELSE {},
   espDevices |-> IF p.uefi THEN {"/dev/sda1"} ELSE {},
   efi |-> [esp \in IF p.uefi THEN {"/boot/efi"} ELSE {} |-> FALSE],
   files |-> UNION {h.detect : h \in p.tools}, units |-> UNION {h.units : h \in p.tools}, kept |-> {},
   removal |-> FALSE, script |-> << >>, unit |-> FALSE, torn |-> FALSE, scheduled |-> {},
   networkd |-> p.networkd, agent |-> p.agent, aliases |-> "source", caches |-> TRUE, static |-> p.static, net |-> p.net,
   distro |-> p.distro, major |-> p.major, xorg |-> IF p.uefi THEN "source" ELSE "none",
   udev |-> "none", links |-> {}, profiles |-> FALSE, macToIP |-> FALSE,
   dracut |-> p.dracut, initramfsTools |-> p.debian,
   selinux |-> p.selinux, labelled |-> TRUE, autorelabel |-> FALSE, hostname |-> p.static, dynamic |-> p.uefi]

\* Half of the combinations: every two of kernels, loader and profile meet.
MCLinuxGuests ==
  {LinuxGuest(Kernels[i[1]], Loaders[i[2]], Profiles[i[3]]) :
     i \in {j \in (1..4) \X (1..3) \X (1..5) : (j[1] + j[2] + j[3]) % 2 = 0}}

\* A package with the .sys file that its .inf names for amd64, or without it
P(name, complete) == [name |-> name, files |-> {name \o ".inf"} \cup IF complete THEN {name \o ".sys"} ELSE {},
                      needs |-> {[arch |-> "any", file |-> name \o ".inf"], [arch |-> "amd64", file |-> name \o ".sys"]}]
All == {P("viostor", TRUE), P("vioscsi", TRUE)}
Part == {P("viostor", FALSE), P("vioscsi", TRUE)}
ByOS(w11, w10) == [w11 |-> w11, w10 |-> w10, w7 |-> All, vista |-> All, xp |-> Part] @@ ("2k3" :> All) @@ ("2k8R2" :> All)
Virtio(drivers) == [drivers |-> drivers, agent |-> {P("qemu-ga", TRUE)}]
Trees == [all |-> Virtio([amd64 |-> ByOS(All, All)]), part |-> Virtio([amd64 |-> ByOS(Part, Part)]),
          none |-> Virtio([amd64 |-> [w10 |-> All], x86_64 |-> ByOS(All, All)])]     \* amd64 hides x86_64
Options == [full |-> [static |-> TRUE, offline |-> FALSE, manyIPs |-> TRUE, removeVMware |-> TRUE, signal |-> TRUE],
            bare |-> [static |-> FALSE, offline |-> TRUE, manyIPs |-> FALSE, removeVMware |-> FALSE, signal |-> FALSE]]

\* keys: whether the tools left their uninstall keys
WindowsGuest(product, tools, keys, tree, options) ==
  LET uninstall == IF keys THEN UNION {h.keys : h \in tools} ELSE {}
      names == {h.name : h \in tools}
      services == {"viostor", "storflt"} \cup UNION {h.stops \cup h.services : h \in tools}
                  \cup (IF "vmware" \in names THEN VMwareServices ELSE {})
                  \cup (IF "nutanix" \in names THEN NutanixServices ELSE {})
                  \cup (IF "virtualbox" \in names THEN VBoxServices ELSE {})
      uefi == product \in {"win11", "server2022"}
  IN [os |-> "windows", product |-> product, arch |-> "amd64", virtio |-> Trees[tree], options |-> Options[options],
      files |-> UNION {h.evidence \cup h.removes : h \in tools},
      system |-> [whole |-> TRUE, services |-> services, enabled |-> services \ {"viostor"}, boot |-> {},
                  criticalDB |-> {}, driverDB |-> {}, autoReboot |-> TRUE, filters |-> UNION {h.filters : h \in tools}],
      software |-> [whole |-> TRUE, keys |-> uninstall, devicePath |-> FALSE, runOnce |-> FALSE],
      tools |-> names, installed |-> uninstall,
      staged |-> {}, sys |-> {}, lost |-> {}, scripts |-> {}, launcher |-> FALSE, heads |-> FALSE,
      espDevices |-> IF uefi THEN {"/dev/sda1"} ELSE {},
      efi |-> [esp \in IF uefi THEN {"/boot/efi"} ELSE {} |-> TRUE],
      hostname |-> options = "full", dynamic |-> options = "full"]

MCWindowsGuests == {
  WindowsGuest("server2022", {VMwareRemove}, TRUE, "all", "full"),
  WindowsGuest("win10", {AWSPV, EC2Cleanup, EC2Launch}, TRUE, "all", "bare"),
  WindowsGuest("win11", {AWSPV}, FALSE, "part", "bare"),
  WindowsGuest("win7", {VMwareRemove, HyperVRemove}, TRUE, "all", "full"),
  WindowsGuest("server2008", {CitrixTools, AWSPV}, TRUE, "all", "full"),
  WindowsGuest("vista", {ParallelsTools}, FALSE, "all", "full"),
  WindowsGuest("server2003", {VBoxAdditions, NutanixRemove}, TRUE, "all", "full"),
  WindowsGuest("xp", {VMwareRemove, ParallelsTools}, TRUE, "part", "full"),
  WindowsGuest("win7", {}, TRUE, "none", "bare") }
=============================================================================
