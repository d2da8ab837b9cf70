-------------------------- MODULE Conversion_proofs --------------------------
(***************************************************************************)
(* Proofs about Conversion for every set of guests that satisfies          *)
(* LinuxGuestsAssumption and WindowsGuestsAssumption, any number of faults *)
(* and any number of runs: the five invariants that MCConversion checks.   *)
(*                                                                         *)
(* A conversion is that of a Linux guest or of a Windows guest, and the    *)
(* invariant has a part for each.  Linux: where the converter is relative  *)
(* to setfiles (Labels), that an enabled unit still has tools that reveal  *)
(* themselves (Units), and the form of the first-boot script (ScriptsOK);  *)
(* on top of it, what the guest boots from (BootInv): the sorted list of   *)
(* kernels, the best of it, the names in the files and the initramfs, each *)
(* from the block on that establishes it.  What Best computes is shown by  *)
(* taking the least prefix of the list for which it would be wrong.        *)
(* Windows: for each product, where its traces are, in the hive on the     *)
(* disk, in the host's copy or in files (Tools), and what the copied       *)
(* drivers and the scripts promise before and after the hives are saved.   *)
(***************************************************************************)
EXTENDS Conversion, SequenceTheorems, FiniteSetTheorems, WellFoundedInduction, TLAPS

-----------------------------------------------------------------------------
(* Linux *)

\* What the properties look at in a guest, apart from its labels
Watched == {"os", "selinux", "autorelabel", "files", "units", "kept", "script", "unit", "torn", "scheduled"}
LinuxRecord(x) == Watched \cup {"labelled"} \subseteq DOMAIN x /\ x.os = "linux"

\* y is x with other files edited
Edited(x, y) == LinuxRecord(y) /\ \A f \in Watched : y[f] = x[f]

Process == {"pc", "errors", "done", "logged", "relabeled"}

Early == {"attach", "scan", "remap", "uefi", "select", "console", "display"}
Late == {"network", "agent", "tidy", "initramfs", "static", "relabel"}
Converting == Early \cup {"cleanup"} \cup Late \cup {"output"}
Finalizing == {"finalize", "customize", "done"}

\* Editing other files composes.
LEMMA Edits ==
  ASSUME NEW x, LinuxRecord(x)
  PROVE  /\ Edited(x, x)
         /\ \A y, z : Edited(x, y) /\ Edited(y, z) => Edited(x, z)
         /\ \A f, v : f \notin Watched => Edited(x, [x EXCEPT ![f] = v])
         /\ Edited(x, Wrote(x))
BY DEF Edited, LinuxRecord, Watched, Wrote

\* Each of these only edits files that no property looks at.
LEMMA EditingHelpers ==
  ASSUME NEW x, LinuxRecord(x)
  PROVE  /\ \A ok : Edited(x, RegenerateConfig(x, ok))
         /\ \A v, unread, ok : Edited(x, SetDefaultBLS(x, v, unread, ok))
         /\ \A ok : Edited(x, SetDefaultGrub2(x, ok))
         /\ \A ok : Edited(x, EditArgs(x, ok))
         /\ \A ok : Edited(x, ConfigureXorgDriver(x, ok))
         /\ \A f, n : Edited(x, RemapFile(x, f, n))
         /\ \A u : Edited(x, RemapCrypttab(x, u))
         /\ Edited(x, RemapGrubDefaults(x)) /\ Edited(x, RemapBLSEntries(x))
         /\ \A F : Edited(x, GrubFallback(x, F))
         /\ \A d : Edited(x, WriteUdevRules(x, d)) /\ Edited(x, WriteSystemdLinks(x, d))
         /\ \A ok : Edited(x, Clean(x, ok)) /\ Edited(x, ConfigureAliases(x, ok))
         /\ Edited(x, InstallKubeVirtNetworking(x)) /\ Edited(x, WriteStaticNetworks(x))
         /\ Edited(x, WriteMacToIP(x))
<1>1. /\ \A ok : Edited(x, RegenerateConfig(x, ok))
      /\ \A v, unread, ok : Edited(x, SetDefaultBLS(x, v, unread, ok))
      /\ \A ok : Edited(x, SetDefaultGrub2(x, ok))
  BY DEF Edited, LinuxRecord, Watched, RegenerateConfig, SetDefaultBLS, SetDefaultGrub2
<1>2. \A ok : Edited(x, EditArgs(x, ok))
  BY <1>1 DEF EditArgs, EditArgsBLS, EditArgsGrub2, Wrote, Edited, LinuxRecord, Watched
<1>3. \A ok : Edited(x, ConfigureXorgDriver(x, ok))
  BY DEF ConfigureXorgDriver, Wrote, Edited, LinuxRecord, Watched
<1>4. \A f, n : Edited(x, RemapFile(x, f, n))
  BY DEF RemapFile, Wrote, Edited, LinuxRecord, Watched
<1>5. Edited(x, RemapGrubDefaults(x)) /\ Edited(x, RemapBLSEntries(x))
  BY DEF RemapGrubDefaults, RemapBLSEntries, RemapKernelArgs, Wrote, Edited, LinuxRecord, Watched
<1>6. \A F : Edited(x, GrubFallback(x, F))
  BY DEF GrubFallback, ConvertAllESPs, Edited, LinuxRecord, Watched
<1>7. \A d : Edited(x, WriteUdevRules(x, d)) /\ Edited(x, WriteSystemdLinks(x, d))
  BY DEF WriteUdevRules, WriteSystemdLinks, Edited, LinuxRecord, Watched
<1>8. \A ok : Edited(x, Clean(x, ok)) /\ Edited(x, ConfigureAliases(x, ok))
  BY DEF Clean, ConfigureAliases, Edited, LinuxRecord, Watched
<1>9. /\ Edited(x, InstallKubeVirtNetworking(x)) /\ Edited(x, WriteStaticNetworks(x))
      /\ Edited(x, WriteMacToIP(x))
  BY DEF InstallKubeVirtNetworking, WriteStaticNetworks, WriteMacToIP, Wrote, Edited, LinuxRecord, Watched
<1>10. \A u : Edited(x, RemapCrypttab(x, u))
  BY <1>4 DEF RemapCrypttab
<1> QED BY <1>1, <1>2, <1>3, <1>4, <1>5, <1>6, <1>7, <1>8, <1>9, <1>10

\* The blocks that only edit such files
QuietBlocks ==
  RemapDevices \/ FixupUEFI \/ SelectKernel \/ ConfigureConsole \/ ConfigureDisplay \/ KubeVirtNetworking
    \/ GuestCleanup \/ InjectVirtioModules \/ NameNICs

\* The quiet blocks do only that to the guest.
LEMMA QuietBlocksEdit == ASSUME LinuxRecord(g), QuietBlocks PROVE Edited(g, g')
<1>0. Edited(g, g) /\ \A y, z : Edited(g, y) /\ Edited(y, z) => Edited(g, z)
  BY Edits
<1>a. \A y : Edited(g, y) => LinuxRecord(y) /\ Edited(g, Wrote(y))
  BY Edits, <1>0 DEF Edited
<1>1. CASE RemapDevices
  <2>1. \A u : LET a == RemapFile(g, "fstab", "virtio")
                   b == RemapCrypttab(a, u)
                   d == RemapGrubDefaults(b)
               IN  Edited(g, a) /\ Edited(g, b) /\ Edited(g, d) /\ Edited(g, RemapBLSEntries(d))
    BY <1>0, <1>a, EditingHelpers
  <2>2. \A u \in BOOLEAN : \A n \in 1 .. 5 : Edited(g, Remap(g, n, u))
    BY <2>1, <1>0 DEF Remap
  <2>3. g' = g \/ \E u \in BOOLEAN : g' = Remap(g, 5, u) \/ \E n \in 1 .. 4 : g' = Remap(g, n, u)
    BY <1>1, Zenon DEF RemapDevices
  <2>4. 5 \in 1 .. 5 /\ \A n \in 1 .. 4 : n \in 1 .. 5
    OBVIOUS
  <2> QED BY <1>0, <2>2, <2>3, <2>4, Zenon
<1>2. CASE FixupUEFI
  BY <1>2, <1>0, EditingHelpers DEF FixupUEFI
<1>3. CASE SelectKernel
  BY <1>3, <1>0, <1>a, EditingHelpers DEF SelectKernel
<1>4. CASE ConfigureConsole
  BY <1>4, EditingHelpers DEF ConfigureConsole
<1>5. CASE ConfigureDisplay
  BY <1>5, <1>0, <1>a, EditingHelpers DEF ConfigureDisplay
<1>6. CASE KubeVirtNetworking
  BY <1>6, <1>0, EditingHelpers DEF KubeVirtNetworking
<1>7. CASE GuestCleanup
  BY <1>7, <1>0, <1>a, EditingHelpers DEF GuestCleanup
<1>8. CASE InjectVirtioModules
  <2> DEFINE Backup(copied) == IF g.initrd[c.selected.ver] # NoImage /\ copied
                               THEN g.initrd[c.selected.ver] ELSE g.backup[c.selected.ver]
  <2>1. PICK copied \in BOOLEAN :
          \E r \in Rebuilds(c.selected, g.initrd[c.selected.ver], Backup(copied)) :
            g' = Wrote([g EXCEPT !.initrd[c.selected.ver] = r.image, !.backup[c.selected.ver] = Backup(copied)])
    BY <1>8 DEF InjectVirtioModules
  <2> HIDE DEF Backup
  <2> QED BY <2>1 DEF Wrote, Edited, LinuxRecord, Watched
<1>9. CASE NameNICs
  BY <1>9, <1>0, <1>a, EditingHelpers DEF NameNICs
<1> QED BY <1>1, <1>2, <1>3, <1>4, <1>5, <1>6, <1>7, <1>8, <1>9 DEF QuietBlocks

-----------------------------------------------------------------------------
(* The first-boot script *)

Commands == {"agent", "static", "dynamic", "tail"}
FirstTail(s, i) == s[i] = "tail" /\ \A j \in 1 .. (i - 1) : s[j] # "tail"
InFront(s, cmd) == \E i \in 1 .. Len(s) : s[i] = cmd /\ \A j \in 1 .. i : s[j] # "tail"

\* What concatenation does to two sequences.
LEMMA ConcatFacts ==
  ASSUME NEW p \in Seq(Commands), NEW q \in Seq(Commands)
  PROVE  /\ p \o q \in Seq(Commands) /\ Len(p \o q) = Len(p) + Len(q)
         /\ \A j \in 1 .. Len(p) : (p \o q)[j] = p[j]
         /\ \A j \in 1 .. Len(q) : (p \o q)[Len(p) + j] = q[j]
<1>1. /\ p \o q \in Seq(Commands) /\ Len(p \o q) = Len(p) + Len(q)
      /\ \A i \in 1 .. Len(p) + Len(q) : (p \o q)[i] = IF i <= Len(p) THEN p[i] ELSE q[i - Len(p)]
  BY ConcatProperties, Zenon
<1>2. Len(p) \in Nat /\ Len(q) \in Nat
  OBVIOUS
<1>3. ASSUME NEW j \in 1 .. Len(p) PROVE (p \o q)[j] = p[j]
  <2>1. j \in 1 .. Len(p) + Len(q) /\ j <= Len(p)
    BY <1>2
  <2> QED BY <2>1, <1>1
<1>4. ASSUME NEW j \in 1 .. Len(q) PROVE (p \o q)[Len(p) + j] = q[j]
  <2>1. Len(p) + j \in 1 .. Len(p) + Len(q) /\ ~(Len(p) + j <= Len(p)) /\ Len(p) + j - Len(p) = j
    BY <1>2
  <2> QED BY <2>1, <1>1
<1> QED BY <1>1, <1>3, <1>4

Inserted(s, i, e) == SubSeq(s, 1, i - 1) \o <<e>> \o SubSeq(s, i, Len(s))

\* What InsertAt does to a sequence.
LEMMA InsertAtFacts ==
  ASSUME NEW s \in Seq(Commands), NEW i \in 1 .. Len(s), NEW e \in Commands
  PROVE  LET t == Inserted(s, i, e) IN
         /\ t \in Seq(Commands) /\ Len(t) = Len(s) + 1 /\ t[i] = e /\ t[i + 1] = s[i]
         /\ \A j \in 1 .. (i - 1) : t[j] = s[j]
<1>1. Len(s) \in Nat /\ i \in Nat
  OBVIOUS
<1>0. PICK t : t = Inserted(s, i, e)
  OBVIOUS
<1>2. PICK a, b, w : a = SubSeq(s, 1, i - 1) /\ b = SubSeq(s, i, Len(s)) /\ w = <<e>>
  OBVIOUS
<1>3. a \in Seq(Commands) /\ Len(a) = i - 1 /\ \A j \in 1 .. (i - 1) : a[j] = s[j]
  BY <1>2
<1>4. b \in Seq(Commands) /\ Len(b) = Len(s) - i + 1 /\ b[1] = s[i]
  BY <1>2
<1>5. w \in Seq(Commands) /\ Len(w) = 1 /\ w[1] = e
  BY <1>2
<1>6. PICK v : v = a \o w
  OBVIOUS
<1>7. /\ v \in Seq(Commands) /\ Len(v) = Len(a) + Len(w)
      /\ \A j \in 1 .. Len(a) : v[j] = a[j]
      /\ \A j \in 1 .. Len(w) : v[Len(a) + j] = w[j]
  BY <1>3, <1>5, <1>6, ConcatFacts
<1>8. /\ t \in Seq(Commands) /\ Len(t) = Len(v) + Len(b)
      /\ \A j \in 1 .. Len(v) : t[j] = v[j]
      /\ \A j \in 1 .. Len(b) : t[Len(v) + j] = b[j]
  <2>1. t = v \o b
    BY <1>0, <1>2, <1>6 DEF Inserted
  <2>2. v \in Seq(Commands) /\ b \in Seq(Commands)
    BY <1>4, <1>7
  <2> QED BY <2>1, <2>2, ConcatFacts
<1>9. Len(v) = i /\ i \in 1 .. i /\ 1 \in 1 .. 1 /\ Len(a) + 1 = i /\ Len(t) = Len(s) + 1
  BY <1>1, <1>3, <1>4, <1>5, <1>7, <1>8
<1>10. t[i] = e
  BY <1>5, <1>7, <1>8, <1>9
<1>11. ASSUME NEW j \in 1 .. (i - 1) PROVE t[j] = s[j]
  BY <1>1, <1>3, <1>7, <1>8, <1>9
<1>12. t[i + 1] = s[i]
  <2>1. 1 \in 1 .. Len(b)
    BY <1>1, <1>4
  <2> QED BY <2>1, <1>4, <1>8, <1>9
<1> QED BY <1>0, <1>8, <1>9, <1>10, <1>11, <1>12

\* The script of a guest is empty or has its first line that disables the unit;
\* a unit that runs it was written, or should have been; and what was
\* scheduled stands in front of that line.
ScriptsOK(x) ==
  /\ x.script \in Seq(Commands)
  /\ x.script # << >> => (x.unit \/ x.torn) /\ \E i \in 1 .. Len(x.script) : FirstTail(x.script, i)
  /\ \A cmd \in x.scheduled \ {"dynamic"} : cmd # "tail" /\ InFront(x.script, cmd)

\* appendCommands keeps what is in front of the first such line, and adds cmd.
LEMMA AppendCommandsFacts ==
  ASSUME NEW s \in Seq(Commands), NEW cmd \in Commands \ {"tail"},
         \E i \in 1 .. Len(s) : FirstTail(s, i)
  PROVE  LET t == AppendCommands(s, cmd)
         IN  /\ t \in Seq(Commands) /\ t # << >> /\ InFront(t, cmd)
             /\ \E i \in 1 .. Len(t) : FirstTail(t, i)
             /\ \A d : d # "tail" /\ InFront(s, d) => InFront(t, d)
<1>1. DOMAIN s = 1 .. Len(s) /\ Len(s) \in Nat
  OBVIOUS
<1>2. PICK i : i = CHOOSE n \in DOMAIN s : s[n] = "tail" /\ \A j \in 1..(n - 1) : s[j] # "tail"
  OBVIOUS
<1>3. i \in 1 .. Len(s) /\ FirstTail(s, i)
  BY <1>1, <1>2 DEF FirstTail
<1>4. PICK t : t = AppendCommands(s, cmd)
  OBVIOUS
<1>5. t = Inserted(s, i, cmd)
  BY <1>2, <1>4, Zenon DEF AppendCommands, InsertAt, Inserted
<1>6. /\ t \in Seq(Commands) /\ Len(t) = Len(s) + 1 /\ t[i] = cmd /\ t[i + 1] = s[i]
      /\ \A j \in 1 .. (i - 1) : t[j] = s[j]
  <2>1. cmd \in Commands
    OBVIOUS
  <2>2. i \in 1 .. Len(s)
    BY <1>3
  <2>3. LET u == Inserted(s, i, cmd) IN
        /\ u \in Seq(Commands) /\ Len(u) = Len(s) + 1 /\ u[i] = cmd /\ u[i + 1] = s[i]
        /\ \A j \in 1 .. (i - 1) : u[j] = s[j]
    BY <2>1, <2>2, InsertAtFacts
  <2> QED BY <2>3, <1>5
<1>7. i \in 1 .. Len(t) /\ i + 1 \in 1 .. Len(t) /\ t # << >>
  BY <1>1, <1>3, <1>6
<1>8. \A j \in 1 .. i : t[j] # "tail"
  BY <1>1, <1>3, <1>6 DEF FirstTail
<1>9. InFront(t, cmd)
  BY <1>6, <1>7, <1>8 DEF InFront
<1>10. FirstTail(t, i + 1)
  BY <1>1, <1>3, <1>6, <1>8 DEF FirstTail
<1>11. ASSUME NEW d, InFront(s, d) PROVE InFront(t, d)
  <2>1. PICK k \in 1 .. Len(s) : s[k] = d /\ \A j \in 1 .. k : s[j] # "tail"
    BY <1>11 DEF InFront
  <2>2. k < i
    BY <1>1, <1>3, <2>1 DEF FirstTail
  <2>3. k \in 1 .. Len(t) /\ k \in 1 .. (i - 1) /\ \A j \in 1 .. k : j \in 1 .. i
    BY <1>1, <1>3, <1>6, <2>2
  <2> QED BY <2>1, <2>3, <1>6, <1>8 DEF InFront
<1> QED BY <1>4, <1>6, <1>7, <1>9, <1>10, <1>11

\* What Install leaves alone
Kept == {"os", "selinux", "autorelabel", "files", "units", "kept"}

\* Install keeps the script in order, however it ends.
LEMMA InstallFacts ==
  ASSUME NEW x, LinuxRecord(x), ScriptsOK(x), NEW cmd \in Commands \ {"tail"},
         NEW r \in {"ok", "script", "unit"},
         NEW y, y = Install(x, cmd, r)
  PROVE  LinuxRecord(y) /\ ScriptsOK(y) /\ \A f \in Kept : y[f] = x[f]
<1> USE DEF LinuxRecord, Watched, Kept
<1>1. CASE r = "script"
  BY <1>1 DEF Install, Wrote, ScriptsOK
<1>2. CASE r # "script" /\ x.script # << >>
  <2>1. y = [[[x EXCEPT !.labelled = FALSE] EXCEPT !.scheduled = IF r = "ok" THEN @ \cup {cmd} ELSE @]
               EXCEPT !.script = AppendCommands(@, cmd)]
    BY <1>2 DEF Install, Wrote
  <2>2. /\ y.script = AppendCommands(x.script, cmd) /\ y.unit = x.unit /\ y.torn = x.torn
        /\ y.scheduled \subseteq x.scheduled \cup {cmd}
        /\ \A f \in Kept : y[f] = x[f] /\ LinuxRecord(y)
    BY <2>1
  <2>3. ScriptsOK(y)
    BY <1>2, <2>2, AppendCommandsFacts DEF ScriptsOK
  <2> QED BY <2>2, <2>3
<1>3. CASE r # "script" /\ x.script = << >>
  <2>1. /\ y.script = << cmd, "tail" >> /\ y.unit = (r = "ok") /\ y.torn = (x.torn \/ r = "unit")
        /\ r = "ok" => y.scheduled = x.scheduled \cup {cmd}
        /\ r # "ok" => y.scheduled = x.scheduled
        /\ LinuxRecord(y) /\ \A f \in Kept : y[f] = x[f]
    BY <1>3 DEF Install, Wrote
  <2>2. x.scheduled \subseteq {"dynamic"}
    BY <1>3 DEF ScriptsOK, InFront
  <2>3. PICK s : s = << cmd, "tail" >>
    OBVIOUS
  <2>4. s \in Seq(Commands) /\ Len(s) = 2 /\ s[1] = cmd /\ s[2] = "tail" /\ s # << >>
    BY <2>3 DEF Commands
  <2>5. FirstTail(s, 2) /\ InFront(s, cmd)
    BY <2>4 DEF FirstTail, InFront
  <2>6. ScriptsOK(y)
    <3>1. y.unit \/ y.torn
      BY <2>1, <1>3, Zenon
    <3>2. y.script = s /\ y.scheduled \subseteq {"dynamic", cmd}
      BY <2>1, <2>2, <2>3
    <3> QED BY <3>1, <3>2, <2>4, <2>5 DEF ScriptsOK
  <2> QED BY <2>1, <2>6
<1> QED BY <1>1, <1>2, <1>3

-----------------------------------------------------------------------------
(* The Linux part of the invariant *)

LinuxShape ==
  /\ LinuxRecord(g) /\ Process \subseteq DOMAIN c
  /\ c.pc \in Converting \cup Finalizing \cup {"failed"}
  /\ c.pc \in Converting => out = NoOutput

\* setfiles ran last, or finalize writes /.autorelabel.
Labels ==
  /\ c.pc \in Early \cup {"cleanup"} \cup Late => c.relabeled = FALSE
  /\ c.pc = "output" /\ c.relabeled => g.labelled
  /\ c.pc \in Finalizing /\ out.relabeled => g.labelled
  /\ c.pc \in {"customize", "done"} /\ "native" \in c.done /\ g.selinux # "none" /\ ~out.relabeled =>
        g.autorelabel \/ "native" \in c.errors \/ "autorelabel" \in c.logged
  /\ c.pc = "done" => "native" \in c.done

\* A unit of the tools that is still enabled has tools that are still to be
\* cleaned up, or disabling it failed.
Units ==
  /\ \A u \in g.units \ g.kept :
       \E h \in LinuxCleanups :
         u \in h.units /\ h.detect \cap g.files # {} /\ (c.pc = "cleanup" => h.name \notin c.done)
  /\ c.pc \in Early => c.done = {}
  /\ c.pc \in Late \cup {"output"} \/ out.published => g.units \subseteq g.kept

LinuxInv == LinuxShape /\ Labels /\ Units /\ ScriptsOK(g)

\* What a block does that moves on and edits only files that no property looks at
QuietStep ==
  /\ Edited(g, g') /\ out' = out
  /\ Process \subseteq DOMAIN c' /\ c'.relabeled = c.relabeled
  /\ \/ c.pc \in Early /\ c'.pc \in Early \cup {"cleanup"} /\ c'.done = c.done
     \/ c.pc \in Late /\ c'.pc \in Late
     \/ c.pc \in Converting /\ c'.pc = "failed"

\* Such a step keeps the invariant.
LEMMA QuietInv == ASSUME LinuxInv, QuietStep PROVE LinuxInv'
<1> USE DEF QuietStep, LinuxInv
<1>1. g'.os = g.os /\ g'.files = g.files /\ g'.units = g.units /\ g'.kept = g.kept
  BY DEF Edited, Watched
<1>2. LinuxShape'
  BY DEF Edited, LinuxShape, Converting
<1>3. Labels'
  BY DEF Labels, Early, Late, Converting, Finalizing
<1>4. Units'
  BY <1>1 DEF Units, Early, Late, Converting, Finalizing, NoOutput, LinuxShape
<1>5. ScriptsOK(g)'
  BY DEF ScriptsOK, Edited, Watched
<1> QED BY <1>2, <1>3, <1>4, <1>5

\* Only the blocks named here do more than that, or come later.
LEMMA BlocksQuiet ==
  ASSUME LinuxInv, AttachLinux \/ Scan \/ SkipInitramfs \/ QuietBlocks
  PROVE  QuietStep
<1> USE DEF LinuxInv, LinuxShape, Process, At, Early, Late, Converting
<1>1. Edited(g, g)
  BY Edits
<1>2. CASE AttachLinux
  BY <1>1, <1>2 DEF AttachLinux, QuietStep, Goto, Fatal
<1>3. CASE Scan
  BY <1>1, <1>3 DEF Scan, QuietStep
<1>4. CASE SkipInitramfs
  BY <1>1, <1>4 DEF SkipInitramfs, QuietStep, Goto
<1>5. CASE RemapDevices
  BY <1>5, QuietBlocksEdit DEF QuietBlocks, RemapDevices, QuietStep, Goto, Report
<1>6. CASE FixupUEFI
  BY <1>6, QuietBlocksEdit DEF QuietBlocks, FixupUEFI, QuietStep, Goto, Report
<1>7. CASE SelectKernel
  BY <1>7, QuietBlocksEdit DEF QuietBlocks, SelectKernel, QuietStep
<1>8. CASE ConfigureConsole
  BY <1>8, QuietBlocksEdit DEF QuietBlocks, ConfigureConsole, QuietStep, Logged
<1>9. CASE ConfigureDisplay
  BY <1>9, QuietBlocksEdit DEF QuietBlocks, ConfigureDisplay, QuietStep, Logged
<1>10. CASE KubeVirtNetworking
  BY <1>10, QuietBlocksEdit DEF QuietBlocks, KubeVirtNetworking, QuietStep
<1>11. CASE GuestCleanup
  BY <1>11, QuietBlocksEdit DEF QuietBlocks, GuestCleanup, QuietStep, Goto
<1>12. CASE InjectVirtioModules
  BY <1>12, QuietBlocksEdit DEF QuietBlocks, InjectVirtioModules, QuietStep
<1>13. CASE NameNICs
  BY <1>13, QuietBlocksEdit DEF QuietBlocks, NameNICs, QuietStep, Visit
<1> QED BY <1>2, <1>3, <1>4, <1>5, <1>6, <1>7, <1>8, <1>9, <1>10, <1>11, <1>12, <1>13 DEF QuietBlocks

\* No two clean-ups are of the same name, and none removes what reveals another.
LEMMA CleanupsApart ==
  \A h, k \in LinuxCleanups : h # k => h.name # k.name /\ k.removes \cap h.detect = {}
<1>1. /\ VMware.name = "vmware" /\ VMware.detect = {"etc/vmware-tools", "bin/vmtoolsd"}
      /\ VMware.removes = {"etc/vmware-tools"}
      /\ Xen.name = "xen" /\ Xen.detect = {"INITRD_MODULES=xenblk"}
      /\ Xen.removes = {"INITRD_MODULES=xenblk"}
      /\ Citrix.name = "citrix" /\ Citrix.detect = {"sbin/xe-daemon"}
      /\ Citrix.removes = {"sbin/xe-daemon"}
      /\ EC2.name = "ec2" /\ EC2.detect = {"bin/amazon-ssm-agent", "datasource_list:Ec2"}
      /\ EC2.removes = {"datasource_list:Ec2"}
      /\ VirtualBox.name = "virtualbox" /\ VirtualBox.detect = {"sbin/VBoxService", "VBoxGuestAdditions"}
      /\ VirtualBox.removes = {"VBoxGuestAdditions"}
      /\ HyperV.name = "hyperv" /\ HyperV.detect = {"sbin/hv_kvp_daemon"}
      /\ HyperV.removes = {}
      /\ Kudzu.name = "kudzu" /\ Kudzu.detect = {"init.d/kudzu"}
      /\ Kudzu.removes = {}
      /\ Nutanix.name = "nutanix" /\ Nutanix.detect = {"init.d/ngt_guest_agent"}
      /\ Nutanix.removes = {"init.d/ngt_guest_agent"}
      /\ Parallels.name = "parallels" /\ Parallels.detect = {"sbin/prltoolsd", "lib/parallels-tools"}
      /\ Parallels.removes = {"lib/parallels-tools"}
  BY DEF VMware, Xen, Citrix, EC2, VirtualBox, HyperV, Kudzu, Nutanix, Parallels
<1>2. ASSUME NEW h \in LinuxCleanups, NEW k \in LinuxCleanups, h.name = k.name PROVE h = k
  BY <1>1, <1>2 DEF LinuxCleanups
<1>3. ASSUME NEW f, NEW h \in LinuxCleanups, NEW k \in LinuxCleanups, f \in k.removes, f \in h.detect
      PROVE  h = k
  BY <1>1, <1>3 DEF LinuxCleanups
<1> QED BY <1>2, <1>3

\* One clean-up of block 11
LEMMA CleanupInv ==
  ASSUME LinuxInv, At("linux", "cleanup"), NEW k \in LinuxCleanups, Cleanup(k), out' = out
  PROVE  LinuxInv'
<1> USE DEF LinuxInv, At
<1>1. PICK kept \in {{}} \cup {{u} : u \in k.units \cap g.units}, removed \in BOOLEAN, scheduled \in BOOLEAN :
        g' = LET x == Wrote(DisableSystemdUnit(g, k.units, kept))
                 y == IF removed THEN [x EXCEPT !.files = @ \ k.removes] ELSE x
             IN IF k.name = "vmware" THEN SchedulePkgRemove(y, scheduled) ELSE y
  BY DEF Cleanup
<1>2. /\ LinuxRecord(g') /\ g'.files \in {g.files, g.files \ k.removes}
      /\ g'.units = g.units \ (k.units \ kept)
      /\ g'.kept = (g.kept \ k.units) \cup (kept \cap g.units)
      /\ g'.script = g.script /\ g'.unit = g.unit /\ g'.torn = g.torn /\ g'.scheduled = g.scheduled
      /\ g'.os = g.os
  BY <1>1 DEF LinuxShape, LinuxRecord, Watched, Wrote, DisableSystemdUnit, SchedulePkgRemove
<1>3. Process \subseteq DOMAIN c' /\ c'.pc = "cleanup" /\ c'.relabeled = c.relabeled
              /\ c'.done = c.done \cup {k.name}
  BY DEF Cleanup, Visit, LinuxShape, Process
<1>4. LinuxShape' /\ Labels'
  BY <1>2, <1>3 DEF LinuxShape, Labels, Converting, Finalizing, Early, Late
<1>5. ASSUME NEW u \in g'.units \ g'.kept
      PROVE  \E h \in LinuxCleanups :
               u \in h.units /\ h.detect \cap g'.files # {} /\ h.name \notin c'.done
  <2>1. u \in g.units /\ u \notin k.units /\ u \notin g.kept
    BY <1>2, <1>5
  <2>2. PICK h \in LinuxCleanups : u \in h.units /\ h.detect \cap g.files # {} /\ h.name \notin c.done
    BY <2>1 DEF Units
  <2>3. h # k
    BY <2>1, <2>2
  <2>4. h.name # k.name /\ k.removes \cap h.detect = {}
    BY <2>3, CleanupsApart
  <2> QED BY <1>2, <1>3, <2>2, <2>4
<1>6. Units'
  BY <1>3, <1>5 DEF Units, Early, Late, LinuxShape, Converting, NoOutput
<1>7. ScriptsOK(g)'
  BY <1>2 DEF ScriptsOK
<1> QED BY <1>4, <1>6, <1>7

\* When no clean-up detects its tools any more, no unit is left to disable.
LEMMA CleanHypervisorsInv == ASSUME LinuxInv, CleanHypervisors PROVE LinuxInv'
<1> USE DEF LinuxInv
<1>1. CASE \E h \in LinuxCleanups : Cleanup(h)
  BY <1>1, CleanupInv DEF CleanHypervisors
<1>2. CASE /\ \A h \in LinuxCleanups : ~Detect(h) \/ h.name \in c.done
           /\ c' = [c EXCEPT !.pc = "network", !.done = {}] /\ UNCHANGED <<g, faults>>
  <2>1. c.pc = "cleanup" /\ c'.pc = "network" /\ c'.relabeled = c.relabeled /\ Process \subseteq DOMAIN c'
        /\ out' = out /\ g' = g
    BY <1>2 DEF CleanHypervisors, At, LinuxShape, Process
  <2>2. g.units \subseteq g.kept
    BY <1>2, <2>1 DEF Units, Detect
  <2>3. LinuxShape' /\ Labels'
    BY <2>1 DEF LinuxShape, Labels, Converting, Finalizing, Early, Late
  <2>4. Units' /\ ScriptsOK(g)'
    BY <2>1, <2>2 DEF Units, Early, ScriptsOK
  <2> QED BY <2>3, <2>4
<1> QED BY <1>1, <1>2 DEF CleanHypervisors

\* A late block that installs a first-boot command, or edits other files
LEMMA InstallingInv ==
  ASSUME LinuxInv, c.pc \in Late, c'.pc \in Late, Process \subseteq DOMAIN c',
         c'.relabeled = c.relabeled, out' = out, LinuxRecord(g'), ScriptsOK(g)',
         \A f \in Kept : g'[f] = g[f]
  PROVE  LinuxInv'
<1>1. g'.files = g.files /\ g'.units = g.units /\ g'.kept = g.kept
  BY DEF Kept
<1>2. LinuxShape' /\ Labels'
  BY DEF LinuxInv, LinuxShape, Labels, Converting, Finalizing, Early, Late
<1>3. Units'
  BY <1>1 DEF LinuxInv, Units, Early, Late
<1> QED BY <1>2, <1>3 DEF LinuxInv

\* The guest agent's command is installed like every other.
LEMMA InstallAgentInv == ASSUME LinuxInv, InstallAgent PROVE LinuxInv'
<1>1. /\ c.pc = "agent" /\ c'.pc = "tidy" /\ Process \subseteq DOMAIN c'
      /\ c'.relabeled = c.relabeled /\ out' = out
  BY DEF InstallAgent, At, Goto, LinuxInv, LinuxShape, Process
<1>2. g' = g \/ \E r \in InstallResults : g' = Install(g, "agent", r)
  BY DEF InstallAgent
<1>3. InstallResults \subseteq {"ok", "script", "unit"}
  BY DEF InstallResults
<1>4. LinuxRecord(g') /\ ScriptsOK(g') /\ \A f \in Kept : g'[f] = g[f]
  BY <1>2, <1>3, InstallFacts DEF LinuxInv, LinuxShape, Commands
<1>5. ScriptsOK(g)'
  BY <1>4 DEF ScriptsOK
<1> QED BY <1>1, <1>4, <1>5, InstallingInv DEF Late

\* So is the command for the static addresses, after macToIP is written.
LEMMA ConfigureStaticIPsInv == ASSUME LinuxInv, ConfigureStaticIPs PROVE LinuxInv'
<1>1. /\ c.pc = "static" /\ c'.pc = "relabel" /\ Process \subseteq DOMAIN c'
      /\ c'.relabeled = c.relabeled /\ out' = out
  BY DEF ConfigureStaticIPs, At, Goto, Report, LinuxInv, LinuxShape, Process
<1>2. \/ g' = g \/ g' = WriteStaticNetworks(g)
      \/ \E r \in InstallResults : g' = Install(WriteMacToIP(g), "static", r)
  BY DEF ConfigureStaticIPs
<1>3. InstallResults \subseteq {"ok", "script", "unit"}
  BY DEF InstallResults
<1>4. /\ Edited(g, g) /\ Edited(g, WriteStaticNetworks(g)) /\ Edited(g, WriteMacToIP(g))
  BY Edits, EditingHelpers DEF LinuxInv, LinuxShape
<1>5. \A y : Edited(g, y) => LinuxRecord(y) /\ ScriptsOK(y) /\ \A f \in Kept : y[f] = g[f]
  BY DEF Edited, ScriptsOK, Watched, Kept, LinuxInv
<1>6. LinuxRecord(g') /\ ScriptsOK(g') /\ \A f \in Kept : g'[f] = g[f]
  <2>1. CASE g' = g \/ g' = WriteStaticNetworks(g)
    BY <2>1, <1>4, <1>5
  <2>2. ASSUME NEW r \in InstallResults, g' = Install(WriteMacToIP(g), "static", r)
        PROVE  LinuxRecord(g') /\ ScriptsOK(g') /\ \A f \in Kept : g'[f] = g[f]
    <3>1. PICK x : x = WriteMacToIP(g)
      OBVIOUS
    <3>2. LinuxRecord(x) /\ ScriptsOK(x) /\ \A f \in Kept : x[f] = g[f]
      BY <3>1, <1>4, <1>5
    <3>3. LinuxRecord(g') /\ ScriptsOK(g') /\ \A f \in Kept : g'[f] = x[f]
      BY <3>1, <3>2, <2>2, <1>3, InstallFacts DEF Commands
    <3> QED BY <3>2, <3>3
  <2> QED BY <2>1, <2>2, <1>2
<1>7. ScriptsOK(g)'
  BY <1>6 DEF ScriptsOK
<1> QED BY <1>1, <1>6, <1>7, InstallingInv DEF Late

\* The converter says that it relabelled only when setfiles ran.
LEMMA RelabelInv == ASSUME LinuxInv, Relabel PROVE LinuxInv'
<1> USE DEF LinuxInv
<1>1. /\ c.pc = "relabel" /\ c'.pc = "output" /\ Process \subseteq DOMAIN c' /\ out' = out
      /\ \/ g' = g /\ c'.relabeled = c.relabeled
         \/ g' = [g EXCEPT !.labelled = TRUE, !.autorelabel = FALSE] /\ c'.relabeled = TRUE
  BY DEF Relabel, At, Goto, LinuxShape, Process
<1>2. /\ LinuxRecord(g') /\ g'.units = g.units /\ g'.kept = g.kept /\ g'.files = g.files
      /\ g'.script = g.script /\ g'.unit = g.unit /\ g'.torn = g.torn /\ g'.scheduled = g.scheduled
      /\ c'.relabeled => g'.labelled
  BY <1>1 DEF LinuxShape, LinuxRecord, Watched, Labels, Late
<1>3. LinuxShape' /\ Labels'
  BY <1>1, <1>2 DEF LinuxShape, Labels, Converting, Finalizing, Early, Late
<1>4. Units' /\ ScriptsOK(g)'
  BY <1>1, <1>2 DEF Units, ScriptsOK, Early, Late
<1> QED BY <1>3, <1>4

\* The output repeats it, before any other file is written.
LEMMA WriteLinuxInv == ASSUME LinuxInv, WriteLinux PROVE LinuxInv'
<1> USE DEF LinuxInv
<1>1. /\ c.pc = "output" /\ g' = g /\ Process \subseteq DOMAIN c'
      /\ \/ /\ c'.pc = "finalize" /\ out'.relabeled = c.relabeled
         \/ c'.pc = "failed" /\ out' = out
  <2>1. c.pc = "output" /\ g' = g /\ Process \subseteq DOMAIN c /\ "pc" \in DOMAIN c
    BY DEF WriteLinux, At, LinuxShape, Process
  <2>2. \/ Goto("finalize") /\ out' = [published |-> TRUE, bus |-> BuildLinux,
              errors |-> c.errors, relabeled |-> c.relabeled]
        \/ Fatal /\ out' = out
    BY DEF WriteLinux
  <2> QED BY <2>1, <2>2 DEF Goto, Fatal
<1>2. LinuxShape' /\ Labels'
  BY <1>1 DEF LinuxShape, Labels, Converting, Finalizing, Early, Late
<1>3. Units' /\ ScriptsOK(g)'
  BY <1>1 DEF Units, ScriptsOK, Early, Late
<1> QED BY <1>2, <1>3

-----------------------------------------------------------------------------
(* kc-finalize, and the second run *)

\* A customizer: it leaves the record of its visit, what was logged and the
\* converter's output.
LEMMA CustomizerInv ==
  ASSUME LinuxInv, c.pc = "customize", c'.pc = "customize", Process \subseteq DOMAIN c', out' = out,
         LinuxRecord(g'), ScriptsOK(g)',
         \A f \in {"selinux", "labelled", "files", "units", "kept"} : g'[f] = g[f],
         "native" \in c'.done /\ g'.selinux # "none" /\ ~out.relabeled =>
            g'.autorelabel \/ "native" \in c'.errors \/ "autorelabel" \in c'.logged
  PROVE  LinuxInv'
<1> USE DEF LinuxInv
<1>1. LinuxShape' /\ Labels'
  BY DEF LinuxShape, Labels, Converting, Finalizing, Early, Late
<1>2. Units'
  BY DEF Units, Early, Late
<1> QED BY <1>1, <1>2

\* The native customizer writes /.autorelabel, is reported or has it logged.
LEMMA NativeInv == ASSUME LinuxInv, Native PROVE LinuxInv'
<1> USE DEF LinuxInv
<1>1. /\ c.pc = "customize" /\ c'.pc = "customize" /\ Process \subseteq DOMAIN c' /\ out' = out
      /\ g' = g \/ g' = [g EXCEPT !.autorelabel = TRUE]
  BY DEF Native, Customizing, Customized, LinuxShape, Process
<1>2. /\ LinuxRecord(g') /\ \A f \in Watched \cup {"labelled"} : f # "autorelabel" => g'[f] = g[f]
  BY <1>1 DEF LinuxShape, LinuxRecord, Watched
<1>3. ScriptsOK(g)'
  BY <1>2 DEF ScriptsOK, Watched
<1>4. ASSUME g'.selinux # "none", ~out.relabeled
      PROVE  g'.autorelabel \/ "native" \in c'.errors \/ "autorelabel" \in c'.logged
  <2>1. g.selinux # "none" /\ g.os = "linux"
    BY <1>2, <1>4 DEF Watched, LinuxShape, LinuxRecord
  <2>2. \/ g' = [g EXCEPT !.autorelabel = TRUE] 
        \/ c' = [c EXCEPT !.done = @ \cup {"native"}, !.logged = @ \cup {"autorelabel"}]
        \/ Customized("native", FALSE)
    BY <2>1, <1>4 DEF Native
  <2> QED BY <2>2 DEF Customized, LinuxShape, LinuxRecord, Watched, Process
<1> QED BY <1>1, <1>2, <1>3, <1>4, CustomizerInv DEF Watched

\* A user's script goes behind the lines that disable the unit, or is a new script.
LEMMA DynamicScriptsLinuxInv == ASSUME LinuxInv, DynamicScriptsLinux PROVE LinuxInv'
<1> USE DEF LinuxInv
<1>1. /\ c.pc = "customize" /\ out' = out
      /\ \E ok \in BOOLEAN : Customized("dynamicscriptslinux", ok)
      /\ \/ g' = g
         \/ g.script # << >> /\ g' = [g EXCEPT !.script = Append(@, "dynamic")]
         \/ \E r \in InstallResults : g' = [Install(g, "dynamic", r) EXCEPT !.labelled = g.labelled]
  BY DEF DynamicScriptsLinux, Customizing
<1>2. /\ c'.pc = "customize" /\ Process \subseteq DOMAIN c' /\ c'.done = c.done \cup {"dynamicscriptslinux"}
      /\ c'.logged = c.logged /\ c.errors \subseteq c'.errors
  BY <1>1 DEF Customized, LinuxShape, Process
<1>3. LinuxRecord(g') /\ ScriptsOK(g') /\ \A f \in Kept \cup {"labelled"} : g'[f] = g[f]
  <2>1. CASE g' = g
    BY <2>1 DEF LinuxShape
  <2>2. CASE g.script # << >> /\ g' = [g EXCEPT !.script = Append(@, "dynamic")]
    <3>1. /\ LinuxRecord(g') /\ g'.script = Append(g.script, "dynamic") /\ g'.unit = g.unit /\ g'.torn = g.torn
          /\ g'.scheduled = g.scheduled /\ \A f \in Kept \cup {"labelled"} : g'[f] = g[f]
      BY <2>2 DEF LinuxShape, LinuxRecord, Watched, Kept
    <3>2. PICK s, t : s = g.script /\ t = g'.script
      OBVIOUS
    <3>3. s \in Seq(Commands) /\ t = Append(s, "dynamic") /\ "dynamic" \in Commands
      BY <3>1, <3>2 DEF ScriptsOK, Commands
    <3>4. /\ t \in Seq(Commands) /\ Len(t) = Len(s) + 1 /\ Len(s) \in Nat
          /\ \A i \in 1 .. Len(s) : t[i] = s[i]
      BY <3>3
    <3>5. (\A i \in 1 .. Len(s) : FirstTail(s, i) => FirstTail(t, i)) /\ \A d : InFront(s, d) => InFront(t, d)
      BY <3>4 DEF FirstTail, InFront
    <3>6. ScriptsOK(g')
      BY <2>2, <3>1, <3>2, <3>4, <3>5 DEF ScriptsOK
    <3> QED BY <3>1, <3>6
  <2>3. ASSUME NEW r \in InstallResults, g' = [Install(g, "dynamic", r) EXCEPT !.labelled = g.labelled]
        PROVE  LinuxRecord(g') /\ ScriptsOK(g') /\ \A f \in Kept \cup {"labelled"} : g'[f] = g[f]
    <3>1. PICK y : y = Install(g, "dynamic", r)
      OBVIOUS
    <3>2. LinuxRecord(y) /\ ScriptsOK(y) /\ \A f \in Kept : y[f] = g[f]
      BY <3>1, InstallFacts DEF LinuxShape, Commands, InstallResults
    <3>3. g' = [y EXCEPT !.labelled = g.labelled]
      BY <2>3, <3>1
    <3> QED BY <3>2, <3>3 DEF LinuxRecord, ScriptsOK, Watched, Kept
  <2> QED BY <1>1, <2>1, <2>2, <2>3
<1>4. ScriptsOK(g)'
  BY <1>3 DEF ScriptsOK
<1>5. "native" \in c'.done /\ g'.selinux # "none" /\ ~out.relabeled =>
            g'.autorelabel \/ "native" \in c'.errors \/ "autorelabel" \in c'.logged
  BY <1>1, <1>2, <1>3 DEF Labels, Kept
<1> QED BY <1>1, <1>2, <1>3, <1>4, <1>5, CustomizerInv DEF Kept

\* The rest of kc-finalize, and a second run.
LEMMA LinuxRestInv ==
  ASSUME LinuxInv, AttachFinalize \/ DynamicScriptsWindows \/ WriteTargetMeta \/ Rerun \/ UNCHANGED vars
  PROVE  LinuxInv'
<1> USE DEF LinuxInv
<1>1. CASE AttachFinalize
  <2>1. /\ c.pc = "finalize" /\ g' = g /\ out' = out /\ Process \subseteq DOMAIN c'
        /\ (c'.pc = "customize" /\ c'.done = {}) \/ c'.pc = "failed"
    BY <1>1 DEF AttachFinalize, Fatal, LinuxShape, Process
  <2>2. LinuxShape' /\ Labels'
    BY <2>1 DEF LinuxShape, Labels, Converting, Finalizing, Early, Late
  <2>3. Units' /\ ScriptsOK(g)'
    BY <2>1 DEF Units, ScriptsOK, Early, Late
  <2> QED BY <2>2, <2>3
<1>2. CASE DynamicScriptsWindows
  <2>1. /\ c.pc = "customize" /\ g' = g /\ out' = out /\ Process \subseteq DOMAIN c' /\ c'.pc = "customize"
        /\ c'.done = c.done \cup {"dynamicscriptswindows"} /\ c'.errors = c.errors /\ c'.logged = c.logged
    BY <1>2 DEF DynamicScriptsWindows, Customizing, Customized, LinuxShape, LinuxRecord, Process
  <2>2. ScriptsOK(g)' /\ LinuxRecord(g')
    BY <2>1 DEF ScriptsOK, LinuxShape
  <2>3. "native" \in c'.done /\ g'.selinux # "none" /\ ~out.relabeled =>
            g'.autorelabel \/ "native" \in c'.errors \/ "autorelabel" \in c'.logged
    BY <2>1 DEF Labels
  <2> QED BY <2>1, <2>2, <2>3, CustomizerInv
<1>3. CASE WriteTargetMeta
  <2>1. /\ c.pc = "customize" /\ g' = g /\ out' = out /\ Process \subseteq DOMAIN c' /\ "native" \in c.done
        /\ c'.pc \in {"done", "failed"} /\ c'.done = c.done /\ c'.errors = c.errors /\ c'.logged = c.logged
    BY <1>3 DEF WriteTargetMeta, Goto, Fatal, LinuxShape, Process
  <2>2. LinuxShape' /\ Labels'
    BY <2>1 DEF LinuxShape, Labels, Converting, Finalizing, Early, Late
  <2>3. Units' /\ ScriptsOK(g)'
    BY <2>1 DEF Units, ScriptsOK, Early, Late
  <2> QED BY <2>2, <2>3
<1>4. CASE Rerun
  <2>1. /\ c.pc = "failed" /\ g' = g /\ out' = NoOutput /\ Process \subseteq DOMAIN c' /\ c'.pc = "attach"
        /\ c'.done = {} /\ c'.relabeled = FALSE
    BY <1>4 DEF Rerun, NewLinux, LinuxShape, LinuxRecord, Process
  <2>2. LinuxShape' /\ Labels'
    BY <2>1 DEF LinuxShape, Labels, Converting, Finalizing, Early, Late
  <2>3. Units' /\ ScriptsOK(g)'
    BY <2>1 DEF Units, ScriptsOK, Early, Late, NoOutput
  <2> QED BY <2>2, <2>3
<1>5. CASE UNCHANGED vars
  BY <1>5 DEF vars, LinuxShape, Labels, Units, ScriptsOK
<1> QED BY <1>1, <1>2, <1>3, <1>4, <1>5

-----------------------------------------------------------------------------
(* What a Linux guest boots from *)

\* What LinuxBoots looks at in a guest and in the process
BootFields == {"kernels", "names", "entries", "initrd"}
NameFields == {"fstab", "crypttab", "grub", "bls", "cfg"}
Remapped == {"fstab", "crypttab", "grub", "bls"}
KernelRecord == [ver : Nat \ {0}, release : Nat \ {0}, path : BOOLEAN, xen : BOOLEAN, virtio : BOOLEAN]
EntryRecord == [name : Nat, zero : BOOLEAN, kernel : Nat, mentions : SUBSET Nat]

\* The blocks after the scan, the remapping, the selection of the kernel, the
\* first edit of its arguments and the rebuild of its initramfs
AfterConsole == {"display", "cleanup"} \cup Late \cup {"output"} \cup Finalizing
AfterSelect == {"console"} \cup AfterConsole
AfterRemap == {"uefi", "select"} \cup AfterSelect
AfterScan == {"remap"} \cup AfterRemap
AfterRebuild == {"static", "relabel", "output"} \cup Finalizing
Past(blocks) == c.pc \in blocks \/ out.published

Bootable(k) == k.path /\ ~k.xen

\* The kernels are sorted, the greatest version string first.
Descending(ks) == \A i, j \in 1 .. Len(ks) : i < j => ks[i].ver > ks[j].ver

\* k is the best of the first n kernels.
BestOf(ks, n, k) ==
  \/ k = NoKernel /\ \A i \in 1 .. n : ~Bootable(ks[i])
  \/ /\ k # NoKernel /\ Bootable(k) /\ \E i \in 1 .. n : k = ks[i]
     /\ \A i \in 1 .. n : Bootable(ks[i]) =>
          (ks[i].virtio => k.virtio) /\ (ks[i].virtio = k.virtio => ks[i].ver <= k.ver)

\* An entry mentions the version that it boots.
EntriesOK(x) == x.entries \subseteq EntryRecord /\ \A e \in x.entries : e.kernel \in e.mentions

\* The kernels of a guest have versions, and each has a place for its initramfs.
BootShape ==
  /\ BootFields \cup {"backup"} \subseteq DOMAIN g /\ NameFields \subseteq DOMAIN g.names
  /\ g.kernels \subseteq KernelRecord /\ IsFiniteSet(g.kernels)
  /\ {k.ver : k \in g.kernels} \subseteq DOMAIN g.initrd /\ EntriesOK(g)
  /\ {"kernels", "selected"} \subseteq DOMAIN c

\* The list of the scan
ScanInv ==
  Past(AfterScan) =>
    /\ c.kernels \in Seq(KernelRecord) /\ Descending(c.kernels)
    /\ \A i \in 1 .. Len(c.kernels) : c.kernels[i].ver \in DOMAIN g.initrd

\* The kernel that is selected, and its entry, which alone has the prefix "0-"
\* when it alone mentions the kernel
SelectInv ==
  Past(AfterSelect) =>
    /\ BestOf(c.kernels, Len(c.kernels), c.selected)
    /\ c.selected # NoKernel /\ g.names.bls # "none" /\ {"default", "unread", "prefixed"} \cap c.logged = {} =>
         \A e \in g.entries : Alone(e, c.selected.ver) => e.zero /\ \A d \in g.entries \ {e} : ~d.zero

\* The errors that are, or will be, published
Published == IF out.published THEN out.errors ELSE c.errors

\* No file that was remapped names the source's devices, and grub.cfg follows the
\* grub defaults, or what failed is known.
NamesInv ==
  /\ Past(AfterRemap) /\ "device-remap" \notin Published /\ g.names.fstab # "none" =>
       \A f \in Remapped : g.names[f] # "source"
  /\ Past(AfterConsole) /\ DetectFirst = "grub2" =>
       g.names.cfg = g.names.grub \/ {"default", "args"} \cap c.logged # {}

\* The initramfs of the selected kernel, and what the output says of the disk
RebuildInv ==
  /\ Past(AfterRebuild) /\ c.selected # NoKernel /\ c.selected.virtio =>
       g.initrd[c.selected.ver].virtio \/ "unverified" \in c.logged
  /\ out.published /\ out.bus = "virtio" /\ c.selected # NoKernel => c.selected.virtio

BootInv == BootShape /\ ScanInv /\ SelectInv /\ NamesInv /\ RebuildInv

\* Best's walk exists: best[n] is the best of the first n.
LEMMA BestWalk ==
  ASSUME NEW ks \in Seq(KernelRecord)
  PROVE  \E best : /\ best[0] = NoKernel /\ Best(ks) = best[Len(ks)]
                   /\ \A n \in 1 .. Len(ks) : best[n] = Better(best[n - 1], ks[n])
<1> DEFINE Walk(m, f) == f = [n \in 0 .. m |-> IF n = 0 THEN NoKernel ELSE Better(f[n - 1], ks[n])]
           Bad == {m \in 0 .. Len(ks) : ~ \E f : Walk(m, f)}
<1>1. Len(ks) \in Nat
  OBVIOUS
<1>2. Bad = {}
  <2>1. SUFFICES ASSUME Bad # {} PROVE FALSE
    OBVIOUS
  <2>2. PICK m \in Bad : \A y \in Bad : <<y, m>> \notin OpToRel(<, Nat)
    <3>1. Bad \subseteq Nat
      BY <1>1
    <3> HIDE DEF Bad
    <3> QED BY <2>1, <3>1, NatLessThanWellFounded, WFMin
  <2>3. m \in 0 .. Len(ks) /\ m \in Nat /\ ~ \E f : Walk(m, f)
    BY <1>1
  <2>4. CASE m = 0
    <3> DEFINE f == [n \in 0 .. 0 |-> NoKernel]
    <3>1. f = [n \in 0 .. 0 |-> IF n = 0 THEN NoKernel ELSE Better(f[n - 1], ks[n])]
      OBVIOUS
    <3> QED BY <2>3, <2>4, <3>1
  <2>5. CASE m # 0
    <3>1. m - 1 \in 0 .. Len(ks) /\ m - 1 \in Nat /\ m - 1 < m
      BY <2>3, <2>5
    <3>2. m - 1 \notin Bad
      BY <2>2, <2>3, <3>1 DEF OpToRel
    <3>3. PICK f : Walk(m - 1, f)
      BY <3>1, <3>2
    <3> DEFINE h == [n \in 0 .. m |-> IF n = m THEN Better(f[m - 1], ks[m]) ELSE f[n]]
    <3>4. \A n \in 0 .. (m - 1) : f[n] = IF n = 0 THEN NoKernel ELSE Better(f[n - 1], ks[n])
      BY <3>3
    <3>5. \A n \in 0 .. m : h[n] = IF n = 0 THEN NoKernel ELSE Better(h[n - 1], ks[n])
      <4>1. ASSUME NEW n \in 0 .. m PROVE h[n] = IF n = 0 THEN NoKernel ELSE Better(h[n - 1], ks[n])
        <5>1. CASE n = m
          <6>1. n # 0 /\ m - 1 \in 0 .. m /\ m - 1 # m
            BY <5>1, <2>3, <2>5
          <6> QED BY <5>1, <6>1
        <5>2. CASE n # m /\ n = 0
          <6>1. 0 \in 0 .. (m - 1)
            BY <2>3, <2>5
          <6> QED BY <5>2, <6>1, <3>4
        <5>3. CASE n # m /\ n # 0
          <6>1. n - 1 \in 0 .. m /\ n - 1 # m /\ n \in 0 .. (m - 1)
            BY <5>3, <2>3
          <6>2. h[n] = f[n] /\ h[n - 1] = f[n - 1]
            BY <5>3, <6>1
          <6> HIDE DEF h
          <6> QED BY <5>3, <6>1, <6>2, <3>4
        <5> QED BY <5>1, <5>2, <5>3
      <4> QED BY <4>1
    <3>6. h = [n \in 0 .. m |-> h[n]]
      OBVIOUS
    <3> HIDE DEF h
    <3>7. Walk(m, h)
      BY <3>5, <3>6
    <3> QED BY <2>3, <3>7
  <2> QED BY <2>4, <2>5
<1>3. \E f : Walk(Len(ks), f)
  <2>1. Len(ks) \in 0 .. Len(ks)
    BY <1>1
  <2> QED BY <1>2, <2>1
<1> DEFINE best == CHOOSE f : Walk(Len(ks), f)
<1>4. Walk(Len(ks), best)
  BY <1>3
<1>5. Best(ks) = best[Len(ks)]
  BY DEF Best
<1> HIDE DEF best
<1>6. \A n \in 0 .. Len(ks) : best[n] = IF n = 0 THEN NoKernel ELSE Better(best[n - 1], ks[n])
  BY <1>4
<1>7. best[0] = NoKernel
  BY <1>1, <1>6
<1>8. \A n \in 1 .. Len(ks) : best[n] = Better(best[n - 1], ks[n])
  <2>1. \A n \in 1 .. Len(ks) : n \in 0 .. Len(ks) /\ n # 0
    BY <1>1
  <2> QED BY <1>6, <2>1
<1> QED BY <1>5, <1>7, <1>8

\* One more kernel, with a smaller version string than all before it
LEMMA BetterIsBest ==
  ASSUME NEW ks \in Seq(KernelRecord), Descending(ks), NEW n \in 1 .. Len(ks), NEW b, BestOf(ks, n - 1, b)
  PROVE  BestOf(ks, n, Better(b, ks[n]))
<1>1. Len(ks) \in Nat /\ n \in Nat /\ \A i \in 1 .. Len(ks) : ks[i] \in KernelRecord
  OBVIOUS
<1>2. \A i \in 1 .. n : i \in 1 .. Len(ks) /\ (i = n \/ i \in 1 .. (n - 1))
  BY <1>1
<1>3. \A i \in 1 .. (n - 1) : i \in 1 .. n /\ i \in 1 .. Len(ks) /\ ks[i].ver > ks[n].ver
  BY <1>1 DEF Descending
<1>4. n \in 1 .. n
  BY <1>1
<1>5. PICK k \in KernelRecord : k = ks[n]
  BY <1>1
<1>6. k # NoKernel /\ k.ver \in Nat
  BY DEF KernelRecord, NoKernel
<1>7. \A i \in 1 .. n : ks[i] \in KernelRecord /\ ks[i].ver \in Nat
  BY <1>1, <1>2 DEF KernelRecord
<1>8. CASE ~Bootable(k)
  <2>1. Better(b, k) = b
    BY <1>8 DEF Better, Greater, Bootable
  <2> QED BY <2>1, <1>2, <1>3, <1>5, <1>8 DEF BestOf
<1>9. CASE Bootable(k) /\ b = NoKernel
  <2>1. Better(b, k) = k
    BY <1>9 DEF Better, Greater, Bootable
  <2>2. \A i \in 1 .. (n - 1) : ~Bootable(ks[i])
    BY <1>9 DEF BestOf
  <2>3. \A i \in 1 .. n : Bootable(ks[i]) => ks[i] = k
    BY <2>2, <1>2, <1>5
  <2>4. k.ver <= k.ver
    BY <1>6
  <2> QED BY <2>1, <2>3, <2>4, <1>4, <1>5, <1>6, <1>9 DEF BestOf
<1>10. CASE Bootable(k) /\ b # NoKernel
  <2>1. PICK j \in 1 .. (n - 1) : b = ks[j]
    BY <1>10 DEF BestOf
  <2>2. /\ Bootable(b) /\ b.ver > k.ver /\ b.ver \in Nat
        /\ \A i \in 1 .. (n - 1) : Bootable(ks[i]) =>
             (ks[i].virtio => b.virtio) /\ (ks[i].virtio = b.virtio => ks[i].ver <= b.ver)
    BY <1>3, <1>5, <1>7, <1>10, <2>1 DEF BestOf
  <2>3. ~(k.ver > b.ver)
    BY <1>6, <2>2
  <2>4. b \in KernelRecord
    BY <1>3, <1>7, <2>1
  <2>5. CASE k.virtio /\ ~b.virtio
    <3>1. Better(b, k) = k
      BY <2>5, <1>10 DEF Better, Greater, Bootable
    <3>2. \A i \in 1 .. (n - 1) : Bootable(ks[i]) => ~ks[i].virtio
      BY <2>2, <2>5
    <3>3. \A i \in 1 .. n : Bootable(ks[i]) => ks[i] = k \/ ~ks[i].virtio
      BY <3>2, <1>2, <1>5
    <3>4. k.virtio = TRUE /\ \A i \in 1 .. n : ks[i].virtio \in BOOLEAN
      BY <2>5, <1>7 DEF KernelRecord
    <3>5. k.ver <= k.ver
      BY <1>6
    <3>6. \A i \in 1 .. n : Bootable(ks[i]) =>
             (ks[i].virtio => k.virtio) /\ (ks[i].virtio = k.virtio => ks[i].ver <= k.ver)
      BY <3>3, <3>4, <3>5, <2>5, Zenon
    <3> QED BY <3>1, <3>6, <1>4, <1>5, <1>6, <1>10 DEF BestOf
  <2>6. CASE ~(k.virtio /\ ~b.virtio)
    <3>1. Better(b, k) = b
      BY <2>6, <2>3, <1>10 DEF Better, Greater
    <3>2. k.ver <= b.ver
      BY <1>6, <2>2
    <3>3. \A i \in 1 .. n : Bootable(ks[i]) =>
             (ks[i].virtio => b.virtio) /\ (ks[i].virtio = b.virtio => ks[i].ver <= b.ver)
      BY <3>2, <2>2, <2>6, <1>2, <1>5
    <3>4. j \in 1 .. n
      BY <1>3, <2>1
    <3> QED BY <3>1, <3>3, <3>4, <2>1, <2>2, <1>5, <1>10 DEF BestOf
  <2> QED BY <2>5, <2>6
<1> QED BY <1>8, <1>9, <1>10

\* kernel.Best of a sorted list is the best of its kernels.
LEMMA BestIsBest ==
  ASSUME NEW ks \in Seq(KernelRecord), Descending(ks)
  PROVE  BestOf(ks, Len(ks), Best(ks))
<1>1. PICK best : /\ best[0] = NoKernel /\ Best(ks) = best[Len(ks)]
                  /\ \A n \in 1 .. Len(ks) : best[n] = Better(best[n - 1], ks[n])
  BY BestWalk
<1>2. Len(ks) \in Nat
  OBVIOUS
<1> DEFINE Bad == {n \in 0 .. Len(ks) : ~BestOf(ks, n, best[n])}
<1>3. Bad = {}
  <2>1. SUFFICES ASSUME Bad # {} PROVE FALSE
    OBVIOUS
  <2>2. PICK n \in Bad : \A y \in Bad : <<y, n>> \notin OpToRel(<, Nat)
    <3>1. Bad \subseteq Nat
      BY <1>2
    <3> HIDE DEF Bad
    <3> QED BY <2>1, <3>1, NatLessThanWellFounded, WFMin
  <2>3. n \in 0 .. Len(ks) /\ n \in Nat /\ ~BestOf(ks, n, best[n])
    BY <1>2
  <2>4. n # 0
    <3>1. BestOf(ks, 0, NoKernel)
      BY DEF BestOf
    <3> QED BY <1>1, <2>3, <3>1
  <2>5. n \in 1 .. Len(ks) /\ n - 1 \in 0 .. Len(ks) /\ n - 1 \in Nat /\ n - 1 < n
    BY <1>2, <2>3, <2>4
  <2>6. BestOf(ks, n - 1, best[n - 1])
    BY <2>2, <2>3, <2>5 DEF OpToRel
  <2> QED BY <1>1, <2>3, <2>5, <2>6, BetterIsBest
<1>4. Len(ks) \in 0 .. Len(ks)
  BY <1>2
<1> QED BY <1>1, <1>3, <1>4

BootRecord(x) == BootFields \cup {"backup"} \subseteq DOMAIN x /\ NameFields \subseteq DOMAIN x.names

\* y is x with other files edited than those of the boot
BootSame(x, y) == BootFields \cup {"backup"} \subseteq DOMAIN y /\ \A f \in BootFields : y[f] = x[f]

\* A step that does not touch them, and passes none of those blocks
BootStep ==
  /\ BootSame(g, g') /\ Process \cup {"kernels", "selected"} \subseteq DOMAIN c' /\ out' = out
  /\ c'.kernels = c.kernels /\ c'.selected = c.selected
  /\ c.logged \subseteq c'.logged /\ (out.published \/ c.errors \subseteq c'.errors)
  /\ Past(AfterScan)' => Past(AfterScan)
  /\ Past(AfterRemap)' => Past(AfterRemap)
  /\ Past(AfterSelect)' => Past(AfterSelect)
  /\ Past(AfterConsole)' => Past(AfterConsole)
  /\ Past(AfterRebuild)' => Past(AfterRebuild)

\* Editing such files composes.
LEMMA BootSameTrans ==
  /\ \A x : BootRecord(x) => BootSame(x, x)
  /\ \A x, y, z : BootSame(x, y) /\ BootSame(y, z) => BootSame(x, z)
  /\ \A x, y : BootRecord(x) /\ BootSame(x, y) => BootRecord(y)
BY DEF BootSame, BootRecord, BootFields

\* Each of these leaves alone what the guest boots from.
LEMMA BootHelpers ==
  ASSUME NEW x, BootRecord(x)
  PROVE  /\ BootSame(x, Wrote(x))
         /\ \A ok : BootSame(x, ConfigureXorgDriver(x, ok))
         /\ \A F : BootSame(x, GrubFallback(x, F))
         /\ \A d : BootSame(x, WriteUdevRules(x, d)) /\ BootSame(x, WriteSystemdLinks(x, d))
         /\ \A ok : BootSame(x, Clean(x, ok)) /\ BootSame(x, ConfigureAliases(x, ok))
         /\ BootSame(x, InstallKubeVirtNetworking(x)) /\ BootSame(x, WriteStaticNetworks(x))
         /\ BootSame(x, WriteMacToIP(x))
         /\ \A U, F : BootSame(x, DisableSystemdUnit(x, U, F))
         /\ \A F : BootSame(x, [x EXCEPT !.files = @ \ F])
         /\ \A ok : BootSame(x, SchedulePkgRemove(x, ok))
<1> USE DEF BootSame, BootRecord, BootFields
<1>1. BootSame(x, Wrote(x)) /\ \A ok : BootSame(x, ConfigureXorgDriver(x, ok))
  BY DEF Wrote, ConfigureXorgDriver
<1>2. \A F : BootSame(x, GrubFallback(x, F))
  BY DEF GrubFallback, ConvertAllESPs
<1>3. \A d : BootSame(x, WriteUdevRules(x, d)) /\ BootSame(x, WriteSystemdLinks(x, d))
  BY DEF WriteUdevRules, WriteSystemdLinks
<1>4. \A ok : BootSame(x, Clean(x, ok)) /\ BootSame(x, ConfigureAliases(x, ok))
  BY DEF Clean, ConfigureAliases
<1>5. /\ BootSame(x, InstallKubeVirtNetworking(x)) /\ BootSame(x, WriteStaticNetworks(x))
      /\ BootSame(x, WriteMacToIP(x))
  BY DEF InstallKubeVirtNetworking, WriteStaticNetworks, WriteMacToIP, Wrote
<1>6. \A U, F : BootSame(x, DisableSystemdUnit(x, U, F))
  BY DEF DisableSystemdUnit
<1>7. \A F : BootSame(x, [x EXCEPT !.files = @ \ F])
  OBVIOUS
<1>8. \A ok : BootSame(x, SchedulePkgRemove(x, ok))
  BY DEF SchedulePkgRemove
<1> QED BY <1>1, <1>2, <1>3, <1>4, <1>5, <1>6, <1>7, <1>8, Zenon

\* Install writes the first-boot script and its unit.
LEMMA InstallBoot ==
  ASSUME NEW x, BootRecord(x), NEW cmd, NEW r PROVE BootSame(x, Install(x, cmd, r))
<1> USE DEF BootSame, BootRecord, BootFields
<1>1. CASE r = "script"
  BY <1>1 DEF Install, Wrote
<1>2. CASE r # "script" /\ x.script # << >>
  <2>1. Install(x, cmd, r) =
          [[[x EXCEPT !.labelled = FALSE] EXCEPT !.scheduled = IF r = "ok" THEN @ \cup {cmd} ELSE @]
             EXCEPT !.script = AppendCommands(@, cmd)]
    BY <1>2 DEF Install, Wrote
  <2> QED BY <2>1
<1>3. CASE r # "script" /\ x.script = << >>
  BY <1>3 DEF Install, Wrote
<1> QED BY <1>1, <1>2, <1>3

\* Such a step keeps the invariant.
LEMMA BootStepInv == ASSUME BootInv, BootStep PROVE BootInv'
<1> USE DEF BootStep, BootInv
<1>1. g'.kernels = g.kernels /\ g'.names = g.names /\ g'.entries = g.entries /\ g'.initrd = g.initrd
  BY DEF BootSame, BootFields
<1>2. BootShape'
  BY <1>1 DEF BootShape, BootSame, BootFields, EntriesOK
<1>3. ScanInv'
  BY <1>1 DEF ScanInv, Descending
<1>4. SelectInv'
  BY <1>1 DEF SelectInv, BestOf, Alone
<1>5. NamesInv'
  BY <1>1 DEF NamesInv, Published, DetectFirst
<1>6. RebuildInv'
  BY <1>1 DEF RebuildInv
<1> QED BY <1>2, <1>3, <1>4, <1>5, <1>6

\* The blocks that leave alone what the guest boots from
BootQuiet ==
  \/ AttachLinux \/ FixupUEFI \/ CleanHypervisors \/ KubeVirtNetworking \/ InstallAgent \/ GuestCleanup
  \/ NameNICs \/ ConfigureStaticIPs \/ Relabel
  \/ AttachFinalize \/ Native \/ DynamicScriptsLinux \/ DynamicScriptsWindows \/ WriteTargetMeta

\* They do.
LEMMA BootQuietEdits == ASSUME LinuxInv, BootInv, BootQuiet PROVE BootSame(g, g')
<1>1. BootRecord(g)
  BY DEF BootInv, BootShape, BootRecord
<1>2. BootSame(g, g) /\ \A y, z : BootSame(g, y) /\ BootSame(y, z) => BootSame(g, z)
  BY <1>1, BootSameTrans
<1>3. \A y : BootSame(g, y) => BootRecord(y) /\ BootSame(g, Wrote(y))
  BY <1>1, <1>2, BootSameTrans, BootHelpers
<1>4. CASE AttachLinux \/ AttachFinalize \/ WriteTargetMeta
  BY <1>2, <1>4 DEF AttachLinux, AttachFinalize, WriteTargetMeta
<1>5. CASE FixupUEFI
  BY <1>1, <1>2, <1>5, BootHelpers DEF FixupUEFI
<1>6. CASE CleanHypervisors
  <2>1. CASE UNCHANGED <<g, faults>>
    BY <1>2, <2>1
  <2>2. CASE \E h \in LinuxCleanups : Cleanup(h)
    <3>1. PICK h \in LinuxCleanups : Cleanup(h)
      BY <2>2
    <3>2. PICK kept \in {{}} \cup {{u} : u \in h.units \cap g.units}, removed \in BOOLEAN, scheduled \in BOOLEAN :
            g' = LET x == Wrote(DisableSystemdUnit(g, h.units, kept))
                     y == IF removed THEN [x EXCEPT !.files = @ \ h.removes] ELSE x
                 IN IF h.name = "vmware" THEN SchedulePkgRemove(y, scheduled) ELSE y
      BY <3>1 DEF Cleanup
    <3>3. PICK x : x = Wrote(DisableSystemdUnit(g, h.units, kept))
      OBVIOUS
    <3>4. BootSame(g, x) /\ BootRecord(x)
      BY <1>1, <1>3, <3>3, BootHelpers
    <3>5. PICK y : y = IF removed THEN [x EXCEPT !.files = @ \ h.removes] ELSE x
      OBVIOUS
    <3>6. BootSame(g, y) /\ BootRecord(y)
      BY <1>2, <1>3, <3>4, <3>5, BootHelpers
    <3>7. g' = y \/ g' = SchedulePkgRemove(y, scheduled)
      BY <3>2, <3>3, <3>5
    <3> QED BY <1>2, <3>6, <3>7, BootHelpers
  <2> QED BY <1>6, <2>1, <2>2 DEF CleanHypervisors
<1>7. CASE KubeVirtNetworking
  BY <1>1, <1>2, <1>7, BootHelpers DEF KubeVirtNetworking
<1>8. CASE InstallAgent
  BY <1>1, <1>2, <1>8, InstallBoot DEF InstallAgent
<1>9. CASE GuestCleanup
  BY <1>1, <1>2, <1>3, <1>9, BootHelpers DEF GuestCleanup
<1>10. CASE NameNICs
  BY <1>1, <1>2, <1>3, <1>10, BootHelpers DEF NameNICs
<1>11. CASE ConfigureStaticIPs
  <2>1. \/ g' = g \/ g' = WriteStaticNetworks(g)
        \/ \E r \in InstallResults : g' = Install(WriteMacToIP(g), "static", r)
    BY <1>11 DEF ConfigureStaticIPs
  <2> QED BY <1>1, <1>2, <1>3, <2>1, BootHelpers, InstallBoot
<1>12. CASE Relabel
  BY <1>1, <1>2, <1>12 DEF Relabel, BootSame, BootRecord, BootFields
<1>13. CASE Native
  BY <1>1, <1>2, <1>13 DEF Native, BootSame, BootRecord, BootFields
<1>14. CASE DynamicScriptsLinux
  <2>1. \/ g' = g \/ g' = [g EXCEPT !.script = Append(@, "dynamic")]
        \/ \E r \in InstallResults : g' = [Install(g, "dynamic", r) EXCEPT !.labelled = g.labelled]
    BY <1>14 DEF DynamicScriptsLinux
  <2>2. ASSUME NEW r, g' = [Install(g, "dynamic", r) EXCEPT !.labelled = g.labelled] PROVE BootSame(g, g')
    <3>1. PICK y : y = Install(g, "dynamic", r)
      OBVIOUS
    <3>2. BootSame(g, y)
      BY <1>1, <3>1, InstallBoot
    <3>3. g' = [y EXCEPT !.labelled = g.labelled]
      BY <2>2, <3>1
    <3> QED BY <3>2, <3>3 DEF BootSame, BootFields
  <2>3. CASE g' = [g EXCEPT !.script = Append(@, "dynamic")]
    BY <1>1, <2>3 DEF BootSame, BootRecord, BootFields
  <2> QED BY <1>2, <2>1, <2>2, <2>3
<1>15. CASE DynamicScriptsWindows
  BY <1>2, <1>15 DEF DynamicScriptsWindows, LinuxInv, LinuxShape, LinuxRecord
<1> QED BY <1>4, <1>5, <1>6, <1>7, <1>8, <1>9, <1>10, <1>11, <1>12, <1>13, <1>14, <1>15 DEF BootQuiet

\* How they move on, unless they fail
Moves == {<<"attach", "scan">>, <<"uefi", "select">>, <<"cleanup", "cleanup">>, <<"cleanup", "network">>,
          <<"network", "agent">>, <<"agent", "tidy">>, <<"tidy", "initramfs">>, <<"static", "static">>,
          <<"static", "relabel">>, <<"relabel", "output">>, <<"finalize", "customize">>,
          <<"customize", "customize">>, <<"customize", "done">>}
BootProcess == Process \cup {"kernels", "selected"}

\* They pass none of the blocks that matter for the boot.
LEMMA BootQuietSteps == ASSUME LinuxInv, BootInv, BootQuiet PROVE BootStep
<1>1. BootSame(g, g')
  BY BootQuietEdits
<1>2. BootProcess \subseteq DOMAIN c
  BY DEF LinuxInv, LinuxShape, BootInv, BootShape, BootProcess
<1>3. /\ out' = out /\ BootProcess \subseteq DOMAIN c' /\ c'.kernels = c.kernels /\ c'.selected = c.selected
      /\ c.logged \subseteq c'.logged /\ c.errors \subseteq c'.errors
      /\ <<c.pc, c'.pc>> \in Moves \/ c'.pc = "failed"
  <2> USE DEF At, Goto, Report, Fatal, Visit, BootProcess, Process, Moves
  <2>1. CASE AttachLinux
    <3>1. c.pc = "attach" /\ out' = out
          /\ (c' = [c EXCEPT !.pc = "scan"] \/ c' = [c EXCEPT !.pc = "failed"])
      BY <2>1 DEF AttachLinux
    <3> QED BY <1>2, <3>1
  <2>2. CASE FixupUEFI
    BY <1>2, <2>2 DEF FixupUEFI
  <2>3. CASE CleanHypervisors
    BY <1>2, <2>3 DEF CleanHypervisors, Cleanup
  <2>4. CASE KubeVirtNetworking
    <3>1. /\ c.pc = "network" /\ out' = out
          /\ \/ \E b : c' = [c EXCEPT !.pc = "agent", !.networkd = b]
             \/ c' = [c EXCEPT !.pc = "agent", !.networkd = TRUE, !.errors = @ \cup {"networkd"}]
      BY <2>4 DEF KubeVirtNetworking
    <3> QED BY <1>2, <3>1
  <2>5. CASE InstallAgent
    BY <1>2, <2>5 DEF InstallAgent
  <2>6. CASE GuestCleanup
    <3>1. c.pc = "tidy" /\ out' = out /\ c' = [c EXCEPT !.pc = "initramfs"]
      BY <2>6 DEF GuestCleanup
    <3> QED BY <1>2, <3>1
  <2>7. CASE NameNICs
    BY <1>2, <2>7 DEF NameNICs
  <2>8. CASE ConfigureStaticIPs
    BY <1>2, <2>8 DEF ConfigureStaticIPs
  <2>9. CASE Relabel
    BY <1>2, <2>9 DEF Relabel
  <2>10. CASE AttachFinalize
    BY <1>2, <2>10 DEF AttachFinalize
  <2>11. CASE Native
    BY <1>2, <2>11 DEF Native, Customizing, Customized
  <2>12. CASE DynamicScriptsLinux
    BY <1>2, <2>12 DEF DynamicScriptsLinux, Customizing, Customized
  <2>13. CASE DynamicScriptsWindows
    <3>1. c.pc = "customize" /\ out' = out /\ \E ok : Customized("dynamicscriptswindows", ok)
      BY <2>13 DEF DynamicScriptsWindows, Customizing
    <3> QED BY <1>2, <3>1 DEF Customized
  <2>14. CASE WriteTargetMeta
    BY <1>2, <2>14 DEF WriteTargetMeta
  <2> QED BY <2>1, <2>2, <2>3, <2>4, <2>5, <2>6, <2>7, <2>8, <2>9, <2>10, <2>11, <2>12, <2>13, <2>14 DEF BootQuiet
<1> QED BY <1>1, <1>3 DEF Moves, BootStep, BootProcess, Past, AfterScan, AfterRemap, AfterSelect, AfterConsole,
                         AfterRebuild, Late, Finalizing

\* The converter has not published while it converts.
LEMMA Unpublished == ASSUME LinuxInv, c.pc \in Converting PROVE ~out.published
BY DEF LinuxInv, LinuxShape, NoOutput

\* The scan's list is sorted, and has kernels of the guest only.
LEMMA ScanBoot == ASSUME LinuxInv, BootInv, Scan PROVE BootInv'
<1> USE DEF BootInv
<1>1. /\ c.pc = "scan" /\ g' = g /\ out' = out
      /\ \E f \in {"none", "rpm", "both", "boot", "drivers"}, v \in {k.ver : k \in g.kernels} \cup {0} :
           \E ks \in ByVersion(IF f = "both" THEN {} ELSE ScanKernels(f # "boot", {v})) :
             c' = [c EXCEPT !.pc = "remap", !.kernels = ks]
  BY DEF Scan, At
<1>2. PICK b, V, ks : /\ b \in BOOLEAN /\ ks \in ByVersion({}) \cup ByVersion(ScanKernels(b, V))
                      /\ c' = [c EXCEPT !.pc = "remap", !.kernels = ks]
  BY <1>1
<1>3. ~out.published
  BY <1>1, Unpublished DEF Converting, Early
<1>4. c'.pc = "remap" /\ c'.kernels = ks /\ c'.selected = c.selected /\ c'.logged = c.logged
      /\ c'.errors = c.errors /\ BootProcess \subseteq DOMAIN c'
  BY <1>2 DEF BootShape, BootProcess, Process, LinuxInv, LinuxShape
<1>5. BootShape'
  BY <1>1, <1>4 DEF BootShape, BootProcess
<1> DEFINE S == ScanKernels(b, V)
           P(k) == ProbeModules([k EXCEPT !.path = @ /\ b], k.ver \notin V)
           F == [k \in g.kernels |-> P(k)]
<1>6. S \subseteq KernelRecord /\ \A k \in S : k.ver \in DOMAIN g.initrd
  <2>1. ASSUME NEW k \in g.kernels PROVE P(k) \in KernelRecord /\ P(k).ver = k.ver
    <3>1. k \in KernelRecord
      BY DEF BootShape
    <3> QED BY <3>1 DEF KernelRecord, ProbeModules
  <2>2. S = {P(k) : k \in g.kernels}
    BY DEF ScanKernels
  <2>3. \A k \in g.kernels : k.ver \in DOMAIN g.initrd
    BY DEF BootShape
  <2> HIDE DEF P, S
  <2> QED BY <2>1, <2>2, <2>3
<1>7. IsFiniteSet(S)
  <2>1. S = {F[k] : k \in g.kernels} /\ DOMAIN F = g.kernels
    BY DEF ScanKernels
  <2> HIDE DEF F, S, P
  <2>2. F \in Surjection(g.kernels, S)
    <3>1. F = [k \in g.kernels |-> P(k)]
      BY DEF F
    <3>2. \A k \in g.kernels : F[k] \in S
      BY <2>1
    <3>3. F \in [g.kernels -> S]
      BY <3>1, <3>2
    <3> QED BY <2>1, <3>3 DEF Surjection
  <2> QED BY <2>2, FS_Surjection DEF BootShape
<1>8. PICK T : ks \in ByVersion(T) /\ IsFiniteSet(T) /\ T \subseteq KernelRecord /\ \A k \in T : k.ver \in DOMAIN g.initrd
  <2>1. IsFiniteSet({})
    BY FS_EmptySet
  <2> HIDE DEF S
  <2> QED BY <1>2, <1>6, <1>7, <2>1 DEF S
<1>9. PICK n \in Nat : n = Cardinality(T)
  BY <1>8, FS_CardinalityType
<1>10. ks \in [1 .. n -> T] /\ \A i, j \in DOMAIN ks : i < j => ks[i].ver > ks[j].ver
  BY <1>8, <1>9 DEF ByVersion, Greater
<1>11. ks \in Seq(KernelRecord) /\ Len(ks) = n /\ \A i \in 1 .. n : ks[i] \in T
  <2>1. \A i \in 1 .. n : ks[i] \in T
    BY <1>10
  <2>2. ks \in [1 .. n -> KernelRecord]
    BY <1>8, <1>10, <2>1
  <2>3. ks \in Seq(KernelRecord)
    BY <1>9, <2>2, SeqDef
  <2>4. Len(ks) = n
    BY <1>9, <2>2, <2>3, LenProperties
  <2> QED BY <2>1, <2>3, <2>4
<1>12. ScanInv'
  <2>1. c'.kernels \in Seq(KernelRecord) /\ \A i \in 1 .. Len(c'.kernels) : c'.kernels[i].ver \in DOMAIN g.initrd
    BY <1>4, <1>8, <1>11
  <2>2. Descending(c'.kernels)
    BY <1>4, <1>10, <1>11 DEF Descending
  <2> QED BY <1>1, <2>1, <2>2 DEF ScanInv, Descending
<1>13. SelectInv' /\ NamesInv' /\ RebuildInv'
  BY <1>1, <1>3, <1>4 DEF SelectInv, NamesInv, RebuildInv, Past, AfterRemap, AfterSelect, AfterConsole, AfterRebuild,
       Late, Finalizing
<1> QED BY <1>5, <1>12, <1>13

\* What may change in the files of the boot loader, while the rest stays
NamesEdited(x, y) ==
  BootRecord(y) /\ y.kernels = x.kernels /\ y.entries = x.entries /\ y.initrd = x.initrd

\* Remapping a file, or all of them
LEMMA RemapFacts ==
  ASSUME NEW x, BootRecord(x), NEW uuid, NEW n \in 1 .. 5
  PROVE  LET y == Remap(x, n, uuid) IN
         /\ NamesEdited(x, y)
         /\ n = 5 => \A f \in Remapped : y.names[f] # "source"
<1> DEFINE a == RemapFile(x, "fstab", "virtio")
           b == RemapCrypttab(a, uuid)
           d == RemapGrubDefaults(b)
           e == RemapBLSEntries(d)
<1> USE DEF BootRecord, BootFields, NameFields, NamesEdited, Wrote
<1>0. NamesEdited(x, x)
  OBVIOUS
<1>1. NamesEdited(x, a) /\ a.names.fstab # "source"
      /\ \A f \in {"crypttab", "grub", "bls"} : a.names[f] = x.names[f]
  BY DEF RemapFile
<1> HIDE DEF a
<1>2. NamesEdited(x, b) /\ b.names.fstab # "source" /\ b.names.crypttab # "source"
      /\ \A f \in {"grub", "bls"} : b.names[f] = x.names[f]
  BY <1>1 DEF RemapFile, RemapCrypttab
<1> HIDE DEF b
<1>3. NamesEdited(x, d) /\ \A f \in {"fstab", "crypttab", "grub"} : d.names[f] # "source"
  BY <1>2 DEF RemapGrubDefaults, RemapKernelArgs
<1> HIDE DEF d
<1>4. NamesEdited(x, e) /\ \A f \in Remapped : e.names[f] # "source"
  BY <1>3 DEF RemapBLSEntries, RemapKernelArgs, Remapped
<1> HIDE DEF e
<1>5. Remap(x, n, uuid) = <<x, a, b, d, e>>[n]
  BY DEF Remap, a, b, d, e
<1>6. n = 1 \/ n = 2 \/ n = 3 \/ n = 4 \/ n = 5
  OBVIOUS
<1> QED BY <1>0, <1>1, <1>2, <1>3, <1>4, <1>5, <1>6

\* When no error is reported, every file was remapped.
LEMMA RemapBoot == ASSUME LinuxInv, BootInv, RemapDevices PROVE BootInv'
<1> USE DEF BootInv
<1>1. BootRecord(g)
  BY DEF BootShape, BootRecord
<1>2. /\ c.pc = "remap" /\ out' = out /\ BootProcess \subseteq DOMAIN c
  BY DEF RemapDevices, At, BootShape, BootProcess, Process, LinuxInv, LinuxShape
<1>3. ~out.published
  BY <1>2, Unpublished DEF Converting, Early
<1>4. \/ g.names.fstab = "none" /\ g' = g /\ Goto("uefi")
      \/ \E uuid \in BOOLEAN : g' = Remap(g, 5, uuid) /\ Goto("uefi")
      \/ \E uuid \in BOOLEAN, n \in 1 .. 4 : g' = Remap(g, n, uuid) /\ Report({"device-remap"}, "uefi")
  BY DEF RemapDevices
<1>5. /\ NamesEdited(g, g')
      /\ "device-remap" \notin c'.errors /\ g'.names.fstab # "none" => \A f \in Remapped : g'.names[f] # "source"
      /\ BootProcess \subseteq DOMAIN c' /\ c'.pc = "uefi" /\ c'.kernels = c.kernels
  <2>1. CASE g.names.fstab = "none" /\ g' = g /\ Goto("uefi")
    BY <1>1, <1>2, <2>1 DEF NamesEdited, Goto, BootProcess, Process
  <2>2. CASE \E uuid \in BOOLEAN : g' = Remap(g, 5, uuid) /\ Goto("uefi")
    <3>1. 5 \in 1 .. 5
      OBVIOUS
    <3> QED BY <1>1, <1>2, <2>2, <3>1, RemapFacts DEF Goto, BootProcess, Process
  <2>3. CASE \E uuid \in BOOLEAN, n \in 1 .. 4 : g' = Remap(g, n, uuid) /\ Report({"device-remap"}, "uefi")
    <3>1. PICK uuid \in BOOLEAN, n \in 1 .. 4 : g' = Remap(g, n, uuid) /\ Report({"device-remap"}, "uefi")
      BY <2>3
    <3>2. n \in 1 .. 5
      OBVIOUS
    <3>3. NamesEdited(g, g')
      BY <1>1, <3>1, <3>2, RemapFacts
    <3>4. /\ "device-remap" \in c'.errors /\ BootProcess \subseteq DOMAIN c' /\ c'.pc = "uefi"
          /\ c'.kernels = c.kernels
      BY <1>2, <3>1 DEF Report, BootProcess, Process
    <3> QED BY <3>3, <3>4
  <2> QED BY <1>4, <2>1, <2>2, <2>3
<1>6. BootShape'
  BY <1>5 DEF BootShape, EntriesOK, BootRecord, NamesEdited, BootProcess
<1>7. ScanInv'
  BY <1>2, <1>5 DEF ScanInv, Descending, NamesEdited, Past, AfterScan
<1>8. NamesInv'
  BY <1>2, <1>3, <1>5 DEF NamesInv, Published, Past, AfterConsole, Late, Finalizing
<1>9. SelectInv' /\ RebuildInv'
  BY <1>2, <1>3, <1>5 DEF SelectInv, RebuildInv, Past, AfterSelect, AfterConsole, AfterRebuild, Late, Finalizing
<1> QED BY <1>6, <1>7, <1>8, <1>9

\* mkconfig takes the names of the grub defaults into grub.cfg.
LEMMA ConfigFacts ==
  ASSUME NEW x, BootRecord(x), NEW ok \in BOOLEAN
  PROVE  /\ LET y == Wrote(RegenerateConfig(x, ok)) IN
            /\ NamesEdited(x, y) /\ \A f \in Remapped : y.names[f] = x.names[f]
            /\ ok => y.names.cfg = y.names.grub
            /\ ~ok => y.names.cfg = x.names.cfg
         /\ NamesEdited(x, Wrote(x)) /\ Wrote(x).names = x.names
BY DEF Wrote, RegenerateConfig, BootRecord, BootFields, NameFields, NamesEdited, Remapped

\* SetDefaultKernel of the BLS entries: the entry that alone mentions v has the
\* prefix afterwards, since another one that got it would mention v too; and no
\* other has it unless it had it before.
LEMMA SetDefaultFacts ==
  ASSUME NEW x, BootRecord(x), EntriesOK(x), NEW v, NEW unread, NEW ok \in BOOLEAN
  PROVE  LET y == Wrote(SetDefaultBLS(x, v, unread, ok)) IN
         /\ BootRecord(y) /\ y.kernels = x.kernels /\ y.initrd = x.initrd /\ y.names = x.names /\ EntriesOK(y)
         /\ ok /\ unread = {} /\ (\A e \in x.entries : e.zero => v \in e.mentions) =>
              \A e \in y.entries : e.kernel = v /\ (\A d \in y.entries \ {e} : v \notin d.mentions) =>
                e.zero /\ \A d \in y.entries \ {e} : ~d.zero
<1> DEFINE found == {e \in x.entries \ unread : v \in e.mentions}
           first == {e \in found : \A d \in found \ {e} : Precedes(e, d)}
           Zero(e) == [e EXCEPT !.zero = TRUE]
           entries == (x.entries \ first) \cup {Zero(e) : e \in first}
           y == Wrote(SetDefaultBLS(x, v, unread, ok))
<1>1. SetDefaultBLS(x, v, unread, ok) = IF ok THEN [x EXCEPT !.entries = entries] ELSE x
  BY DEF SetDefaultBLS
<1>2. first \subseteq found /\ found \subseteq x.entries
  OBVIOUS
<1>3. \A e \in first : Zero(e) \in EntryRecord /\ Zero(e).zero = TRUE
                       /\ Zero(e).kernel = e.kernel /\ Zero(e).mentions = e.mentions
  BY <1>2 DEF EntriesOK, EntryRecord
<1>4. found \subseteq {e \in x.entries : v \in e.mentions}
  OBVIOUS
<1>5. unread = {} => found = {e \in x.entries : v \in e.mentions}
  OBVIOUS
<1>6. \A e \in found : found \subseteq {e} => e \in first
  OBVIOUS
<1> HIDE DEF found, first, Zero
<1>7. entries \subseteq EntryRecord /\ \A e \in entries : e.kernel \in e.mentions
  BY <1>2, <1>3 DEF EntriesOK
<1>8. ASSUME unread = {}, NEW e \in entries, e.kernel = v, \A d \in entries \ {e} : v \notin d.mentions
      PROVE  e.zero
  <2>1. CASE e \in {Zero(d) : d \in first}
    BY <1>3, <2>1
  <2>2. CASE e \in x.entries \ first
    <3>1. e \in found
      BY <1>5, <1>8, <2>2 DEF EntriesOK
    <3>2. PICK d \in found : d # e
      BY <1>6, <2>2, <3>1
    <3>3. v \in d.mentions
      BY <1>4, <3>2
    <3>4. d \in first
      BY <1>2, <1>8, <3>2, <3>3
    <3>5. Zero(d) \in entries /\ v \in Zero(d).mentions
      BY <1>3, <3>3, <3>4
    <3>6. Zero(d) = e
      BY <1>8, <3>5
    <3> QED BY <1>3, <3>4, <3>6
  <2> QED BY <1>8, <2>1, <2>2
<1>9. ASSUME \A d \in x.entries : d.zero => v \in d.mentions, NEW d \in entries, v \notin d.mentions
      PROVE  ~d.zero
  <2>1. CASE d \in x.entries
    BY <1>9, <2>1
  <2>2. CASE d \in {Zero(e) : e \in first}
    <3>1. PICK e \in first : d = Zero(e)
      BY <2>2
    <3>2. v \in e.mentions
      BY <1>2, <1>4, <3>1
    <3> QED BY <1>3, <1>9, <3>1, <3>2
  <2> QED BY <2>1, <2>2
<1> HIDE DEF entries
<1>10. /\ BootRecord(y) /\ y.kernels = x.kernels /\ y.initrd = x.initrd /\ y.names = x.names
      /\ y.entries = IF ok THEN entries ELSE x.entries
  BY <1>1 DEF Wrote, BootRecord, BootFields, NameFields
<1>11. EntriesOK(y)
  BY <1>7, <1>10 DEF EntriesOK
<1> QED BY <1>8, <1>9, <1>10, <1>11

\* The kernel that is selected is the best of the list, and the first to boot.
LEMMA SelectBoot == ASSUME LinuxInv, BootInv, SelectKernel PROVE BootInv'
<1> USE DEF BootInv
<1>1. BootRecord(g) /\ BootProcess \subseteq DOMAIN c
  BY DEF BootShape, BootRecord, BootProcess, Process, LinuxInv, LinuxShape
<1> DEFINE selected == Best(c.kernels)
           prefixed == {e \in g.entries : e.zero /\ selected.ver \notin e.mentions}
<1>2. PICK ok \in BOOLEAN, unread \in SUBSET g.entries :
        /\ c' = [c EXCEPT !.pc = "console", !.selected = selected,
                          !.logged = @ \cup (IF ok THEN {} ELSE {"default"})
                                       \cup (IF unread = {} THEN {} ELSE {"unread"})
                                       \cup (IF prefixed = {} THEN {} ELSE {"prefixed"})]
        /\ g' = IF selected = NoKernel THEN g
                ELSE CASE DetectFirst = "bls" -> Wrote(SetDefaultBLS(g, selected.ver, unread, ok))
                       [] DetectFirst = "grub2" -> Wrote(SetDefaultGrub2(g, ok))
                       [] OTHER -> g
  BY DEF SelectKernel
<1>3. c.pc = "select" /\ out' = out
  BY DEF SelectKernel, At
<1>4. ~out.published
  BY <1>3, Unpublished DEF Converting, Early
<1>5. BestOf(c.kernels, Len(c.kernels), selected)
  BY <1>3, BestIsBest DEF ScanInv, Past, AfterScan, AfterRemap
<1> HIDE DEF selected
<1>6. /\ BootProcess \subseteq DOMAIN c' /\ c'.pc = "console" /\ c'.kernels = c.kernels /\ c'.selected = selected
      /\ c'.errors = c.errors /\ ({"default", "unread", "prefixed"} \cap c'.logged = {} =>
            ok /\ unread = {} /\ \A e \in g.entries : e.zero => selected.ver \in e.mentions)
  BY <1>1, <1>2 DEF BootProcess, Process
<1>7. /\ BootRecord(g') /\ g'.kernels = g.kernels /\ g'.initrd = g.initrd /\ EntriesOK(g')
      /\ \A f \in Remapped : g'.names[f] = g.names[f]
      /\ /\ selected # NoKernel /\ g.names.bls # "none" /\ ok /\ unread = {}
         /\ \A e \in g.entries : e.zero => selected.ver \in e.mentions
         => \A e \in g'.entries :
              e.kernel = selected.ver /\ (\A d \in g'.entries \ {e} : selected.ver \notin d.mentions) =>
                e.zero /\ \A d \in g'.entries \ {e} : ~d.zero
  <2>0. EntriesOK(g)
    BY DEF BootShape
  <2>1. CASE selected = NoKernel
    BY <1>1, <1>2, <2>0, <2>1
  <2>2. CASE selected # NoKernel /\ DetectFirst = "bls"
    <3>1. g' = Wrote(SetDefaultBLS(g, selected.ver, unread, ok))
      BY <1>2, <2>2
    <3> QED BY <1>1, <2>0, <3>1, SetDefaultFacts
  <2>3. CASE selected # NoKernel /\ DetectFirst = "grub2"
    <3>1. g' = Wrote(RegenerateConfig(g, ok))
      BY <1>2, <2>3 DEF SetDefaultGrub2
    <3>2. g.names.bls = "none"
      BY <2>3 DEF DetectFirst
    <3> QED BY <1>1, <2>0, <3>1, <3>2, ConfigFacts DEF NamesEdited, EntriesOK
  <2>4. CASE selected # NoKernel /\ DetectFirst \notin {"bls", "grub2"}
    <3>1. g.names.bls = "none"
      BY <2>4 DEF DetectFirst
    <3>2. g' = g
      BY <1>2, <2>4
    <3> QED BY <1>1, <2>0, <3>1, <3>2
  <2> QED BY <2>1, <2>2, <2>3, <2>4
<1>8. BootShape'
  BY <1>6, <1>7 DEF BootShape, BootRecord, BootProcess
<1>9. ScanInv'
  BY <1>3, <1>6, <1>7 DEF ScanInv, Descending, Past, AfterScan, AfterRemap
<1>10. SelectInv'
  <2>1. g'.names.bls = g.names.bls
    BY <1>7 DEF Remapped
  <2>2. BestOf(c'.kernels, Len(c'.kernels), c'.selected)
    BY <1>5, <1>6
  <2>3. c'.selected # NoKernel /\ g'.names.bls # "none" /\ {"default", "unread", "prefixed"} \cap c'.logged = {} =>
          \A e \in g'.entries :
            e.kernel = c'.selected.ver /\ (\A d \in g'.entries \ {e} : c'.selected.ver \notin d.mentions) =>
              e.zero /\ \A d \in g'.entries \ {e} : ~d.zero
    BY <1>6, <1>7, <2>1
  <2>4. \A e : Alone(e, c.selected.ver)' =>
          e.kernel = c'.selected.ver /\ \A d \in g'.entries \ {e} : c'.selected.ver \notin d.mentions
    BY DEF Alone
  <2>5. c'.selected # NoKernel /\ g'.names.bls # "none" /\ {"default", "unread", "prefixed"} \cap c'.logged = {} =>
          \A e \in g'.entries : Alone(e, c.selected.ver)' => e.zero /\ \A d \in g'.entries \ {e} : ~d.zero
    BY <2>3, <2>4
  <2> QED BY <2>2, <2>5 DEF SelectInv, BestOf
<1>11. NamesInv'
  <2>1. g'.names.fstab = g.names.fstab
    BY <1>7 DEF Remapped
  <2> QED BY <1>3, <1>4, <1>6, <1>7, <2>1 DEF NamesInv, Published, Past, AfterRemap, AfterConsole, Late, Finalizing
<1>12. RebuildInv'
  BY <1>3, <1>4, <1>6 DEF RebuildInv, Past, AfterRebuild, Finalizing
<1> QED BY <1>8, <1>9, <1>10, <1>11, <1>12

\* Editing the kernel's arguments: with grub2 grub.cfg follows, or that is logged.
LEMMA ArgsBoot ==
  ASSUME LinuxInv, BootInv, c.pc \in {"console", "display"}, c'.pc \in {"display", "cleanup"}, out' = out,
         NEW ok \in BOOLEAN, BootSame(EditArgs(g, ok), g'), BootProcess \subseteq DOMAIN c',
         c'.kernels = c.kernels, c'.selected = c.selected, c'.errors = c.errors,
         c'.logged = IF ok THEN c.logged ELSE c.logged \cup {"args"}
  PROVE  BootInv'
<1> USE DEF BootInv
<1>1. BootRecord(g)
  BY DEF BootShape, BootRecord
<1>2. PICK y : y = EditArgs(g, ok)
  OBVIOUS
<1>3. /\ NamesEdited(g, y) /\ \A f \in Remapped : y.names[f] = g.names[f]
      /\ DetectFirst = "grub2" => (y.names.cfg = y.names.grub \/ ~ok)
  <2>1. CASE DetectFirst = "bls"
    BY <1>1, <1>2, <2>1, ConfigFacts DEF EditArgs, EditArgsBLS
  <2>2. CASE DetectFirst = "grub2"
    BY <1>1, <1>2, <2>2, ConfigFacts DEF EditArgs, EditArgsGrub2
  <2>3. CASE DetectFirst \notin {"bls", "grub2"}
    BY <1>1, <1>2, <2>3 DEF EditArgs, NamesEdited
  <2> QED BY <2>1, <2>2, <2>3
<1>4. /\ BootRecord(g') /\ g'.kernels = g.kernels /\ g'.entries = g.entries /\ g'.initrd = g.initrd
      /\ g'.names = y.names /\ \A f \in Remapped : g'.names[f] = g.names[f]
  BY <1>2, <1>3 DEF NamesEdited, BootSame, BootRecord, BootFields
<1>5. ~out.published
  BY Unpublished DEF Converting, Early
<1>6. g'.names.fstab = g.names.fstab /\ g'.names.bls = g.names.bls /\ g'.names.grub = g.names.grub
  BY <1>4 DEF Remapped
<1>7. BootShape'
  BY <1>4 DEF BootShape, EntriesOK, BootRecord, BootProcess
<1>8. ScanInv'
  BY <1>4 DEF ScanInv, Descending, Past, AfterScan, AfterRemap, AfterSelect, AfterConsole
<1>9. SelectInv'
  BY <1>4, <1>6 DEF SelectInv, BestOf, Alone, Past, AfterSelect, AfterConsole
<1>10. DetectFirst' = DetectFirst
  BY <1>6 DEF DetectFirst
<1>11. NamesInv'
  <2>1. "device-remap" \notin c'.errors /\ g'.names.fstab # "none" => \A f \in Remapped : g'.names[f] # "source"
    BY <1>4, <1>5, <1>6 DEF NamesInv, Published, Past, AfterRemap, AfterSelect, AfterConsole
  <2>2. DetectFirst = "grub2" => g'.names.cfg = g'.names.grub \/ "args" \in c'.logged
    BY <1>3, <1>4
  <2> QED BY <1>5, <1>10, <2>1, <2>2 DEF NamesInv, Published
<1>12. RebuildInv'
  BY <1>5 DEF RebuildInv, Past, AfterRebuild, Finalizing
<1> QED BY <1>7, <1>8, <1>9, <1>11, <1>12

\* So the console block does, and the display block, which then edits xorg.conf.
LEMMA ConsoleBoot == ASSUME LinuxInv, BootInv, ConfigureConsole \/ ConfigureDisplay PROVE BootInv'
<1>1. BootRecord(g) /\ BootProcess \subseteq DOMAIN c
  BY DEF BootInv, BootShape, BootRecord, BootProcess, Process, LinuxInv, LinuxShape
<1>2. PICK ok, xorg : /\ ok \in BOOLEAN /\ c.pc \in {"console", "display"} /\ out' = out
                      /\ Logged("args", ok, "display") \/ Logged("args", ok, "cleanup")
                      /\ g' = EditArgs(g, ok) \/ g' = ConfigureXorgDriver(EditArgs(g, ok), xorg)
  <2>1. CASE ConfigureConsole
    BY <2>1 DEF ConfigureConsole, At
  <2>2. CASE ConfigureDisplay
    BY <2>2 DEF ConfigureDisplay, At
  <2> QED BY <2>1, <2>2
<1>3. /\ c'.pc \in {"display", "cleanup"} /\ BootProcess \subseteq DOMAIN c'
      /\ c'.kernels = c.kernels /\ c'.selected = c.selected /\ c'.errors = c.errors
      /\ c'.logged = IF ok THEN c.logged ELSE c.logged \cup {"args"}
  BY <1>1, <1>2 DEF Logged, BootProcess, Process
<1>4. BootRecord(EditArgs(g, ok))
  BY <1>1, <1>2, ConfigFacts DEF EditArgs, EditArgsBLS, EditArgsGrub2, NamesEdited
<1>5. BootSame(EditArgs(g, ok), g')
  BY <1>2, <1>4, BootHelpers, BootSameTrans
<1> QED BY <1>2, <1>3, <1>5, ArgsBoot

\* A rebuild that is taken for done, and was compared, made an image with the
\* kernel's drivers: the old image is the backup, so its size would be the same.
LEMMA RebuildFacts ==
  ASSUME NEW k, k.virtio, NEW old, NEW earlier, NEW backup, backup = IF old # NoImage THEN old ELSE earlier,
         NEW r \in Rebuilds(k, old, backup), r.ok, r.verified
  PROVE  r.image.virtio
<1> DEFINE results == DracutResults(k, old)
           built == {d \in results : ~d.err}
           broken == results \ built
           End(image, ok, verified, cost) == [image |-> image, ok |-> ok, verified |-> verified, cost |-> cost]
<1>1. \/ \E d \in built : r = End(d.image, VerifyInitramfsRebuilt(backup, d.image), backup # NoImage, d.cost)
      \/ \E d \in built : r = End(d.image, TRUE, FALSE, d.cost + 1)
      \/ \E d \in broken : r = End(d.image, FALSE, TRUE, d.cost)
      \/ \E d \in broken : \E t \in InitramfsTools(k, d.image) : r = End(t.image, ~t.err, TRUE, d.cost + t.cost)
  BY DEF Rebuilds
<1>2. CASE \E d \in built : r = End(d.image, VerifyInitramfsRebuilt(backup, d.image), backup # NoImage, d.cost)
  <2>1. PICK d \in built : r = End(d.image, VerifyInitramfsRebuilt(backup, d.image), backup # NoImage, d.cost)
    BY <1>2
  <2>2. d \in DracutResults(k, old) /\ ~d.err
    OBVIOUS
  <2>3. d.image = old \/ \E n \in {1, 2} : d.image = Image(k, n)
    BY <2>2 DEF DracutResults
  <2>4. r.image = d.image /\ backup # NoImage /\ d.image # NoImage /\ d.image.size # backup.size
    BY <2>1 DEF VerifyInitramfsRebuilt
  <2>5. d.image # old
    BY <2>4
  <2> QED BY <2>3, <2>4, <2>5 DEF Image
<1>3. CASE \E d \in built : r = End(d.image, TRUE, FALSE, d.cost + 1)
  BY <1>3
<1>4. CASE \E d \in broken : r = End(d.image, FALSE, TRUE, d.cost)
  BY <1>4
<1>5. CASE \E d \in broken : \E t \in InitramfsTools(k, d.image) : r = End(t.image, ~t.err, TRUE, d.cost + t.cost)
  <2>1. PICK d, t : t \in InitramfsTools(k, d.image) /\ r = End(t.image, ~t.err, TRUE, d.cost + t.cost)
    BY <1>5
  <2>2. ~t.err /\ r.image = t.image
    BY <2>1
  <2>3. t.image = Image(k, 3)
    BY <2>1, <2>2 DEF InitramfsTools
  <2> QED BY <2>2, <2>3 DEF Image
<1> QED BY <1>1, <1>2, <1>3, <1>4, <1>5

\* The rebuild of the selected kernel's initramfs
LEMMA InjectBoot == ASSUME LinuxInv, BootInv, InjectVirtioModules PROVE BootInv'
<1> USE DEF BootInv
<1>1. BootRecord(g) /\ BootProcess \subseteq DOMAIN c
  BY DEF BootShape, BootRecord, BootProcess, Process, LinuxInv, LinuxShape
<1>2. c.pc = "initramfs" /\ c.selected # NoKernel /\ out' = out
  BY DEF InjectVirtioModules, At
<1>3. ~out.published
  BY <1>2, Unpublished DEF Converting, Late
<1>4. PICK v, old, earlier : v = c.selected.ver /\ old = g.initrd[v] /\ earlier = g.backup[v]
  OBVIOUS
<1>5. PICK copied, backup, r :
        /\ copied \in BOOLEAN /\ backup = (IF old # NoImage /\ copied THEN old ELSE earlier)
        /\ r \in Rebuilds(c.selected, old, backup)
        /\ g' = Wrote([g EXCEPT !.initrd[v] = r.image, !.backup[v] = backup])
        /\ c' = [c EXCEPT !.pc = IF r.ok THEN "static" ELSE "failed",
                          !.logged = IF copied /\ r.verified THEN @ ELSE @ \cup {"unverified"}]
  BY <1>4 DEF InjectVirtioModules
<1>6. v \in DOMAIN g.initrd
  <2>1. Past(AfterSelect) /\ Past(AfterScan)
    BY <1>2 DEF Past, AfterScan, AfterRemap, AfterSelect, AfterConsole, Late
  <2>2. \E i \in 1 .. Len(c.kernels) : c.selected = c.kernels[i]
    BY <1>2, <2>1 DEF SelectInv, BestOf
  <2> QED BY <1>4, <2>1, <2>2 DEF ScanInv
<1>7. /\ BootRecord(g') /\ g'.kernels = g.kernels /\ g'.names = g.names /\ g'.entries = g.entries
      /\ g'.initrd = [g.initrd EXCEPT ![v] = r.image]
  BY <1>1, <1>5 DEF BootRecord, BootFields, Wrote
<1>8. DOMAIN g'.initrd = DOMAIN g.initrd /\ g'.initrd[v] = r.image
  BY <1>6, <1>7
<1>9. /\ BootProcess \subseteq DOMAIN c' /\ c'.kernels = c.kernels /\ c'.selected = c.selected /\ c'.errors = c.errors
      /\ c'.pc \in {"static", "failed"} /\ (c'.pc = "static" => r.ok)
      /\ c.logged \subseteq c'.logged /\ ("unverified" \in c'.logged \/ (copied /\ r.verified))
  BY <1>1, <1>5 DEF BootProcess, Process
<1>10. BootShape'
  BY <1>7, <1>8, <1>9 DEF BootShape, EntriesOK, BootRecord, BootProcess
<1>11. ScanInv'
  BY <1>2, <1>3, <1>7, <1>8, <1>9 DEF ScanInv, Descending, Past, AfterScan, AfterRemap, AfterSelect, AfterConsole, Late
<1>12. SelectInv'
  BY <1>2, <1>3, <1>7, <1>9 DEF SelectInv, BestOf, Alone, Past, AfterSelect, AfterConsole, Late
<1>13. NamesInv'
  BY <1>2, <1>3, <1>7, <1>9 DEF NamesInv, Published, DetectFirst, Past, AfterRemap, AfterSelect, AfterConsole, Late
<1>14. ASSUME c'.pc = "static", c.selected.virtio, "unverified" \notin c'.logged PROVE r.image.virtio
  <2>1. copied /\ r.verified /\ r.ok
    BY <1>9, <1>14
  <2>2. backup = IF old # NoImage THEN old ELSE earlier
    BY <1>5, <2>1
  <2> QED BY <1>5, <1>14, <2>1, <2>2, RebuildFacts
<1>15. RebuildInv'
  BY <1>3, <1>2, <1>4, <1>8, <1>9, <1>14 DEF RebuildInv, Past, AfterRebuild, Finalizing
<1> QED BY <1>10, <1>11, <1>12, <1>13, <1>15

\* Without a kernel there is nothing to rebuild.
LEMMA SkipBoot == ASSUME LinuxInv, BootInv, SkipInitramfs PROVE BootInv'
<1> USE DEF BootInv
<1>1. BootProcess \subseteq DOMAIN c /\ c.pc = "initramfs" /\ c.selected = NoKernel /\ out' = out /\ g' = g
      /\ c' = [c EXCEPT !.pc = "static"]
  BY DEF SkipInitramfs, At, Goto, BootShape, BootProcess, Process, LinuxInv, LinuxShape
<1>2. BootProcess \subseteq DOMAIN c' /\ c'.kernels = c.kernels /\ c'.selected = c.selected /\ c'.errors = c.errors
      /\ c'.pc = "static" /\ c'.logged = c.logged
  BY <1>1 DEF BootProcess, Process
<1>3. ~out.published
  BY <1>1, Unpublished DEF Converting, Late
<1>4. BootShape' /\ ScanInv'
  BY <1>1, <1>2 DEF BootShape, BootProcess, ScanInv, Descending, Past, AfterScan, AfterRemap, AfterSelect,
       AfterConsole, Late
<1>5. SelectInv' /\ NamesInv'
  BY <1>1, <1>2 DEF SelectInv, BestOf, Alone, NamesInv, Published, DetectFirst, Past, AfterRemap, AfterSelect,
       AfterConsole, Late
<1>6. RebuildInv'
  BY <1>1, <1>2, <1>3 DEF RebuildInv
<1> QED BY <1>4, <1>5, <1>6

\* The output announces a virtio disk when the kernel has the drivers.
LEMMA WriteBoot == ASSUME LinuxInv, BootInv, WriteLinux PROVE BootInv'
<1> USE DEF BootInv
<1>1. BootProcess \subseteq DOMAIN c /\ c.pc = "output" /\ g' = g
  BY DEF WriteLinux, At, BootShape, BootProcess, Process, LinuxInv, LinuxShape
<1>2. \/ /\ c' = [c EXCEPT !.pc = "finalize"]
         /\ out' = [published |-> TRUE, bus |-> BuildLinux, errors |-> c.errors, relabeled |-> c.relabeled]
      \/ c' = [c EXCEPT !.pc = "failed"] /\ out' = out
  BY DEF WriteLinux, Goto, Fatal
<1>3. ~out.published
  BY <1>1, Unpublished DEF Converting
<1>4. /\ BootProcess \subseteq DOMAIN c' /\ c'.kernels = c.kernels /\ c'.selected = c.selected /\ c'.errors = c.errors
      /\ c'.logged = c.logged
      /\ \/ c'.pc = "finalize" /\ out'.published /\ out'.errors = c.errors /\ out'.bus = BuildLinux
         \/ c'.pc = "failed" /\ ~out'.published
  BY <1>1, <1>2, <1>3 DEF BootProcess, Process
<1>5. Past(AfterScan) /\ Past(AfterRemap) /\ Past(AfterSelect) /\ Past(AfterConsole) /\ Past(AfterRebuild)
  BY <1>1 DEF Past, AfterScan, AfterRemap, AfterSelect, AfterConsole, AfterRebuild
<1>6. BootShape' /\ ScanInv'
  BY <1>1, <1>4, <1>5 DEF BootShape, BootProcess, ScanInv, Descending
<1>7. SelectInv'
  BY <1>1, <1>4, <1>5 DEF SelectInv, BestOf, Alone
<1>8. NamesInv'
  <2>1. Published = c.errors /\ (out'.published => Published' = c.errors)
    BY <1>3, <1>4 DEF Published
  <2>2. (Past(AfterRemap)' => out'.published) /\ (Past(AfterConsole)' => out'.published)
    BY <1>4 DEF Past, AfterRemap, AfterSelect, AfterConsole, Late, Finalizing
  <2> QED BY <1>1, <1>4, <1>5, <2>1, <2>2 DEF NamesInv, DetectFirst
<1>9. RebuildInv'
  BY <1>1, <1>4, <1>5 DEF RebuildInv, BuildLinux
<1> QED BY <1>6, <1>7, <1>8, <1>9

\* A second run starts anew, on the same kernels.
LEMMA RerunBoot == ASSUME LinuxInv, BootInv, Rerun \/ UNCHANGED vars PROVE BootInv'
<1>1. CASE Rerun
  <2>1. g' = g /\ out' = NoOutput /\ c' = NewLinux
    BY <1>1 DEF Rerun, LinuxInv, LinuxShape, LinuxRecord
  <2>2. c'.pc = "attach" /\ {"kernels", "selected"} \subseteq DOMAIN c' /\ ~out'.published
    BY <2>1 DEF NewLinux, NoOutput
  <2> QED BY <2>1, <2>2 DEF BootInv, BootShape, ScanInv, SelectInv, NamesInv, RebuildInv, Past, AfterScan, AfterRemap,
       AfterSelect, AfterConsole, AfterRebuild, Late, Finalizing
<1>2. CASE UNCHANGED vars
  BY <1>2 DEF vars, BootInv, BootShape, ScanInv, Descending, SelectInv, BestOf, Alone, NamesInv, RebuildInv, Published,
       DetectFirst, Past
<1> QED BY <1>1, <1>2

\* A guest that no converter has seen
LEMMA InitBoot == ASSUME LinuxInit, out = NoOutput PROVE BootInv
<1>1. /\ BootFields \cup {"backup"} \subseteq DOMAIN g /\ NameFields \subseteq DOMAIN g.names
      /\ g.kernels \subseteq KernelRecord /\ IsFiniteSet(g.kernels)
      /\ {k.ver : k \in g.kernels} \subseteq DOMAIN g.initrd /\ EntriesOK(g)
  BY LinuxGuestsAssumption DEF LinuxInit, BootFields, NameFields, KernelRecord, EntryRecord, EntriesOK
<1>2. c.pc = "attach" /\ {"kernels", "selected"} \subseteq DOMAIN c /\ ~out.published
  BY DEF LinuxInit, NewLinux, NoOutput
<1> QED BY <1>1, <1>2 DEF BootInv, BootShape, ScanInv, SelectInv, NamesInv, RebuildInv, Past, AfterScan, AfterRemap,
       AfterSelect, AfterConsole, AfterRebuild, Late, Finalizing

-----------------------------------------------------------------------------
(* The Windows part of the invariant *)

GuestFields == {"os", "product", "files", "system", "software", "tools", "installed", "sys", "lost",
                "scripts", "launcher"}
SystemFields == {"filters", "services", "enabled", "boot", "criticalDB", "driverDB"}
SoftwareFields == {"keys", "runOnce"}
ProcessFields == {"pc", "errors", "done", "drivers", "copied", "logged", "system", "software"}

\* The blocks before the hives are open, those that edit the host's copy of
\* SYSTEM once the tools are removed, and those after it is saved
Unopened == {"attach", "open"}
Registered == {"firstboot", "ntfs", "uefi", "system"}
Removed == {"copy", "register"} \cup Registered
Saved == {"software", "output"}
WindowsBlocks == Unopened \cup {"drivers", "remove"} \cup Removed \cup Saved
SystemSaved == c.pc \in Saved \/ out.published

WindowsShape ==
  /\ GuestFields \subseteq DOMAIN g /\ SystemFields \subseteq DOMAIN g.system
  /\ SoftwareFields \subseteq DOMAIN g.software
  /\ ProcessFields \subseteq DOMAIN c /\ SystemFields \subseteq DOMAIN c.system
  /\ SoftwareFields \subseteq DOMAIN c.software
  /\ g.os = "windows" /\ g.product \in DOMAIN Classify
  /\ c.pc \in WindowsBlocks \cup Finalizing \cup {"failed"}
  /\ c.pc \in WindowsBlocks => out = NoOutput
  /\ runs \in Nat \ {0}

\* Nothing of h is started from this SYSTEM hive.
Gone(h, hive) == h.stops \cap hive.enabled = {} /\ h.filters \cap hive.filters = {}

\* The tools that this run can find: all in the first run.
Traced(h) == h.name \in g.tools /\ (runs = 1 \/ ~FilesOnly(h))

\* Traced tools are gone from the hive, or still reveal themselves to the block
\* that removes them; software with a key, or with evidence that stays, reveals
\* itself to every later run as long as the hive on the disk starts it.
Tools(h) ==
  /\ h.name \in g.tools /\ ~FilesOnly(h) =>
       \/ Gone(h, g.system) \/ (h.evidence \ h.removes) \cap g.files # {}
       \/ h.keys \cap g.software.keys # {}
  /\ Traced(h) =>
       /\ c.pc \in Unopened =>
            Gone(h, g.system) \/ h.evidence \cap g.files # {} \/ h.keys \cap g.software.keys # {}
       /\ c.pc \in {"drivers", "remove"} => Gone(h, c.system) \/ (Revealed(h) /\ h.name \notin c.done)
       /\ c.pc \in Removed => Gone(h, c.system)
       /\ SystemSaved => Gone(h, g.system)

ToolsInv ==
  /\ \A h \in WindowsRemoves : Tools(h)
  /\ \A h \in WindowsRemoves : h.keys \cap g.installed # {} => h.name \in g.tools
  /\ c.pc \in Unopened \cup {"drivers"} => c.done = {}

\* Every class filter belongs to tools that are installed.
FiltersInv ==
  /\ \A f \in g.system.filters : \E h \in WindowsRemoves : h.name \in g.tools /\ f \in h.filters
  /\ c.pc \in {"drivers", "remove"} \cup Removed => c.system.filters \subseteq g.system.filters

ServicesInv ==
  /\ c.pc \in Registered => c.system.enabled \cap DisabledServices = {}
  /\ SystemSaved => g.system.enabled \cap DisabledServices = {}

\* The devices that are bound to a driver in the database that this Windows reads
Bound(hive) == IF Version.registrar = "driverdb" THEN hive.driverDB ELSE hive.criticalDB

\* A storage driver that was copied is on the disk or known to be lost, and the
\* hive starts it.
DriversInv ==
  /\ c.pc \in Unopened \cup {"drivers", "remove", "copy"} => c.copied = {}
  /\ c.pc \in {"register"} \cup Registered \cup Saved => c.copied \cap BootCriticalDrivers \subseteq g.sys \cup g.lost
  /\ c.pc \in Registered =>
       c.copied \cap BootCriticalDrivers \subseteq c.system.boot \cap Bound(c.system)
  /\ c.pc \in Saved => c.copied \cap BootCriticalDrivers \subseteq g.system.boot \cap Bound(g.system)
  /\ out.published /\ out.bus = "virtio" =>
       \E d \in BootCriticalDrivers \cap g.system.boot : d \in g.sys \cup g.lost /\ d \in Bound(g.system)

\* A contributor's script is of the kind that the version's launcher runs.
ScriptOK(s, v) ==
  s.prio \notin {10, 1000} =>
    /\ s.prio # 9100 => (v.ps = TRUE => s.bat = FALSE) /\ (v.ps = FALSE => s.bat = TRUE)
    /\ LauncherRuns(v.launcher, s)

LauncherOK(software) == software.runOnce /\ (g.launcher \/ "launcher" \in c.logged)

FirstbootInv ==
  /\ \A s \in g.scripts : ScriptOK(s, Version)
  /\ c.pc \in {"remove", "copy", "register", "firstboot"} /\ "qemu-ga" \in c.drivers => Version.agent
  /\ c.pc \in {"ntfs", "uefi", "system", "software"} /\ "firstboot" \notin c.errors => LauncherOK(c.software)
  /\ c.pc = "output" /\ "firstboot" \notin c.errors => LauncherOK(g.software)
  /\ out.published /\ "firstboot" \notin out.errors => LauncherOK(g.software)

WindowsInv == WindowsShape /\ ToolsInv /\ FiltersInv /\ ServicesInv /\ DriversInv /\ FirstbootInv

\* No product hides another: what reveals it is its own, but for xenfilt.sys,
\* and who else removes that also drops the filter and the service.
LEMMA RemovesApart ==
  ASSUME NEW h \in WindowsRemoves, NEW k \in WindowsRemoves
  PROVE  /\ h.name = k.name => h = k
         /\ h # k => h.keys \cap k.keys = {}
         /\ k.removes \cap (h.evidence \ h.removes) = {}
         /\ h # k /\ k.removes \cap h.evidence # {} => h.filters \subseteq k.filters /\ h.stops \subseteq k.stops
         /\ h.stops \cap BootCriticalDrivers = {}
         /\ h.evidence = {} => h.stops = {} /\ h.filters = {}
<1>1. /\ NoTools.evidence = {} /\ NoTools.keys = {} /\ NoTools.filters = {} /\ NoTools.stops = {}
      /\ NoTools.removes = {}
      /\ {"name", "evidence", "keys", "services", "filters", "stops", "removes"} \subseteq DOMAIN NoTools
  BY DEF NoTools
<1>2. /\ AWSPV.name = "awspv" /\ AWSPV.evidence = {"xenfilt.sys"} /\ AWSPV.keys = {"AWS_PV_Drivers"}
      /\ AWSPV.filters = {"XENFILT"} /\ AWSPV.stops = {"xenfilt"} /\ AWSPV.removes = {"xenfilt.sys"}
  BY <1>1 DEF AWSPV
<1>3. /\ CitrixTools.name = "citrix" /\ CitrixTools.evidence = {"Citrix/XenTools"}
      /\ CitrixTools.keys = {"Citrix_XenTools"} /\ CitrixTools.filters = {"XENFILT"}
      /\ CitrixTools.stops = {"XenSvc"} /\ CitrixTools.removes = {"Citrix/XenTools"}
  BY <1>1 DEF CitrixTools
<1>4. /\ EC2Cleanup.name = "ec2" /\ EC2Cleanup.evidence = {"Amazon"} /\ EC2Cleanup.keys = {}
      /\ EC2Cleanup.filters = {"XENFILT"} /\ EC2Cleanup.stops = {"xenfilt", "AmazonSSMAgent"}
      /\ EC2Cleanup.removes = {"Tasks/Amazon", "xenfilt.sys"}
  BY <1>1 DEF EC2Cleanup
<1>5. /\ EC2Launch.name = "ec2launch" /\ EC2Launch.evidence = {"Amazon/EC2Launch"} /\ EC2Launch.keys = {"EC2Launch"}
      /\ EC2Launch.filters = {} /\ EC2Launch.stops = {} /\ EC2Launch.removes = {"Amazon/EC2Launch"}
  BY <1>1 DEF EC2Launch
<1>6. /\ HyperVRemove.name = "hyperv" /\ HyperVRemove.evidence = {} /\ HyperVRemove.keys = {}
      /\ HyperVRemove.filters = {} /\ HyperVRemove.stops = {} /\ HyperVRemove.removes = {}
  BY <1>1 DEF HyperVRemove
<1>7. /\ NutanixRemove.name = "nutanix" /\ NutanixRemove.evidence = {"Nutanix"} /\ NutanixRemove.keys = {"Nutanix"}
      /\ NutanixRemove.filters = {} /\ NutanixRemove.stops = {} /\ NutanixRemove.removes = {"Nutanix"}
  BY <1>1 DEF NutanixRemove
<1>8. /\ ParallelsTools.name = "parallels" /\ ParallelsTools.evidence = {"Parallels_Tools"}
      /\ ParallelsTools.keys = {"Parallels_Tools"} /\ ParallelsTools.filters = {"prl_strg"}
      /\ ParallelsTools.stops = {"prl_strg"} /\ ParallelsTools.removes = {"Parallels_Tools"}
  BY <1>1 DEF ParallelsTools
<1>9. /\ VBoxAdditions.name = "virtualbox" /\ VBoxAdditions.evidence = {"Guest_Additions"}
      /\ VBoxAdditions.keys = {"VirtualBox_Guest_Additions"} /\ VBoxAdditions.filters = {}
      /\ VBoxAdditions.stops = {} /\ VBoxAdditions.removes = {"Guest_Additions", "vboxguest.sys"}
  BY <1>1 DEF VBoxAdditions
<1>10. /\ VMwareRemove.name = "vmware" /\ VMwareRemove.evidence = {"VMware_Tools"} /\ VMwareRemove.keys = {"VMware_Tools"}
       /\ VMwareRemove.filters = {} /\ VMwareRemove.stops = {} /\ VMwareRemove.removes = {"VMware_Tools"}
  BY <1>1 DEF VMwareRemove
<1> USE <1>2, <1>3, <1>4, <1>5, <1>6, <1>7, <1>8, <1>9, <1>10 DEF WindowsRemoves
<1>11. h.name = k.name => h = k
  OBVIOUS
<1>12. ASSUME NEW x, x \in h.keys, x \in k.keys PROVE h = k
  BY <1>12
<1>13. ASSUME NEW x, x \in k.removes, x \in h.evidence, x \notin h.removes PROVE FALSE
  BY <1>13
<1>14. ASSUME NEW x, x \in k.removes, x \in h.evidence, h # k
       PROVE  h.filters \subseteq k.filters /\ h.stops \subseteq k.stops
  <2>1. h = AWSPV /\ k = EC2Cleanup
    BY <1>14
  <2> QED BY <2>1
<1>15. h.stops \cap BootCriticalDrivers = {}
  BY DEF BootCriticalDrivers
<1>16. h.evidence = {} => h.stops = {} /\ h.filters = {}
  OBVIOUS
<1> QED BY <1>11, <1>12, <1>13, <1>14, <1>15, <1>16

\* What a block does that moves on, or ends the converter, and leaves all that
\* the invariant speaks of.
SameGuest == GuestFields \subseteq DOMAIN g' /\ \A f \in GuestFields : g'[f] = g[f]
Forward == <<c.pc, c'.pc>> \in {<<"attach", "open">>, <<"ntfs", "uefi">>, <<"uefi", "system">>} \/ c'.pc = "failed"
WindowsQuiet ==
  /\ SameGuest /\ out' = out /\ runs' = runs
  /\ ProcessFields \subseteq DOMAIN c' /\ \A f \in ProcessFields \ {"pc"} : c'[f] = c[f]
  /\ Forward

\* What the invariant's parts look at in a guest
LEMMA SameGuestFacts ==
  ASSUME SameGuest
  PROVE  /\ g'.os = g.os /\ g'.product = g.product /\ g'.files = g.files /\ g'.system = g.system
         /\ g'.software = g.software /\ g'.tools = g.tools /\ g'.installed = g.installed
         /\ g'.sys = g.sys /\ g'.lost = g.lost /\ g'.scripts = g.scripts /\ g'.launcher = g.launcher
         /\ Version' = Version
BY DEF SameGuest, GuestFields, Version

\* Such a step keeps the invariant.
LEMMA WindowsQuietInv == ASSUME WindowsInv, WindowsQuiet PROVE WindowsInv'
<1> USE DEF WindowsInv, WindowsQuiet
<1>1. /\ g'.os = g.os /\ g'.product = g.product /\ g'.files = g.files /\ g'.system = g.system
      /\ g'.software = g.software /\ g'.tools = g.tools /\ g'.installed = g.installed
      /\ g'.sys = g.sys /\ g'.lost = g.lost /\ g'.scripts = g.scripts /\ g'.launcher = g.launcher
      /\ Version' = Version
  BY SameGuestFacts
<1>2. /\ c'.errors = c.errors /\ c'.done = c.done /\ c'.drivers = c.drivers /\ c'.copied = c.copied
      /\ c'.logged = c.logged /\ c'.system = c.system /\ c'.software = c.software
  BY DEF ProcessFields
<1>3. \/ c.pc = "attach" /\ c'.pc = "open"
      \/ c.pc = "ntfs" /\ c'.pc = "uefi"
      \/ c.pc = "uefi" /\ c'.pc = "system"
      \/ c'.pc = "failed"
  BY DEF Forward
<1>4. WindowsShape'
  BY <1>1, <1>2, <1>3 DEF WindowsShape, SameGuest, WindowsBlocks, Unopened, Removed, Registered, Saved
<1>5. SystemSaved' => SystemSaved
  BY <1>3 DEF SystemSaved, Saved
<1>6. ToolsInv'
  <2>1. ASSUME NEW h \in WindowsRemoves PROVE Tools(h)'
    <3>1. Tools(h)
      BY DEF ToolsInv
    <3>2. (FilesOnly(h)' <=> FilesOnly(h)) /\ (Traced(h)' <=> Traced(h)) /\ (Revealed(h)' <=> Revealed(h))
      BY <1>1, <1>2 DEF FilesOnly, Traced, Revealed
    <3> QED BY <1>1, <1>2, <1>3, <1>5, <3>1, <3>2 DEF Tools, Gone, Unopened, Removed, Registered
  <2> QED BY <1>1, <1>2, <1>3, <2>1 DEF ToolsInv, Unopened
<1>7. FiltersInv'
  BY <1>1, <1>2, <1>3 DEF FiltersInv, Removed, Registered
<1>8. ServicesInv'
  BY <1>1, <1>2, <1>3, <1>5 DEF ServicesInv, Registered
<1>9. DriversInv'
  BY <1>1, <1>2, <1>3 DEF DriversInv, Bound, Unopened, Registered, Saved
<1>10. FirstbootInv'
  BY <1>1, <1>2, <1>3 DEF FirstbootInv, LauncherOK
<1> QED BY <1>4, <1>6, <1>7, <1>8, <1>9, <1>10

\* The guest is untouched and the converter goes to block, or ends.
LEMMA GotoQuiet ==
  ASSUME WindowsInv, SameGuest, out' = out, runs' = runs, NEW block,
         <<c.pc, block>> \in {<<"attach", "open">>, <<"ntfs", "uefi">>, <<"uefi", "system">>} \/ block = "failed",
         Goto(block)
  PROVE  WindowsQuiet
BY DEF WindowsInv, WindowsShape, WindowsQuiet, Forward, Goto, ProcessFields

\* A fatal error ends the converter and changes nothing else.
LEMMA FatalInv == ASSUME WindowsInv, SameGuest, out' = out, runs' = runs, Fatal PROVE WindowsInv'
<1>1. Goto("failed")
  BY DEF Fatal, Goto
<1> QED BY <1>1, GotoQuiet, WindowsQuietInv

\* A guest that is not written is the same guest.
LEMMA WindowsStutter == ASSUME WindowsInv, g' = g PROVE SameGuest
BY DEF WindowsInv, WindowsShape, SameGuest

\* The blocks that attach, and that fix the boot sector and the ESPs, are quiet.
LEMMA QuietWindowsBlocks ==
  ASSUME WindowsInv, AttachWindows \/ FixNTFSHeads \/ FixupBCD PROVE WindowsInv'
<1>1. CASE AttachWindows
  <2>1. SameGuest /\ c.pc = "attach" /\ out' = out /\ runs' = runs /\ (Goto("open") \/ Fatal)
    BY <1>1, WindowsStutter DEF AttachWindows, At
  <2> QED BY <2>1, GotoQuiet, WindowsQuietInv, FatalInv
<1>2. CASE FixNTFSHeads
  <2>1. PICK ok : g' = [g EXCEPT !.heads = @ \/ (Version.heads /\ ok)]
    BY <1>2 DEF FixNTFSHeads
  <2>2. SameGuest
    BY <2>1 DEF WindowsInv, WindowsShape, SameGuest, GuestFields
  <2>3. c.pc = "ntfs" /\ out' = out /\ runs' = runs /\ Goto("uefi")
    BY <1>2 DEF FixNTFSHeads, At
  <2> QED BY <2>2, <2>3, GotoQuiet, WindowsQuietInv
<1>3. CASE FixupBCD
  <2>1. PICK failed : g' = BCDEditor(g, failed)
    BY <1>3 DEF FixupBCD
  <2>2. SameGuest
    BY <2>1 DEF WindowsInv, WindowsShape, SameGuest, GuestFields, BCDEditor, ConvertAllESPs
  <2>3. c.pc = "uefi" /\ out' = out /\ runs' = runs /\ Goto("system")
    BY <1>3 DEF FixupBCD, At
  <2> QED BY <2>2, <2>3, GotoQuiet, WindowsQuietInv
<1> QED BY <1>1, <1>2, <1>3

\* The hives are read from the disk: the tools they start reveal themselves.
LEMMA OpenHivesInv == ASSUME WindowsInv, OpenHives PROVE WindowsInv'
<1>1. CASE Fatal
  BY <1>1, FatalInv, WindowsStutter DEF OpenHives
<1>2. CASE c' = [c EXCEPT !.pc = "drivers", !.system = g.system, !.software = g.software]
  <2> USE DEF WindowsInv
  <2>1. c.pc = "open" /\ g' = g /\ out' = out /\ runs' = runs
    BY DEF OpenHives, At
  <2>2. /\ c'.pc = "drivers" /\ c'.system = g.system /\ c'.software = g.software /\ c'.errors = c.errors
        /\ c'.done = {} /\ c'.copied = {} /\ ProcessFields \subseteq DOMAIN c' /\ out = NoOutput
    BY <1>2, <2>1 DEF WindowsShape, ProcessFields, ToolsInv, DriversInv, Unopened, WindowsBlocks
  <2>3. WindowsShape'
    BY <2>1, <2>2 DEF WindowsShape, WindowsBlocks
  <2>4. ~SystemSaved' /\ ~out'.published
    BY <2>1, <2>2 DEF SystemSaved, Saved, NoOutput
  <2>5. ToolsInv'
    <3>1. ASSUME NEW h \in WindowsRemoves PROVE Tools(h)'
      <4>1. Tools(h)
        BY DEF ToolsInv
      <4>2. (FilesOnly(h)' <=> FilesOnly(h)) /\ (Traced(h)' <=> Traced(h))
        BY <2>1 DEF FilesOnly, Traced
      <4>3. h.evidence \cap g.files # {} \/ h.keys \cap g.software.keys # {} => Revealed(h)'
        BY <2>1, <2>2 DEF Revealed
      <4> QED BY <2>1, <2>2, <2>4, <4>1, <4>2, <4>3 DEF Tools, Gone, Unopened, Removed, Registered
    <3> QED BY <2>1, <2>2, <3>1 DEF ToolsInv
  <2>6. FiltersInv'
    BY <2>1, <2>2 DEF FiltersInv
  <2>7. ServicesInv'
    BY <2>2, <2>4 DEF ServicesInv, Registered
  <2>8. DriversInv'
    BY <2>2, <2>4 DEF DriversInv, Registered, Saved
  <2>9. FirstbootInv'
    BY <2>1, <2>2, <2>4 DEF FirstbootInv, Version
  <2> QED BY <2>3, <2>5, <2>6, <2>7, <2>8, <2>9
<1> QED BY <1>1, <1>2 DEF OpenHives

\* The versions that cannot run the agent do not get it.
LEMMA CollectDriversInv == ASSUME WindowsInv, CollectDrivers PROVE WindowsInv'
<1>1. CASE Fatal
  BY <1>1, FatalInv, WindowsStutter DEF CollectDrivers
<1>2. CASE c' = [c EXCEPT !.pc = "remove", !.drivers =
              FilterComplete(OmitGuestAgentFiles(FindDrivers \cup CollectGuestAgentMSIs))]
  <2> USE DEF WindowsInv
  <2>1. c.pc = "drivers" /\ g' = g /\ out' = out /\ runs' = runs
    BY DEF CollectDrivers, At
  <2>2. PICK files : files = FindDrivers \cup CollectGuestAgentMSIs
    OBVIOUS
  <2>3. c' = [c EXCEPT !.pc = "remove", !.drivers = FilterComplete(OmitGuestAgentFiles(files))]
    BY <1>2, <2>2
  <2>4. /\ c'.pc = "remove" /\ c'.system = c.system /\ c'.software = c.software
        /\ c'.done = c.done /\ c'.copied = {} /\ ProcessFields \subseteq DOMAIN c' /\ out = NoOutput
        /\ c'.drivers = FilterComplete(OmitGuestAgentFiles(files))
    BY <2>1, <2>3 DEF WindowsShape, ProcessFields, DriversInv, WindowsBlocks
  <2>5. "qemu-ga" \in c'.drivers => Version.agent
    BY <2>4 DEF FilterComplete, OmitGuestAgentFiles
  <2>6. WindowsShape'
    BY <2>1, <2>4 DEF WindowsShape, WindowsBlocks
  <2>7. ~SystemSaved' /\ ~out'.published
    BY <2>1, <2>4 DEF SystemSaved, Saved, NoOutput
  <2>8. ToolsInv'
    <3>1. ASSUME NEW h \in WindowsRemoves PROVE Tools(h)'
      <4>1. Tools(h)
        BY DEF ToolsInv
      <4>2. (FilesOnly(h)' <=> FilesOnly(h)) /\ (Traced(h)' <=> Traced(h)) /\ (Revealed(h)' <=> Revealed(h))
        BY <2>1, <2>4 DEF FilesOnly, Traced, Revealed
      <4> QED BY <2>1, <2>4, <2>7, <4>1, <4>2 DEF Tools, Gone, Unopened, Removed, Registered
    <3> QED BY <2>1, <2>4, <3>1 DEF ToolsInv, Unopened
  <2>9. FiltersInv'
    BY <2>1, <2>4 DEF FiltersInv
  <2>10. ServicesInv'
    BY <2>4, <2>7 DEF ServicesInv, Registered
  <2>11. DriversInv'
    BY <2>4, <2>7 DEF DriversInv, Registered, Saved
  <2>12. FirstbootInv'
    BY <2>1, <2>4, <2>5, <2>7 DEF FirstbootInv, Version
  <2> QED BY <2>6, <2>8, <2>9, <2>10, <2>11, <2>12
<1> QED BY <1>1, <1>2 DEF CollectDrivers

\* One plugin removes its product, and leaves what reveals the others, or
\* drops what they start as well.
LEMMA RemoveToolsInv ==
  ASSUME WindowsInv, At("windows", "remove"), NEW k \in WindowsRemoves, RemoveTools(k), UNCHANGED <<out, runs>>
  PROVE  WindowsInv'
<1> USE DEF WindowsInv
<1>1. PICK left \in {{}} \cup {{f} : f \in k.removes \cap g.files}, written \in BOOLEAN :
        g' = LET x == [g EXCEPT !.files = @ \ (k.removes \ left)]
             IN IF k.name = "vmware" /\ written THEN WriteMSIUninstallFirstboot(x) ELSE x
  BY DEF RemoveTools
<1>2. /\ GuestFields \subseteq DOMAIN g' /\ g'.files = g.files \ (k.removes \ left)
      /\ g'.scripts \subseteq g.scripts \cup {Script(10, FALSE)}
      /\ g'.os = g.os /\ g'.product = g.product /\ g'.system = g.system /\ g'.software = g.software
      /\ g'.tools = g.tools /\ g'.installed = g.installed /\ g'.sys = g.sys /\ g'.lost = g.lost
      /\ g'.launcher = g.launcher
  BY <1>1 DEF WindowsShape, GuestFields, WriteMSIUninstallFirstboot
<1>3. /\ c.pc = "remove" /\ out' = out /\ runs' = runs /\ out = NoOutput
  BY DEF At, WindowsShape, WindowsBlocks
<1>4. /\ ProcessFields \subseteq DOMAIN c' /\ c'.pc = "remove" /\ c'.done = c.done \cup {k.name}
      /\ c'.drivers = c.drivers /\ c'.copied = c.copied /\ c'.errors = c.errors
      /\ SystemFields \subseteq DOMAIN c'.system /\ SoftwareFields \subseteq DOMAIN c'.software
      /\ c'.software.keys = c.software.keys \ k.keys /\ c'.system.services = c.system.services
      /\ c'.system.filters = c.system.filters \ k.filters /\ c'.system.enabled = c.system.enabled \ k.stops
  <2>1. c' = [c EXCEPT !.done = @ \cup {k.name}, !.software.keys = @ \ k.keys,
                    !.system = DisableService(RemoveFilter(@, k.filters), k.stops)]
    BY DEF RemoveTools
  <2>2. c'.system = DisableService(RemoveFilter(c.system, k.filters), k.stops)
        /\ c'.software = [c.software EXCEPT !.keys = @ \ k.keys] /\ c'.pc = c.pc /\ c'.done = c.done \cup {k.name}
        /\ c'.drivers = c.drivers /\ c'.copied = c.copied /\ c'.errors = c.errors /\ DOMAIN c' = DOMAIN c
    BY <2>1 DEF WindowsShape, ProcessFields
  <2>3. SoftwareFields \subseteq DOMAIN c'.software /\ c'.software.keys = c.software.keys \ k.keys
    BY <2>2 DEF WindowsShape, SoftwareFields
  <2>4. PICK x, y : x = RemoveFilter(c.system, k.filters) /\ y = DisableService(x, k.stops)
    OBVIOUS
  <2>5. /\ SystemFields \subseteq DOMAIN x /\ x.services = c.system.services /\ x.enabled = c.system.enabled
        /\ x.filters = c.system.filters \ k.filters
    BY <2>4 DEF WindowsShape, SystemFields, RemoveFilter
  <2>6. /\ SystemFields \subseteq DOMAIN y /\ y.services = x.services /\ y.enabled = x.enabled \ k.stops
        /\ y.filters = x.filters
    BY <2>4, <2>5 DEF SystemFields, DisableService
  <2>7. c'.system = y
    BY <2>2, <2>4
  <2> QED BY <1>3, <2>2, <2>3, <2>5, <2>6, <2>7 DEF WindowsShape
<1>5. WindowsShape'
  BY <1>2, <1>3, <1>4 DEF WindowsShape, WindowsBlocks
<1>6. ~SystemSaved' /\ ~out'.published
  BY <1>3, <1>4 DEF SystemSaved, Saved, NoOutput
<1>7. ToolsInv'
  <2>1. ASSUME NEW h \in WindowsRemoves PROVE Tools(h)'
    <3>1. Tools(h)
      BY DEF ToolsInv
    <3>2. (FilesOnly(h)' <=> FilesOnly(h)) /\ (Traced(h)' <=> Traced(h))
      BY <1>2, <1>3 DEF FilesOnly, Traced
    <3>3. (h.evidence \ h.removes) \cap g.files # {} => (h.evidence \ h.removes) \cap g'.files # {}
      BY <1>2, RemovesApart
    <3>4. Gone(h, c.system) => Gone(h, c'.system)
      BY <1>4 DEF Gone
    <3>5. CASE h = k
      <4>1. Gone(h, c'.system)
        BY <3>5, <1>4 DEF Gone
      <4> QED BY <1>2, <1>4, <1>6, <3>1, <3>2, <3>3, <4>1 DEF Tools, Unopened, Removed, Registered
    <3>6. CASE h # k /\ k.removes \cap h.evidence # {}
      <4>1. h.filters \subseteq k.filters /\ h.stops \subseteq k.stops
        BY <3>6, RemovesApart
      <4>2. Gone(h, c'.system)
        BY <4>1, <1>4 DEF Gone
      <4> QED BY <1>2, <1>4, <1>6, <3>1, <3>2, <3>3, <4>2 DEF Tools, Unopened, Removed, Registered
    <3>7. CASE h # k /\ k.removes \cap h.evidence = {}
      <4>1. h.name # k.name /\ h.keys \cap k.keys = {}
        BY <3>7, RemovesApart
      <4>2. Revealed(h) => Revealed(h)'
        BY <3>7, <4>1, <1>2, <1>4 DEF Revealed
      <4> QED BY <1>2, <1>3, <1>4, <1>6, <3>1, <3>2, <3>3, <3>4, <4>1, <4>2 DEF Tools, Unopened, Removed, Registered
    <3> QED BY <3>5, <3>6, <3>7
  <2> QED BY <1>2, <1>4, <2>1 DEF ToolsInv, Unopened
<1>8. FiltersInv'
  BY <1>2, <1>3, <1>4 DEF FiltersInv
<1>9. ServicesInv'
  BY <1>4, <1>6 DEF ServicesInv, Registered
<1>10. DriversInv'
  BY <1>3, <1>4, <1>6 DEF DriversInv, Registered, Saved, Unopened
<1>11. FirstbootInv'
  <2>1. Version' = Version /\ ScriptOK(Script(10, FALSE), Version)
    BY <1>2 DEF Version, ScriptOK, Script
  <2>2. \A s \in g'.scripts : ScriptOK(s, Version)
    BY <1>2, <2>1 DEF FirstbootInv
  <2>3. (\A s \in g.scripts : ScriptOK(s, Version))'
    BY <2>1, <2>2
  <2> QED BY <1>3, <1>4, <1>6, <2>1, <2>3 DEF FirstbootInv
<1> QED BY <1>5, <1>7, <1>8, <1>9, <1>10, <1>11

\* When no plugin finds its product any more, none is started from the hive.
LEMMA RemoveHypervisorsInv == ASSUME WindowsInv, RemoveHypervisors PROVE WindowsInv'
<1>1. CASE \E h \in WindowsRemoves : RemoveTools(h)
  BY <1>1, RemoveToolsInv DEF RemoveHypervisors
<1>2. CASE /\ \A h \in WindowsRemoves : ~Revealed(h) \/ h.name \in c.done
           /\ c' = [c EXCEPT !.pc = "copy", !.done = {}] /\ UNCHANGED <<g, faults>>
  <2> USE DEF WindowsInv
  <2>1. c.pc = "remove" /\ g' = g /\ out' = out /\ runs' = runs /\ out = NoOutput
    BY <1>2 DEF RemoveHypervisors, At, WindowsShape, WindowsBlocks
  <2>2. /\ c'.pc = "copy" /\ c'.system = c.system /\ c'.software = c.software
        /\ c'.copied = c.copied /\ c'.drivers = c.drivers /\ ProcessFields \subseteq DOMAIN c'
    BY <1>2 DEF WindowsShape, ProcessFields
  <2>3. WindowsShape'
    BY <2>1, <2>2 DEF WindowsShape, WindowsBlocks, Removed
  <2>4. ~SystemSaved' /\ ~out'.published
    BY <2>1, <2>2 DEF SystemSaved, Saved, NoOutput
  <2>5. ToolsInv'
    <3>1. ASSUME NEW h \in WindowsRemoves PROVE Tools(h)'
      <4>1. Tools(h) /\ (~Revealed(h) \/ h.name \in c.done)
        BY <1>2 DEF ToolsInv
      <4>2. (FilesOnly(h)' <=> FilesOnly(h)) /\ (Traced(h)' <=> Traced(h))
        BY <2>1 DEF FilesOnly, Traced
      <4>3. Traced(h) => Gone(h, c.system)
        BY <2>1, <4>1 DEF Tools
      <4> QED BY <2>1, <2>2, <2>4, <4>1, <4>2, <4>3 DEF Tools, Gone, Unopened, Removed, Registered
    <3> QED BY <2>1, <2>2, <3>1 DEF ToolsInv, Unopened
  <2>6. FiltersInv'
    BY <2>1, <2>2 DEF FiltersInv
  <2>7. ServicesInv'
    BY <2>2, <2>4 DEF ServicesInv, Registered
  <2>8. DriversInv'
    BY <2>1, <2>2, <2>4 DEF DriversInv, Registered, Saved, Unopened
  <2>9. FirstbootInv'
    BY <2>1, <2>2, <2>4 DEF FirstbootInv, Version
  <2> QED BY <2>3, <2>5, <2>6, <2>7, <2>8, <2>9
<1> QED BY <1>1, <1>2 DEF RemoveHypervisors

\* A storage driver counts as copied only if it is in place or known to be lost.
LEMMA CopyDriversInv == ASSUME WindowsInv, CopyDrivers PROVE WindowsInv'
<1> USE DEF WindowsInv
<1>1. c.pc = "copy" /\ out' = out /\ runs' = runs /\ out = NoOutput /\ c.copied = {}
  BY DEF CopyDrivers, At, WindowsShape, WindowsBlocks, Removed, DriversInv
<1>2. /\ GuestFields \subseteq DOMAIN g' /\ g'.os = g.os /\ g'.product = g.product /\ g'.files = g.files
      /\ g'.system = g.system /\ g'.software = g.software /\ g'.tools = g.tools /\ g'.installed = g.installed
      /\ g'.scripts = g.scripts /\ g'.launcher = g.launcher
      /\ c'.pc = "register" /\ c'.system = c.system /\ c'.software = c.software
      /\ c'.drivers = c.drivers /\ ProcessFields \subseteq DOMAIN c'
      /\ c'.copied \cap BootCriticalDrivers \subseteq g'.sys \cup g'.lost
  <2>1. CASE \E failed \in SUBSET c.drivers, lost \in SUBSET (c.drivers \cap BootCriticalDrivers) :
               /\ g' = [g EXCEPT !.staged = @ \cup (c.drivers \ failed), !.lost = lost,
                                 !.sys = @ \cup (((c.drivers \ failed) \cap BootCriticalDrivers) \ lost)]
               /\ c' = [c EXCEPT !.pc = "register", !.copied = c.drivers \ failed]
    <3>1. PICK failed, lost :
               /\ g' = [g EXCEPT !.staged = @ \cup (c.drivers \ failed), !.lost = lost,
                                 !.sys = @ \cup (((c.drivers \ failed) \cap BootCriticalDrivers) \ lost)]
               /\ c' = [c EXCEPT !.pc = "register", !.copied = c.drivers \ failed]
      BY <2>1
    <3> QED BY <3>1 DEF WindowsShape, GuestFields, ProcessFields
  <2>2. CASE g' = g /\ Report({"driver-copy"}, "register")
    BY <2>2, <1>1 DEF Report, WindowsShape, GuestFields, ProcessFields
  <2> QED BY <2>1, <2>2 DEF CopyDrivers
<1>3. WindowsShape'
  BY <1>1, <1>2 DEF WindowsShape, WindowsBlocks, Removed
<1>4. ~SystemSaved' /\ ~out'.published
  BY <1>1, <1>2 DEF SystemSaved, Saved, NoOutput
<1>5. ToolsInv'
  <2>1. ASSUME NEW h \in WindowsRemoves PROVE Tools(h)'
    <3>1. Tools(h)
      BY DEF ToolsInv
    <3>2. (FilesOnly(h)' <=> FilesOnly(h)) /\ (Traced(h)' <=> Traced(h))
      BY <1>1, <1>2 DEF FilesOnly, Traced
    <3> QED BY <1>1, <1>2, <1>4, <3>1, <3>2 DEF Tools, Gone, Unopened, Removed, Registered
  <2> QED BY <1>2, <2>1 DEF ToolsInv, Unopened
<1>6. FiltersInv'
  BY <1>1, <1>2 DEF FiltersInv, Removed
<1>7. ServicesInv'
  BY <1>2, <1>4 DEF ServicesInv, Registered
<1>8. DriversInv'
  BY <1>2, <1>4 DEF DriversInv, Registered, Saved, Unopened
<1>9. FirstbootInv'
  BY <1>1, <1>2, <1>4 DEF FirstbootInv, Version
<1> QED BY <1>3, <1>5, <1>6, <1>7, <1>8, <1>9

\* What registering drivers and the edits after it do to the SYSTEM hive
LEMMA RegisterFacts ==
  ASSUME WindowsInv,
         NEW hive, hive = DisableAutoReboot(DisableService(RegisterStorage(c.system), DisabledServices))
  PROVE  LET names == c.copied \cap BootCriticalDrivers IN
         /\ SystemFields \subseteq DOMAIN hive /\ hive.filters = c.system.filters
         /\ hive.enabled = (c.system.enabled \cup names) \ DisabledServices
         /\ names \subseteq hive.boot /\ names \subseteq Bound(hive)
<1>1. PICK x : x = RegisterStorage(c.system)
  OBVIOUS
<1>2. LET names == c.copied \cap BootCriticalDrivers IN
      /\ SystemFields \subseteq DOMAIN x /\ x.filters = c.system.filters
      /\ x.enabled = c.system.enabled \cup names /\ names \subseteq x.boot /\ names \subseteq Bound(x)
  <2>1. PICK names : names = c.copied \cap BootCriticalDrivers
    OBVIOUS
  <2>2. CASE Version.registrar = "driverdb"
    <3>1. x = RegisterDriverDB(c.system, names)
      BY <1>1, <2>1, <2>2 DEF RegisterStorage
    <3> QED BY <2>1, <2>2, <3>1 DEF RegisterDriverDB, Bound, WindowsInv, WindowsShape, SystemFields
  <2>3. CASE Version.registrar # "driverdb"
    <3>1. x = RegisterCriticalDB(c.system, names)
      BY <1>1, <2>1, <2>3 DEF RegisterStorage
    <3> QED BY <2>1, <2>3, <3>1 DEF RegisterCriticalDB, Bound, WindowsInv, WindowsShape, SystemFields
  <2> QED BY <2>2, <2>3
<1>3. PICK y : y = DisableService(x, DisabledServices)
  OBVIOUS
<1>4. /\ SystemFields \subseteq DOMAIN y /\ y.filters = x.filters /\ y.boot = x.boot
      /\ y.driverDB = x.driverDB /\ y.criticalDB = x.criticalDB /\ y.enabled = x.enabled \ DisabledServices
  BY <1>2, <1>3 DEF DisableService, SystemFields
<1>5. hive = [y EXCEPT !.autoReboot = FALSE]
  BY <1>1, <1>3 DEF DisableAutoReboot
<1>6. /\ SystemFields \subseteq DOMAIN hive /\ hive.filters = x.filters /\ hive.boot = x.boot
      /\ hive.driverDB = x.driverDB /\ hive.criticalDB = x.criticalDB /\ hive.enabled = x.enabled \ DisabledServices
  BY <1>4, <1>5 DEF SystemFields
<1> QED BY <1>2, <1>6 DEF Bound

\* The storage drivers start at boot, and the services of the tools do not.
LEMMA RegisterDriversInv == ASSUME WindowsInv, RegisterDrivers PROVE WindowsInv'
<1> USE DEF WindowsInv
<1>1. c.pc = "register" /\ g' = g /\ out' = out /\ runs' = runs /\ out = NoOutput
  BY DEF RegisterDrivers, At, WindowsShape, WindowsBlocks, Removed
<1>2. /\ c'.pc = "firstboot" /\ ProcessFields \subseteq DOMAIN c' /\ SoftwareFields \subseteq DOMAIN c'.software
      /\ c'.drivers = c.drivers /\ c'.copied = c.copied
      /\ c'.system = DisableAutoReboot(DisableService(RegisterStorage(c.system), DisabledServices))
  BY DEF RegisterDrivers, UpdateDevicePath, WindowsShape, ProcessFields
<1>3. /\ SystemFields \subseteq DOMAIN c'.system /\ c'.system.filters = c.system.filters
      /\ c'.system.enabled = (c.system.enabled \cup (c.copied \cap BootCriticalDrivers)) \ DisabledServices
      /\ c.copied \cap BootCriticalDrivers \subseteq c'.system.boot
      /\ c.copied \cap BootCriticalDrivers \subseteq Bound(c'.system)
  BY <1>2, RegisterFacts
<1>4. WindowsShape'
  BY <1>1, <1>2, <1>3 DEF WindowsShape, WindowsBlocks, Removed, Registered
<1>5. ~SystemSaved' /\ ~out'.published
  BY <1>1, <1>2 DEF SystemSaved, Saved, NoOutput
<1>6. ToolsInv'
  <2>1. ASSUME NEW h \in WindowsRemoves PROVE Tools(h)'
    <3>1. Tools(h)
      BY DEF ToolsInv
    <3>2. (FilesOnly(h)' <=> FilesOnly(h)) /\ (Traced(h)' <=> Traced(h))
      BY <1>1 DEF FilesOnly, Traced
    <3>3. h.stops \cap BootCriticalDrivers = {}
      BY RemovesApart
    <3>4. Gone(h, c.system) => Gone(h, c'.system)
      BY <1>3, <3>3 DEF Gone
    <3> QED BY <1>1, <1>2, <1>5, <3>1, <3>2, <3>4 DEF Tools, Unopened, Removed, Registered
  <2> QED BY <1>1, <1>2, <2>1 DEF ToolsInv, Unopened
<1>7. FiltersInv'
  BY <1>1, <1>2, <1>3 DEF FiltersInv, Removed
<1>8. ServicesInv'
  BY <1>3, <1>5 DEF ServicesInv
<1>9. DriversInv'
  <2>1. Bound(c.system)' = Bound(c'.system)
    BY <1>1 DEF Bound, Version
  <2> QED BY <1>1, <1>2, <1>3, <1>5, <2>1 DEF DriversInv, Registered, Saved, Unopened
<1>10. FirstbootInv'
  BY <1>1, <1>2, <1>5 DEF FirstbootInv, Version
<1> QED BY <1>4, <1>6, <1>7, <1>8, <1>9, <1>10

\* A handler without PowerShell runs .bat files only, gets no agent, and has
\* devcon do the clean-up of VMware.
VersionOK(v) ==
  \/ v.ps = TRUE /\ v.launcher # "batonly"
  \/ v.ps = FALSE /\ v.agent = FALSE /\ v.devcon = TRUE

\* That holds of every handler in the table.
LEMMA VersionFacts == ASSUME NEW p \in DOMAIN Classify PROVE VersionOK(Classify[p])
<1>1. \A d : VersionOK(Modern(d))
  BY DEF VersionOK, Modern
<1>2. \A d : /\ Win7(d).ps = TRUE /\ Win7(d).launcher = "psv1" /\ Win7(d).devcon = TRUE
             /\ {"launcher", "ps", "static", "disk", "devcon", "heads", "agent", "dirs"} \subseteq DOMAIN Win7(d)
  BY DEF Win7
<1>3. \A d : VersionOK(Win7(d))
  BY <1>2 DEF VersionOK
<1>4. /\ Win2008.ps = TRUE /\ Win2008.launcher = "psv1" /\ Win2008.devcon = TRUE
      /\ {"launcher", "ps", "static", "disk", "devcon", "agent", "dirs"} \subseteq DOMAIN Win2008
  BY <1>2 DEF Win2008
<1>5. VersionOK(Win2008) /\ VersionOK(WinVista)
  BY <1>4 DEF VersionOK, WinVista
<1>6. /\ Win2003.ps = FALSE /\ Win2003.agent = FALSE /\ Win2003.devcon = TRUE
      /\ {"launcher", "ps", "static", "disk", "devcon", "agent", "dirs"} \subseteq DOMAIN Win2003
  BY <1>2 DEF Win2003
<1>7. VersionOK(Win2003) /\ VersionOK(WinXP)
  BY <1>6 DEF VersionOK, WinXP
<1> QED BY <1>1, <1>3, <1>5, <1>7 DEF Classify

\* Every contributor writes a script that the version's launcher runs.
LEMMA ContributorsOK ==
  ASSUME WindowsInv, c.pc = "firstboot", NEW s \in Contributors PROVE ScriptOK(s, Version)
<1>1. VersionOK(Version)
  BY VersionFacts DEF WindowsInv, WindowsShape, Version
<1>2. "qemu-ga" \in c.drivers => Version.agent
  BY DEF WindowsInv, FirstbootInv
<1>3. \/ Version.ps = TRUE /\ Version.launcher # "batonly"
      \/ Version.ps = FALSE /\ Version.agent = FALSE /\ Version.devcon = TRUE
  BY <1>1 DEF VersionOK
<1> USE DEF Contributor, Script
<1>4. s \in Pnputil => Version.ps /\ s.bat = FALSE /\ s.prio = 2000
  BY SMT DEF Pnputil
<1>5. s \in RouteCleanup => Version.ps /\ s.bat = FALSE /\ s.prio = 2600
  BY SMT DEF RouteCleanup
<1>6. s \in MultipleIPs => Version.ps /\ s.bat = FALSE /\ s.prio = 2700
  BY SMT DEF MultipleIPs
<1>7. s \in QemuGA => Version.ps /\ s.bat = FALSE /\ s.prio = 3000
  <2>1. s \in QemuGA => "qemu-ga" \in c.drivers /\ s.bat = FALSE /\ s.prio = 3000
    BY SMT DEF QemuGA
  <2> QED BY <1>2, <1>3, <2>1, SMT
<1>8. s \in StaticIP \/ s \in DiskOnliner \/ s \in Signal => s.prio # 9100
  BY SMT DEF StaticIP, DiskOnliner, Signal
<1>9. s \in StaticIP \/ s \in DiskOnliner \/ s \in Signal =>
        (Version.ps = TRUE => s.bat = FALSE) /\ (Version.ps = FALSE => s.bat = TRUE)
  <2>1. s \in StaticIP => s.bat = ~Version.ps
    BY SMT DEF StaticIP
  <2>2. s \in DiskOnliner => s.bat = ~Version.ps
    BY SMT DEF DiskOnliner
  <2>3. s \in Signal => s.bat = ~Version.ps
    BY SMT DEF Signal
  <2> QED BY <2>1, <2>2, <2>3, Zenon
<1>10. s \in VMwareCleanup => s.bat = Version.devcon /\ s.prio = 9100
  BY SMT DEF VMwareCleanup
<1>11. \/ s \in Pnputil \/ s \in RouteCleanup \/ s \in MultipleIPs \/ s \in QemuGA
       \/ s \in StaticIP \/ s \in DiskOnliner \/ s \in Signal \/ s \in VMwareCleanup
  BY DEF Contributors
<1>12. CASE Version.ps = TRUE /\ Version.launcher # "batonly"
  <2>1. s.prio # 9100 => s.bat = FALSE
    BY <1>4, <1>5, <1>6, <1>7, <1>9, <1>10, <1>11, <1>12, SMT
  <2> QED BY <1>12, <2>1, SMT DEF ScriptOK, LauncherRuns
<1>13. CASE Version.ps = FALSE /\ Version.agent = FALSE /\ Version.devcon = TRUE
  <2>1. s.bat = TRUE
    BY <1>4, <1>5, <1>6, <1>7, <1>9, <1>10, <1>11, <1>13, SMT
  <2> QED BY <1>13, <2>1, SMT DEF ScriptOK, LauncherRuns
<1> QED BY <1>3, <1>12, <1>13

\* Scripts, launcher and RunOnce are in place, or the block is reported.
LEMMA ConfigureFirstbootInv == ASSUME WindowsInv, ConfigureFirstboot PROVE WindowsInv'
<1> USE DEF WindowsInv
<1>1. c.pc = "firstboot" /\ out' = out /\ runs' = runs /\ out = NoOutput
  BY DEF ConfigureFirstboot, At, WindowsShape, WindowsBlocks, Removed, Registered
<1>2. /\ GuestFields \subseteq DOMAIN g' /\ g'.os = g.os /\ g'.product = g.product /\ g'.files = g.files
      /\ g'.system = g.system /\ g'.software = g.software /\ g'.tools = g.tools /\ g'.installed = g.installed
      /\ g'.sys = g.sys /\ g'.lost = g.lost /\ g'.scripts \subseteq g.scripts \cup Contributors
      /\ c'.pc = "ntfs" /\ c'.system = c.system /\ c'.copied = c.copied
      /\ ProcessFields \subseteq DOMAIN c' /\ SoftwareFields \subseteq DOMAIN c'.software
      /\ "firstboot" \notin c'.errors => LauncherOK(c.software)'
  <2>1. CASE \E missed \in {{}} \cup {{s} : s \in Contributors}, launcher \in BOOLEAN :
               /\ g' = [g EXCEPT !.scripts = @ \cup (Contributors \ missed), !.launcher = @ \/ launcher]
               /\ c' = [c EXCEPT !.pc = "ntfs", !.software.runOnce = TRUE,
                                 !.logged = IF launcher THEN @ ELSE @ \cup {"launcher"}]
    <3>1. PICK missed \in {{}} \cup {{s} : s \in Contributors}, launcher \in BOOLEAN :
               /\ g' = [g EXCEPT !.scripts = @ \cup (Contributors \ missed), !.launcher = @ \/ launcher]
               /\ c' = [c EXCEPT !.pc = "ntfs", !.software.runOnce = TRUE,
                                 !.logged = IF launcher THEN @ ELSE @ \cup {"launcher"}]
      BY <2>1
    <3>2. /\ GuestFields \subseteq DOMAIN g' /\ g'.os = g.os /\ g'.product = g.product /\ g'.files = g.files
          /\ g'.system = g.system /\ g'.software = g.software /\ g'.tools = g.tools /\ g'.installed = g.installed
          /\ g'.sys = g.sys /\ g'.lost = g.lost /\ g'.scripts \subseteq g.scripts \cup Contributors
          /\ g'.launcher = (g.launcher \/ launcher)
      BY <3>1 DEF WindowsShape, GuestFields
    <3>3. /\ c'.pc = "ntfs" /\ c'.system = c.system /\ c'.copied = c.copied
          /\ ProcessFields \subseteq DOMAIN c' /\ SoftwareFields \subseteq DOMAIN c'.software
          /\ c'.software.runOnce = TRUE
          /\ c'.logged = IF launcher THEN c.logged ELSE c.logged \cup {"launcher"}
      BY <3>1 DEF WindowsShape, ProcessFields, SoftwareFields
    <3>4. "launcher" \in c.logged \cup {"launcher"}
      OBVIOUS
    <3>5. g'.launcher \/ "launcher" \in c'.logged
      BY <3>2, <3>3, <3>4, Zenon
    <3> QED BY <3>2, <3>3, <3>5 DEF LauncherOK
  <2>2. CASE g' = g /\ Report({"firstboot"}, "ntfs")
    BY <2>2 DEF Report, WindowsShape, GuestFields, ProcessFields
  <2> QED BY <2>1, <2>2 DEF ConfigureFirstboot
<1>3. WindowsShape'
  BY <1>1, <1>2 DEF WindowsShape, WindowsBlocks, Removed, Registered
<1>4. ~SystemSaved' /\ ~out'.published
  BY <1>1, <1>2 DEF SystemSaved, Saved, NoOutput
<1>5. ToolsInv'
  <2>1. ASSUME NEW h \in WindowsRemoves PROVE Tools(h)'
    <3>1. Tools(h)
      BY DEF ToolsInv
    <3>2. (FilesOnly(h)' <=> FilesOnly(h)) /\ (Traced(h)' <=> Traced(h))
      BY <1>1, <1>2 DEF FilesOnly, Traced
    <3> QED BY <1>1, <1>2, <1>4, <3>1, <3>2 DEF Tools, Gone, Unopened, Removed, Registered
  <2> QED BY <1>2, <2>1 DEF ToolsInv, Unopened
<1>6. FiltersInv'
  BY <1>1, <1>2 DEF FiltersInv, Removed, Registered
<1>7. ServicesInv'
  BY <1>1, <1>2, <1>4 DEF ServicesInv, Registered
<1>8. DriversInv'
  BY <1>1, <1>2, <1>4 DEF DriversInv, Registered, Saved, Unopened, Bound, Version
<1>9. FirstbootInv'
  <2>1. \A s \in g'.scripts : ScriptOK(s, Version)
    BY <1>1, <1>2, ContributorsOK DEF FirstbootInv
  <2>2. Version' = Version
    BY <1>2 DEF Version
  <2>3. (\A s \in g.scripts : ScriptOK(s, Version))'
    BY <2>1, <2>2
  <2> QED BY <1>2, <1>4, <2>3 DEF FirstbootInv
<1> QED BY <1>3, <1>5, <1>6, <1>7, <1>8, <1>9

\* A hive whose check-in fails may be torn, and is otherwise the one of before.
LEMMA CheckinFails ==
  ASSUME WindowsInv, c.pc \in Saved \cup {"system"}, NEW hive \in {"system", "software"}, NEW whole,
         g' = [g EXCEPT ![hive].whole = whole], Fatal, out' = out, runs' = runs
  PROVE  WindowsInv'
<1> USE DEF WindowsInv
<1>1. /\ GuestFields \subseteq DOMAIN g' /\ g'.os = g.os /\ g'.product = g.product /\ g'.files = g.files
      /\ g'.tools = g.tools /\ g'.installed = g.installed /\ g'.sys = g.sys /\ g'.lost = g.lost
      /\ g'.scripts = g.scripts /\ g'.launcher = g.launcher
  BY DEF WindowsShape, GuestFields
<1>2. /\ SystemFields \subseteq DOMAIN g'.system /\ SoftwareFields \subseteq DOMAIN g'.software
      /\ \A f \in SystemFields : g'.system[f] = g.system[f]
      /\ \A f \in SoftwareFields : g'.software[f] = g.software[f]
  BY DEF WindowsShape, GuestFields, SystemFields, SoftwareFields
<1>3. /\ g'.system.filters = g.system.filters /\ g'.system.enabled = g.system.enabled
      /\ g'.software.keys = g.software.keys
  BY <1>2 DEF SystemFields, SoftwareFields
<1>4. /\ ProcessFields \subseteq DOMAIN c' /\ c'.pc = "failed" /\ c'.system = c.system /\ c'.software = c.software
      /\ out = NoOutput
  BY DEF Fatal, WindowsShape, ProcessFields, WindowsBlocks, Removed, Registered
<1>5. WindowsShape'
  BY <1>1, <1>2, <1>4 DEF WindowsShape, WindowsBlocks, Unopened, Removed, Registered, Saved
<1>6. ~SystemSaved' /\ ~out'.published
  BY <1>4 DEF SystemSaved, Saved, NoOutput
<1>7. ToolsInv'
  <2>1. ASSUME NEW h \in WindowsRemoves PROVE Tools(h)'
    <3>1. Tools(h)
      BY DEF ToolsInv
    <3>2. (FilesOnly(h)' <=> FilesOnly(h)) /\ (Gone(h, g'.system) <=> Gone(h, g.system))
      BY <1>1, <1>3 DEF FilesOnly, Gone
    <3> QED BY <1>1, <1>3, <1>4, <1>6, <3>1, <3>2 DEF Tools, Unopened, Removed, Registered
  <2> QED BY <1>1, <1>4, <2>1 DEF ToolsInv, Unopened
<1>8. FiltersInv'
  BY <1>1, <1>3, <1>4 DEF FiltersInv, Removed, Registered
<1>9. ServicesInv'
  BY <1>4, <1>6 DEF ServicesInv, Registered
<1>10. DriversInv'
  BY <1>4, <1>6 DEF DriversInv, Registered, Saved, Unopened
<1>11. FirstbootInv'
  BY <1>1, <1>4, <1>6 DEF FirstbootInv, Version
<1> QED BY <1>5, <1>7, <1>8, <1>9, <1>10, <1>11

\* The edited SYSTEM hive replaces the one on the disk.
LEMMA SaveSystemInv == ASSUME WindowsInv, SaveSystem PROVE WindowsInv'
<1> USE DEF WindowsInv
<1>1. c.pc = "system" /\ out' = out /\ runs' = runs /\ out = NoOutput
  BY DEF SaveSystem, At, WindowsShape, WindowsBlocks, Removed, Registered
<1>2. CASE \E whole \in BOOLEAN : g' = [g EXCEPT !["system"].whole = whole] /\ Fatal
  BY <1>1, <1>2, CheckinFails
<1>3. CASE g' = [g EXCEPT !["system"] = c["system"]] /\ Goto("software")
  <2>1. /\ GuestFields \subseteq DOMAIN g' /\ g'.os = g.os /\ g'.product = g.product /\ g'.files = g.files
        /\ g'.software = g.software /\ g'.tools = g.tools /\ g'.installed = g.installed /\ g'.sys = g.sys
        /\ g'.lost = g.lost /\ g'.scripts = g.scripts /\ g'.launcher = g.launcher /\ g'.system = c.system
    BY <1>3 DEF WindowsShape, GuestFields
  <2>2. /\ ProcessFields \subseteq DOMAIN c' /\ c'.pc = "software" /\ c'.system = c.system /\ c'.software = c.software
        /\ c'.copied = c.copied /\ c'.errors = c.errors /\ c'.logged = c.logged
    BY <1>3 DEF Goto, WindowsShape, ProcessFields
  <2>3. WindowsShape'
    BY <1>1, <2>1, <2>2 DEF WindowsShape, WindowsBlocks, Saved
  <2>4. ToolsInv'
    <3>1. ASSUME NEW h \in WindowsRemoves PROVE Tools(h)'
      <4>1. Tools(h)
        BY DEF ToolsInv
      <4>2. (FilesOnly(h)' <=> FilesOnly(h)) /\ (Traced(h)' <=> Traced(h))
        BY <1>1, <2>1 DEF FilesOnly, Traced
      <4>3. Traced(h) => Gone(h, g'.system)
        BY <1>1, <2>1, <4>1 DEF Tools, Removed, Registered
      <4>4. h.name \in g.tools /\ ~FilesOnly(h) => Traced(h)
        BY DEF Traced
      <4> QED BY <2>1, <2>2, <4>2, <4>3, <4>4 DEF Tools, Unopened, Removed, Registered
    <3> QED BY <2>1, <2>2, <3>1 DEF ToolsInv, Unopened
  <2>5. FiltersInv'
    BY <1>1, <2>1, <2>2 DEF FiltersInv, Removed, Registered
  <2>6. ServicesInv'
    BY <1>1, <2>1, <2>2 DEF ServicesInv, Registered
  <2>7. ~out'.published
    BY <1>1 DEF NoOutput
  <2>8. DriversInv'
    BY <1>1, <2>1, <2>2, <2>7 DEF DriversInv, Registered, Saved, Unopened, Bound, Version
  <2>9. FirstbootInv'
    BY <1>1, <2>1, <2>2, <2>7 DEF FirstbootInv, LauncherOK, Version
  <2> QED BY <2>3, <2>4, <2>5, <2>6, <2>8, <2>9
<1> QED BY <1>2, <1>3 DEF SaveSystem, Checkin

\* SOFTWARE follows: the keys that are gone from it belong to tools that SYSTEM
\* no longer starts.
LEMMA SaveSoftwareInv == ASSUME WindowsInv, SaveSoftware PROVE WindowsInv'
<1> USE DEF WindowsInv
<1>1. c.pc = "software" /\ out' = out /\ runs' = runs /\ out = NoOutput
  BY DEF SaveSoftware, At, WindowsShape, WindowsBlocks, Saved
<1>2. CASE \E whole \in BOOLEAN : g' = [g EXCEPT !["software"].whole = whole] /\ Fatal
  BY <1>1, <1>2, CheckinFails DEF Saved
<1>3. CASE g' = [g EXCEPT !["software"] = c["software"]] /\ Goto("output")
  <2>1. /\ GuestFields \subseteq DOMAIN g' /\ g'.os = g.os /\ g'.product = g.product /\ g'.files = g.files
        /\ g'.system = g.system /\ g'.tools = g.tools /\ g'.installed = g.installed /\ g'.sys = g.sys
        /\ g'.lost = g.lost /\ g'.scripts = g.scripts /\ g'.launcher = g.launcher /\ g'.software = c.software
    BY <1>3 DEF WindowsShape, GuestFields
  <2>2. /\ ProcessFields \subseteq DOMAIN c' /\ c'.pc = "output" /\ c'.system = c.system /\ c'.software = c.software
        /\ c'.copied = c.copied /\ c'.errors = c.errors /\ c'.logged = c.logged
    BY <1>3 DEF Goto, WindowsShape, ProcessFields
  <2>3. WindowsShape'
    BY <1>1, <2>1, <2>2 DEF WindowsShape, WindowsBlocks, Saved
  <2>4. ToolsInv'
    <3>1. ASSUME NEW h \in WindowsRemoves PROVE Tools(h)'
      <4>1. Tools(h)
        BY DEF ToolsInv
      <4>2. (FilesOnly(h)' <=> FilesOnly(h)) /\ (Traced(h)' <=> Traced(h))
        BY <1>1, <2>1 DEF FilesOnly, Traced
      <4>3. Traced(h) => Gone(h, g'.system)
        BY <1>1, <2>1, <4>1 DEF Tools, SystemSaved, Saved
      <4>4. h.name \in g.tools /\ ~FilesOnly(h) => Traced(h)
        BY DEF Traced
      <4> QED BY <2>1, <2>2, <4>2, <4>3, <4>4 DEF Tools, Unopened, Removed, Registered
    <3> QED BY <2>1, <2>2, <3>1 DEF ToolsInv, Unopened
  <2>5. FiltersInv'
    BY <1>1, <2>1, <2>2 DEF FiltersInv, Removed, Registered
  <2>6. ServicesInv'
    BY <1>1, <2>1, <2>2 DEF ServicesInv, Registered, SystemSaved, Saved
  <2>7. ~out'.published
    BY <1>1 DEF NoOutput
  <2>8. DriversInv'
    BY <1>1, <2>1, <2>2, <2>7 DEF DriversInv, Registered, Saved, Unopened, Bound, Version
  <2>9. FirstbootInv'
    BY <1>1, <2>1, <2>2, <2>7 DEF FirstbootInv, LauncherOK, Version
  <2> QED BY <2>3, <2>4, <2>5, <2>6, <2>8, <2>9
<1> QED BY <1>2, <1>3 DEF SaveSoftware, Checkin

\* What is announced is what the hives on the disk say.
LEMMA WriteWindowsInv == ASSUME WindowsInv, WriteWindows PROVE WindowsInv'
<1> USE DEF WindowsInv
<1>1. c.pc = "output" /\ g' = g /\ runs' = runs
  BY DEF WriteWindows, At
<1>2. CASE Fatal /\ out' = out
  BY <1>1, <1>2, FatalInv, WindowsStutter
<1>3. CASE /\ Goto("finalize")
           /\ out' = [published |-> TRUE, bus |-> BuildWindows, errors |-> c.errors, relabeled |-> FALSE]
  <2>1. /\ ProcessFields \subseteq DOMAIN c' /\ c'.pc = "finalize" /\ c'.system = c.system /\ c'.software = c.software
        /\ c'.logged = c.logged
    BY <1>3 DEF Goto, WindowsShape, ProcessFields
  <2>2. out'.bus = BuildWindows /\ out'.errors = c.errors
    BY <1>3
  <2>3. SystemSaved
    BY <1>1 DEF SystemSaved, Saved
  <2>4. WindowsShape'
    BY <1>1, <2>1 DEF WindowsShape, WindowsBlocks, Unopened, Removed, Registered, Saved, Finalizing
  <2>5. ToolsInv'
    <3>1. ASSUME NEW h \in WindowsRemoves PROVE Tools(h)'
      <4>1. Tools(h)
        BY DEF ToolsInv
      <4>2. (FilesOnly(h)' <=> FilesOnly(h)) /\ (Traced(h)' <=> Traced(h))
        BY <1>1 DEF FilesOnly, Traced
      <4> QED BY <1>1, <2>1, <2>3, <4>1, <4>2 DEF Tools, Gone, Unopened, Removed, Registered
    <3> QED BY <1>1, <2>1, <3>1 DEF ToolsInv, Unopened
  <2>6. FiltersInv'
    BY <1>1, <2>1 DEF FiltersInv, Removed, Registered
  <2>7. ServicesInv'
    BY <1>1, <2>1, <2>3 DEF ServicesInv, Registered
  <2>8. DriversInv'
    <3>1. /\ c.copied \cap BootCriticalDrivers \subseteq g.sys \cup g.lost
          /\ c.copied \cap BootCriticalDrivers \subseteq g.system.boot \cap Bound(g.system)
      BY <1>1 DEF DriversInv, Saved
    <3>2. out'.bus = "virtio" => c.copied \cap BootCriticalDrivers # {}
      BY <2>2 DEF BuildWindows
    <3>3. Bound(g.system)' = Bound(g.system)
      BY <1>1 DEF Bound, Version
    <3> QED BY <1>1, <2>1, <3>1, <3>2, <3>3 DEF DriversInv, Registered, Saved, Unopened
  <2>9. FirstbootInv'
    BY <1>1, <2>1, <2>2 DEF FirstbootInv, LauncherOK, Version
  <2> QED BY <2>4, <2>5, <2>6, <2>7, <2>8, <2>9
<1> QED BY <1>2, <1>3 DEF WriteWindows

UserScript == Script(1000, FALSE)

\* kc-finalize writes a script of the user at most, and reports.
LEMMA FinalizingInv ==
  ASSUME WindowsInv, c.pc \in Finalizing, c'.pc \in Finalizing \cup {"failed"}, ProcessFields \subseteq DOMAIN c',
         c'.system = c.system, c'.software = c.software, c.logged \subseteq c'.logged, out' = out, runs' = runs,
         GuestFields \subseteq DOMAIN g', \A f \in GuestFields \ {"scripts"} : g'[f] = g[f],
         g'.scripts \subseteq g.scripts \cup {UserScript}
  PROVE  WindowsInv'
<1> USE DEF WindowsInv
<1>1. /\ g'.os = g.os /\ g'.product = g.product /\ g'.files = g.files /\ g'.system = g.system
      /\ g'.software = g.software /\ g'.tools = g.tools /\ g'.installed = g.installed
      /\ g'.sys = g.sys /\ g'.lost = g.lost /\ g'.launcher = g.launcher
  BY DEF GuestFields
<1>2. c'.pc \notin WindowsBlocks
  BY DEF Finalizing, WindowsBlocks, Unopened, Removed, Registered, Saved
<1>3. WindowsShape'
  BY <1>1, <1>2 DEF WindowsShape
<1>4. SystemSaved' => SystemSaved
  BY <1>2 DEF SystemSaved, WindowsBlocks
<1>5. ToolsInv'
  <2>1. ASSUME NEW h \in WindowsRemoves PROVE Tools(h)'
    <3>1. Tools(h)
      BY DEF ToolsInv
    <3>2. (FilesOnly(h)' <=> FilesOnly(h)) /\ (Traced(h)' <=> Traced(h))
      BY <1>1 DEF FilesOnly, Traced
    <3> QED BY <1>1, <1>2, <1>4, <3>1, <3>2 DEF Tools, Gone, WindowsBlocks
  <2> QED BY <1>1, <1>2, <2>1 DEF ToolsInv, WindowsBlocks
<1>6. FiltersInv'
  BY <1>1, <1>2 DEF FiltersInv, WindowsBlocks
<1>7. ServicesInv'
  BY <1>1, <1>2, <1>4 DEF ServicesInv, WindowsBlocks, Removed
<1>8. DriversInv'
  BY <1>1, <1>2 DEF DriversInv, Bound, Version, WindowsBlocks, Removed
<1>9. FirstbootInv'
  <2>1. Version' = Version /\ ScriptOK(UserScript, Version)
    BY <1>1 DEF Version, ScriptOK, Script, UserScript
  <2>2. \A s \in g.scripts : ScriptOK(s, Version)
    BY DEF FirstbootInv
  <2>4. (\A s \in g.scripts : ScriptOK(s, Version))'
    BY <2>1, <2>2
  <2>3. LauncherOK(g.software) => LauncherOK(g.software)'
    BY <1>1 DEF LauncherOK
  <2> QED BY <1>2, <2>4, <2>3 DEF FirstbootInv, WindowsBlocks, Removed, Registered, Saved
<1> QED BY <1>3, <1>5, <1>6, <1>7, <1>8, <1>9

\* Every step of kc-finalize on a Windows guest is of that kind.
LEMMA WindowsFinalizeInv ==
  ASSUME WindowsInv, AttachFinalize \/ Native \/ DynamicScriptsLinux \/ DynamicScriptsWindows \/ WriteTargetMeta
  PROVE  WindowsInv'
<1>1. g.os = "windows" /\ g.os # "linux" /\ GuestFields \subseteq DOMAIN g /\ ProcessFields \subseteq DOMAIN c
  BY DEF WindowsInv, WindowsShape
<1>2. \A name, ok : Customized(name, ok) =>
        /\ ProcessFields \subseteq DOMAIN c' /\ c'.pc = c.pc /\ c'.system = c.system /\ c'.software = c.software
        /\ c'.logged = c.logged
  BY <1>1 DEF Customized, ProcessFields
<1>3. CASE AttachFinalize
  <2>1. /\ c.pc = "finalize" /\ g' = g /\ out' = out /\ runs' = runs /\ ProcessFields \subseteq DOMAIN c'
        /\ c'.pc \in {"customize", "failed"} /\ c'.system = c.system /\ c'.software = c.software /\ c'.logged = c.logged
    BY <1>1, <1>3 DEF AttachFinalize, Fatal, ProcessFields
  <2> QED BY <1>1, <2>1, FinalizingInv DEF Finalizing
<1>4. CASE Native
  <2>1. c.pc = "customize" /\ g' = g /\ out' = out /\ runs' = runs /\ \E ok \in BOOLEAN : Customized("native", ok)
    BY <1>1, <1>4 DEF Native, Customizing
  <2> QED BY <1>1, <1>2, <2>1, FinalizingInv DEF Finalizing
<1>5. CASE DynamicScriptsLinux
  <2>1. c.pc = "customize" /\ g' = g /\ out' = out /\ runs' = runs /\ Customized("dynamicscriptslinux", TRUE)
    BY <1>1, <1>5 DEF DynamicScriptsLinux, Customizing
  <2> QED BY <1>1, <1>2, <2>1, FinalizingInv DEF Finalizing
<1>6. CASE DynamicScriptsWindows
  <2>1. /\ c.pc = "customize" /\ out' = out /\ runs' = runs
        /\ \E ok \in BOOLEAN : Customized("dynamicscriptswindows", ok)
        /\ g' = g \/ g' = [g EXCEPT !.scripts = @ \cup {UserScript}]
    BY <1>6 DEF DynamicScriptsWindows, Customizing, UserScript
  <2>2. /\ GuestFields \subseteq DOMAIN g' /\ \A f \in GuestFields \ {"scripts"} : g'[f] = g[f]
        /\ g'.scripts \subseteq g.scripts \cup {UserScript}
    BY <1>1, <2>1 DEF GuestFields
  <2> QED BY <1>2, <2>1, <2>2, FinalizingInv DEF Finalizing
<1>7. CASE WriteTargetMeta
  <2>1. /\ c.pc = "customize" /\ g' = g /\ out' = out /\ runs' = runs /\ ProcessFields \subseteq DOMAIN c'
        /\ c'.pc \in {"done", "failed"} /\ c'.system = c.system /\ c'.software = c.software /\ c'.logged = c.logged
    BY <1>1, <1>7 DEF WriteTargetMeta, Goto, Fatal, ProcessFields
  <2> QED BY <1>1, <2>1, FinalizingInv DEF Finalizing
<1> QED BY <1>3, <1>4, <1>5, <1>6, <1>7

\* A second run finds what the first one left: the software that still has a key
\* on the disk, or evidence that is never removed, is gone or revealed.
LEMMA WindowsRerunInv == ASSUME WindowsInv, Rerun PROVE WindowsInv'
<1> USE DEF WindowsInv
<1>1. c.pc = "failed" /\ g' = g /\ out' = NoOutput /\ runs' = runs + 1 /\ c' = NewWindows
  BY DEF Rerun, WindowsShape
<1>2. /\ ProcessFields \subseteq DOMAIN c' /\ c'.pc = "attach" /\ c'.system = g.system /\ c'.software = g.software
      /\ c'.done = {} /\ c'.copied = {} /\ ~out'.published
  BY <1>1 DEF NewWindows, ProcessFields, NoOutput
<1>3. runs' \in Nat \ {0} /\ runs' # 1
  BY <1>1 DEF WindowsShape
<1>4. WindowsShape'
  BY <1>1, <1>2, <1>3 DEF WindowsShape, WindowsBlocks, Unopened
<1>5. ~SystemSaved'
  BY <1>2 DEF SystemSaved, Saved
<1>6. ToolsInv'
  <2>1. ASSUME NEW h \in WindowsRemoves PROVE Tools(h)'
    <3>1. Tools(h)
      BY DEF ToolsInv
    <3>2. (FilesOnly(h)' <=> FilesOnly(h)) /\ (Traced(h)' <=> h.name \in g.tools /\ ~FilesOnly(h))
      BY <1>1, <1>3 DEF FilesOnly, Traced
    <3> QED BY <1>1, <1>2, <1>5, <3>1, <3>2 DEF Tools, Gone, Removed, Registered
  <2> QED BY <1>1, <1>2, <2>1 DEF ToolsInv
<1>7. FiltersInv' /\ ServicesInv' /\ DriversInv'
  BY <1>1, <1>2, <1>5 DEF FiltersInv, ServicesInv, DriversInv, Removed, Registered, Saved
<1>8. FirstbootInv'
  BY <1>1, <1>2 DEF FirstbootInv, Version
<1> QED BY <1>4, <1>6, <1>7, <1>8

-----------------------------------------------------------------------------
(* The theorems *)

\* A conversion is that of a Linux guest or of a Windows guest.
ConversionInv == LinuxInv \/ WindowsInv

\* A Linux guest that no converter has seen.
LEMMA LinuxInitInv == ASSUME LinuxInit, out = NoOutput PROVE LinuxInv
<1>1. /\ {"os", "selinux", "labelled", "autorelabel", "files", "units", "kept", "script", "unit", "torn",
          "scheduled"} \subseteq DOMAIN g
      /\ g.os = "linux" /\ g.script = << >> /\ g.scheduled = {}
      /\ \A u \in g.units : \E h \in LinuxCleanups : u \in h.units /\ h.detect \cap g.files # {}
  BY LinuxGuestsAssumption DEF LinuxInit
<1>2. Process \subseteq DOMAIN c /\ c.pc = "attach" /\ c.done = {} /\ c.relabeled = FALSE
  BY DEF LinuxInit, NewLinux, Process
<1>3. LinuxShape /\ Labels
  BY <1>1, <1>2 DEF LinuxShape, LinuxRecord, Watched, Labels, Converting, Finalizing, Early, Late
<1>4. Units
  BY <1>1, <1>2 DEF Units, Early, Late, NoOutput
<1>5. ScriptsOK(g)
  BY <1>1 DEF ScriptsOK
<1> QED BY <1>3, <1>4, <1>5 DEF LinuxInv

\* A Windows guest that no converter has seen: what is installed reveals itself.
LEMMA WindowsInitInv == ASSUME WindowsInit, out = NoOutput, runs = 1 PROVE WindowsInv
<1>1. /\ GuestFields \subseteq DOMAIN g /\ SystemFields \subseteq DOMAIN g.system
      /\ SoftwareFields \subseteq DOMAIN g.software
      /\ g.os = "windows" /\ g.product \in DOMAIN Classify
      /\ g.scripts = {} /\ g.installed = g.software.keys
      /\ \A h \in WindowsRemoves :
           /\ h.name \in g.tools => h.evidence \subseteq g.files
           /\ h.keys \cap g.installed # {} => h.name \in g.tools
      /\ \A f \in g.system.filters : \E h \in WindowsRemoves : h.name \in g.tools /\ f \in h.filters
  BY WindowsGuestsAssumption DEF WindowsInit, GuestFields, SystemFields, SoftwareFields
<1>2. /\ ProcessFields \subseteq DOMAIN c /\ c.pc = "attach" /\ c.done = {} /\ c.copied = {}
      /\ c.system = g.system /\ c.software = g.software
  BY DEF WindowsInit, NewWindows, ProcessFields
<1>3. WindowsShape
  BY <1>1, <1>2 DEF WindowsShape, WindowsBlocks, Unopened
<1>4. ~SystemSaved /\ ~out.published
  BY <1>2 DEF SystemSaved, Saved, NoOutput
<1>5. ToolsInv
  <2>1. ASSUME NEW h \in WindowsRemoves PROVE Tools(h)
    <3>2. h.evidence \cap g.files # {} \/ h.evidence = {} \/ h.name \notin g.tools
      BY <1>1
    <3>3. ~FilesOnly(h) /\ h.name \in g.tools =>
              (h.evidence \ h.removes) \cap g.files # {} \/ h.keys \cap g.software.keys # {}
      BY <1>1 DEF FilesOnly
    <3>4. h.evidence = {} => h.stops = {} /\ h.filters = {}
      BY RemovesApart
    <3> QED BY <1>1, <1>2, <1>4, <3>2, <3>3, <3>4 DEF Tools, Traced, Gone, Removed, Registered
  <2> QED BY <1>1, <1>2, <2>1 DEF ToolsInv
<1>6. FiltersInv /\ ServicesInv
  BY <1>1, <1>2, <1>4 DEF FiltersInv, ServicesInv, Removed, Registered
<1>7. DriversInv
  BY <1>2, <1>4 DEF DriversInv, Registered, Saved
<1>8. FirstbootInv
  BY <1>1, <1>2, <1>4 DEF FirstbootInv
<1> QED BY <1>3, <1>5, <1>6, <1>7, <1>8 DEF WindowsInv

\* Every step of the Linux converter, of kc-finalize and of a second run keeps
\* the Linux part; a Linux guest has no step of the other converter.
LEMMA LinuxNextInv == ASSUME LinuxInv, [Next]_vars PROVE LinuxInv'
<1>1. g.os = "linux" /\ g.os # "windows"
  BY DEF LinuxInv, LinuxShape, LinuxRecord
<1>2. ~WindowsNext
  BY <1>1 DEF WindowsNext, At, AttachWindows, OpenHives, CollectDrivers, RemoveHypervisors, CopyDrivers,
       RegisterDrivers, ConfigureFirstboot, FixNTFSHeads, FixupBCD, SaveSystem, SaveSoftware, WriteWindows
<1>3. CASE LinuxNext
  BY <1>3, BlocksQuiet, QuietInv, CleanHypervisorsInv, InstallAgentInv, ConfigureStaticIPsInv, RelabelInv,
     WriteLinuxInv, Zenon DEF LinuxNext, QuietBlocks
<1>4. CASE Native \/ DynamicScriptsLinux
  BY <1>4, NativeInv, DynamicScriptsLinuxInv
<1>5. CASE AttachFinalize \/ DynamicScriptsWindows \/ WriteTargetMeta \/ Rerun \/ UNCHANGED vars
  BY <1>5, LinuxRestInv
<1> QED BY <1>2, <1>3, <1>4, <1>5 DEF Next, Terminating

\* So it is with a Windows guest.
LEMMA WindowsNextInv == ASSUME WindowsInv, [Next]_vars PROVE WindowsInv'
<1>1. g.os = "windows" /\ g.os # "linux"
  BY DEF WindowsInv, WindowsShape
<1>2. ~LinuxNext
  BY <1>1 DEF LinuxNext, At, AttachLinux, Scan, RemapDevices, FixupUEFI, SelectKernel, ConfigureConsole,
       ConfigureDisplay, CleanHypervisors, KubeVirtNetworking, InstallAgent, GuestCleanup, InjectVirtioModules,
       SkipInitramfs, NameNICs, ConfigureStaticIPs, Relabel, WriteLinux
<1>3. CASE WindowsNext
  BY <1>3, QuietWindowsBlocks, OpenHivesInv, CollectDriversInv, RemoveHypervisorsInv, CopyDriversInv,
     RegisterDriversInv, ConfigureFirstbootInv, SaveSystemInv, SaveSoftwareInv, WriteWindowsInv, Zenon
     DEF WindowsNext
<1>4. CASE AttachFinalize \/ Native \/ DynamicScriptsLinux \/ DynamicScriptsWindows \/ WriteTargetMeta
  BY <1>4, WindowsFinalizeInv
<1>5. CASE Rerun
  BY <1>5, WindowsRerunInv
<1>6. CASE UNCHANGED vars
  <2>1. g' = g /\ c' = c /\ out' = out /\ runs' = runs
    BY <1>6 DEF vars
  <2> QED BY <2>1 DEF WindowsInv, WindowsShape, ToolsInv, Tools, Traced, FilesOnly, Gone, Revealed, SystemSaved,
         FiltersInv, ServicesInv, DriversInv, Bound, FirstbootInv, LauncherOK, Version
<1> QED BY <1>2, <1>3, <1>4, <1>5, <1>6 DEF Next, Terminating

\* The inductive invariant of the conversion.
THEOREM ConversionInvariant == Spec => []ConversionInv
<1>1. Init => ConversionInv
  BY LinuxInitInv, WindowsInitInv DEF Init, ConversionInv
<1>2. ConversionInv /\ [Next]_vars => ConversionInv'
  BY LinuxNextInv, WindowsNextInv DEF ConversionInv
<1> QED BY <1>1, <1>2, PTL DEF Spec

\* LabelsRestored holds in every state: a Linux guest whose conversion ended has
\* its labels, or restores them at boot, or says that it does not.
THEOREM LabelsAreRestored == Spec => []LabelsRestored
<1>1. ConversionInv => LabelsRestored
  BY DEF ConversionInv, LinuxInv, Labels, LabelsRestored, Finalizing, WindowsInv, WindowsShape
<1> QED BY <1>1, ConversionInvariant, PTL

\* SourceToolsGone holds in every state: in whatever order the plugins ran, and
\* however often the converter was started, nothing of the source's tools is.
THEOREM SourceToolsAreGone == Spec => []SourceToolsGone
<1>1. ASSUME LinuxInv PROVE SourceToolsGone
  <2>1. g.os = "linux" /\ (out.published => g.units \subseteq g.kept)
    BY <1>1 DEF LinuxInv, LinuxShape, LinuxRecord, Units
  <2> QED BY <2>1 DEF SourceToolsGone, Linux, Windows
<1>2. ASSUME WindowsInv PROVE SourceToolsGone
  <2>1. g.os = "windows"
    BY <1>2 DEF WindowsInv, WindowsShape
  <2>2. out.published => g.system.enabled \cap DisabledServices = {}
    BY <1>2 DEF WindowsInv, ServicesInv, SystemSaved
  <2>3. ASSUME NEW h \in WindowsRemoves, out.published, Traced(h)
        PROVE  h.stops \cap g.system.enabled = {} /\ h.filters \cap g.system.filters = {}
    BY <1>2, <2>3 DEF WindowsInv, ToolsInv, Tools, SystemSaved, Gone
  <2> QED BY <2>1, <2>2, <2>3 DEF SourceToolsGone, Linux, Windows, Traced
<1>3. ConversionInv => SourceToolsGone
  BY <1>1, <1>2 DEF ConversionInv
<1> QED BY <1>3, ConversionInvariant, PTL

\* WindowsBoots holds in every state: the disk bus that is announced is one that
\* the hives on the disk can boot from, and no filter lacks its driver.
THEOREM WindowsGuestsBoot == Spec => []WindowsBoots
<1>1. ASSUME LinuxInv PROVE WindowsBoots
  BY <1>1 DEF LinuxInv, LinuxShape, LinuxRecord, WindowsBoots, Windows
<1>2. ASSUME WindowsInv, Windows PROVE WindowsBoots
  <2>1. out.published
    BY <1>2 DEF Windows
  <2>2. out.bus = "virtio" =>
          \E d \in BootCriticalDrivers \cap g.system.boot : d \in g.sys \cup g.lost /\ d \in Bound(g.system)
    BY <1>2, <2>1 DEF WindowsInv, DriversInv
  <2>3. \A h \in WindowsRemoves : Traced(h) => h.filters \cap g.system.filters = {}
    BY <1>2, <2>1 DEF WindowsInv, ToolsInv, Tools, SystemSaved, Gone
  <2>4. AWSPV \in WindowsRemoves /\ AWSPV.filters = {"XENFILT"} /\ AWSPV.evidence \subseteq AWSPV.removes
    BY DEF WindowsRemoves, AWSPV, NoTools
  <2>5. ASSUME "XENFILT" \in g.system.filters, runs = 1 PROVE FALSE
    <3>1. PICK h \in WindowsRemoves : h.name \in g.tools /\ "XENFILT" \in h.filters
      BY <1>2, <2>5 DEF WindowsInv, FiltersInv
    <3> QED BY <2>3, <2>5, <3>1 DEF Traced
  <2>6. ASSUME "XENFILT" \in g.system.filters, ~FilesOnly(AWSPV) PROVE FALSE
    <3>1. AWSPV.keys \cap g.installed # {}
      BY <2>4, <2>6 DEF FilesOnly
    <3>2. AWSPV.name \in g.tools
      BY <1>2, <2>4, <3>1 DEF WindowsInv, ToolsInv
    <3> QED BY <2>3, <2>4, <2>6, <3>2 DEF Traced
  <2> QED BY <2>2, <2>5, <2>6 DEF WindowsBoots, Bound
<1>3. ConversionInv => WindowsBoots
  BY <1>1, <1>2 DEF ConversionInv, WindowsBoots
<1> QED BY <1>3, ConversionInvariant, PTL

\* FirstbootRuns holds in every state: what the converter scheduled for the first
\* boot is what the guest's own launcher or unit will run.
THEOREM ScheduledCommandsRun == Spec => []FirstbootRuns
<1>1. ASSUME LinuxInv PROVE FirstbootRuns
  <2>1. g.os = "linux" /\ ~Windows
    BY <1>1 DEF LinuxInv, LinuxShape, LinuxRecord, Windows
  <2>2. ASSUME NEW cmd \in g.scheduled \ {"dynamic"}
        PROVE  /\ g.unit \/ g.torn
               /\ \E i \in DOMAIN g.script : g.script[i] = cmd /\ \A j \in 1..i : g.script[j] # "tail"
    <3>1. g.script \in Seq(Commands) /\ InFront(g.script, cmd)
      BY <1>1 DEF LinuxInv, ScriptsOK
    <3>2. g.script # << >>
      BY <3>1 DEF InFront
    <3>3. g.unit \/ g.torn
      BY <1>1, <3>2 DEF LinuxInv, ScriptsOK
    <3>4. DOMAIN g.script = 1 .. Len(g.script)
      BY <3>1
    <3> QED BY <3>1, <3>3, <3>4 DEF InFront
  <2> QED BY <2>1, <2>2 DEF FirstbootRuns
<1>2. ASSUME WindowsInv, Windows, "firstboot" \notin out.errors
      PROVE  LET own == {s \in g.scripts : s.prio \notin {10, 1000}} IN
             /\ g.software.runOnce /\ (g.launcher \/ "launcher" \in c.logged)
             /\ \A s \in own : LauncherRuns(Version.launcher, s)
             /\ \A s, t \in {x \in own : x.prio # 9100} : s.prio < t.prio => RunsBefore(s, t)
  <2>1. g.software.runOnce /\ (g.launcher \/ "launcher" \in c.logged)
    BY <1>2 DEF Windows, WindowsInv, FirstbootInv, LauncherOK
  <2>2. \A s \in g.scripts : ScriptOK(s, Version)
    BY <1>2 DEF WindowsInv, FirstbootInv
  <2>3. VersionOK(Version)
    BY <1>2, VersionFacts DEF WindowsInv, WindowsShape, Version
  <2>4. ASSUME NEW s \in g.scripts, s.prio \notin {10, 1000} PROVE LauncherRuns(Version.launcher, s)
    BY <2>2, <2>4, SMT DEF ScriptOK
  <2>5. ASSUME NEW s \in g.scripts, s.prio \notin {10, 1000}, s.prio # 9100,
               NEW t \in g.scripts, t.prio \notin {10, 1000}, t.prio # 9100, s.prio < t.prio
        PROVE  RunsBefore(s, t)
    <3>1. Version.ps = TRUE \/ Version.ps = FALSE
      BY <2>3 DEF VersionOK
    <3>2. (Version.ps = TRUE => s.bat = FALSE) /\ (Version.ps = FALSE => s.bat = TRUE)
      BY <2>2, <2>5, SMT DEF ScriptOK
    <3>3. (Version.ps = TRUE => t.bat = FALSE) /\ (Version.ps = FALSE => t.bat = TRUE)
      BY <2>2, <2>5, SMT DEF ScriptOK
    <3>4. s.bat = t.bat
      BY <3>1, <3>2, <3>3
    <3> QED BY <2>5, <3>4, SMT DEF RunsBefore
  <2> QED BY <2>1, <2>4, <2>5, SMT
<1>3. ASSUME WindowsInv PROVE FirstbootRuns
  <2>1. ~Linux
    BY <1>3 DEF WindowsInv, WindowsShape, Linux
  <2> QED BY <1>2, <1>3, <2>1, SMT DEF FirstbootRuns
<1>4. ConversionInv => FirstbootRuns
  BY <1>1, <1>3 DEF ConversionInv
<1> QED BY <1>4, ConversionInvariant, PTL

\* What a Linux guest boots from is in order as long as it is converted.
LinuxBootInv == g.os = "linux" => BootInv

\* Every step keeps it.
LEMMA NextBoot == ASSUME ConversionInv, LinuxBootInv, [Next]_vars PROVE LinuxBootInv'
<1>1. CASE LinuxInv
  <2>1. g.os = "linux" /\ BootInv
    BY <1>1 DEF LinuxBootInv, LinuxInv, LinuxShape, LinuxRecord
  <2>2. ~WindowsNext
    BY <2>1 DEF WindowsNext, At, AttachWindows, OpenHives, CollectDrivers, RemoveHypervisors, CopyDrivers,
         RegisterDrivers, ConfigureFirstboot, FixNTFSHeads, FixupBCD, SaveSystem, SaveSoftware, WriteWindows
  <2>3. CASE BootQuiet
    BY <1>1, <2>1, <2>3, BootQuietSteps, BootStepInv DEF LinuxBootInv
  <2>4. CASE Scan \/ RemapDevices \/ SelectKernel \/ ConfigureConsole \/ ConfigureDisplay
    BY <1>1, <2>1, <2>4, ScanBoot, RemapBoot, SelectBoot, ConsoleBoot DEF LinuxBootInv
  <2>5. CASE InjectVirtioModules \/ SkipInitramfs \/ WriteLinux
    BY <1>1, <2>1, <2>5, InjectBoot, SkipBoot, WriteBoot DEF LinuxBootInv
  <2>6. CASE Rerun \/ UNCHANGED vars
    BY <1>1, <2>1, <2>6, RerunBoot DEF LinuxBootInv
  <2> QED BY <2>2, <2>3, <2>4, <2>5, <2>6, Zenon DEF Next, LinuxNext, Terminating, BootQuiet
<1>2. CASE WindowsInv
  <2>1. WindowsInv'
    BY <1>2, WindowsNextInv
  <2> QED BY <2>1 DEF LinuxBootInv, WindowsInv, WindowsShape
<1> QED BY <1>1, <1>2 DEF ConversionInv

\* LinuxBoots holds in every state: whichever kernels a guest has and whatever
\* fails, the kernel that is selected has the greatest version string of those
\* with virtio drivers, which makes it the latest release where strings have the
\* order of releases and there only; an entry that alone mentions it boots first;
\* its initramfs has the drivers of the disk that is announced, and no file names
\* the source's devices.
THEOREM LinuxGuestsBoot == Spec => []LinuxBoots
<1>1. Init => LinuxBootInv
  <2>1. WindowsInit => g.os = "windows"
    BY WindowsGuestsAssumption DEF WindowsInit
  <2> QED BY <2>1, InitBoot DEF Init, LinuxBootInv
<1>2. ConversionInv /\ LinuxBootInv /\ [Next]_vars => LinuxBootInv'
  BY NextBoot
<1>3. ASSUME LinuxBootInv PROVE LinuxBoots
  <2>1. SUFFICES ASSUME Linux PROVE LinuxBoots
    BY DEF LinuxBoots
  <2>2. BootInv /\ \A blocks : Past(blocks)
    BY <1>3, <2>1 DEF LinuxBootInv, Linux, Past
  <2>3. PICK k, n, bootable : /\ k = c.selected /\ n = Len(c.kernels)
                              /\ bootable = {x \in {c.kernels[i] : i \in DOMAIN c.kernels} : x.path /\ ~x.xen}
    OBVIOUS
  <2>4. DOMAIN c.kernels = 1 .. n
    BY <2>2, <2>3 DEF BootInv, ScanInv
  <2>5. \A x : x \in bootable <=> Bootable(x) /\ \E i \in 1 .. n : x = c.kernels[i]
    BY <2>3, <2>4 DEF Bootable
  <2>6. BestOf(c.kernels, n, k)
    BY <2>2, <2>3 DEF BootInv, SelectInv
  <2>7. k = NoKernel => bootable = {}
    BY <2>5, <2>6 DEF BestOf
  <2>8. k # NoKernel =>
          /\ k \in bootable
          /\ \A x \in bootable : (x.virtio => k.virtio) /\ (x.virtio = k.virtio => ~Greater(x, k))
          /\ InReleaseOrder(bootable) => \A x \in bootable : x.virtio = k.virtio => x.release <= k.release
    <3>1. SUFFICES ASSUME k # NoKernel
                   PROVE  /\ k \in bootable
                          /\ \A x \in bootable : (x.virtio => k.virtio) /\ (x.virtio = k.virtio => ~Greater(x, k))
                          /\ InReleaseOrder(bootable) =>
                               \A x \in bootable : x.virtio = k.virtio => x.release <= k.release
      OBVIOUS
    <3>2. \A x \in bootable : x \in KernelRecord
      BY <2>2, <2>3, <2>5 DEF BootInv, ScanInv
    <3>3. \A x \in bootable : x.ver \in Nat /\ x.release \in Nat
      BY <3>2 DEF KernelRecord
    <3>4. k \in bootable /\ \A x \in bootable : (x.virtio => k.virtio) /\ (x.virtio = k.virtio => x.ver <= k.ver)
      BY <2>5, <2>6, <3>1 DEF BestOf
    <3>5. \A x \in bootable : x.virtio = k.virtio => ~Greater(x, k)
      BY <3>3, <3>4 DEF Greater
    <3>6. InReleaseOrder(bootable) => \A x \in bootable : x.virtio = k.virtio => x.release <= k.release
      BY <3>3, <3>4, <3>5 DEF InReleaseOrder
    <3> QED BY <3>4, <3>5, <3>6
  <2>9. k # NoKernel /\ g.names.bls # "none" /\ {"default", "unread", "prefixed"} \cap c.logged = {} =>
          \A e \in g.entries : Alone(e, k.ver) => \A d \in g.entries \ {e} : Precedes(e, d)
    <3>1. k # NoKernel /\ g.names.bls # "none" /\ {"default", "unread", "prefixed"} \cap c.logged = {} =>
            \A e \in g.entries : Alone(e, k.ver) => e.zero /\ \A d \in g.entries \ {e} : ~d.zero
      BY <2>2, <2>3 DEF BootInv, SelectInv
    <3> QED BY <3>1 DEF Precedes
  <2>10. k # NoKernel /\ out.bus = "virtio" => g.initrd[k.ver].virtio \/ "unverified" \in c.logged
    BY <2>1, <2>2, <2>3 DEF BootInv, RebuildInv, Linux
  <2>11. "device-remap" \notin out.errors /\ g.names.fstab # "none" =>
           \A f \in {"fstab", "crypttab", "grub", "bls"} : g.names[f] # "source"
    BY <2>1, <2>2 DEF BootInv, NamesInv, Published, Remapped, Linux
  <2>12. DetectFirst = "grub2" => g.names.cfg = g.names.grub \/ {"default", "args"} \cap c.logged # {}
    BY <2>2 DEF BootInv, NamesInv
  <2> QED BY <2>3, <2>7, <2>8, <2>9, <2>10, <2>11, <2>12, Zenon DEF LinuxBoots
<1> QED BY <1>1, <1>2, <1>3, ConversionInvariant, PTL DEF Spec
=============================================================================
