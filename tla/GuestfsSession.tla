--------------------------- MODULE GuestfsSession ---------------------------
(***************************************************************************)
(* The guestfs backend (pkg/backend/plugins/guestfs): a stage process      *)
(* keeps, in a Backend value, what it believes about a guestfish --listen  *)
(* process and the appliance behind it: whether it was launched, whether   *)
(* the guest's filesystems are mounted in it, which mapper it opened.      *)
(* The listener can die at any moment, also after running a script and     *)
(* before answering; file operations then restart it, remount and retry    *)
(* once.                                                                   *)
(*                                                                         *)
(* Three stages run one after the other (prepare, convert, finalize), each *)
(* with a fresh Backend, over the listener their parent shares (env # 0)   *)
(* or, stand-alone, over listeners they start.  One action is one script   *)
(* sent to guestfish, since that is what a crash can fall between.         *)
(***************************************************************************)
EXTENDS Naturals, FiniteSets

CONSTANTS
  MaxListeners,   \* bound: guestfish --listen processes started in all
  MaxCrashes      \* bound: listeners that die on their own

ASSUME GuestfsBounds == MaxListeners \in Nat \ {0} /\ MaxCrashes \in Nat

Listeners == 1..MaxListeners
Paths == {"/", "/boot"}
Devices == {"sda1", "sda2", "mapper"}
Tables == UNION {[P -> Devices] : P \in SUBSET Paths}
NoMounts == <<>>
At(p, d) == [q \in {p} |-> d]          \* one mount
\* table s with what t has at other paths (mergeMountSpecs)
Merged(s, t) == [p \in DOMAIN s \cup DOMAIN t |-> IF p \in DOMAIN s THEN s[p] ELSE t[p]]

\* Kinds of operations.  "readdir" and "download" ask IsDir first.
FileOps == {"read", "query", "readdir", "download", "write", "move"}
Recovering == FileOps \cup {"run"}       \* scripts under withRecovery
MountedOps == Recovering \cup {"trim"}   \* ensureMounted comes first
Stages == {"prepare", "convert", "finalize"}
Editing == {"convert", "finalize"}
Scripts(o) == IF o \in {"readdir", "download"} THEN 2 ELSE 1

VARIABLES
  alive,     \* listeners whose process and socket exist
  appl,      \* the appliance of each: launched with its drives, mounts, mapper, /proc
  next,      \* the pid the next guestfish --listen gets
  env,       \* GUESTFISH_PID of the stages, 0 when stand-alone
  crashes,   \* listeners that died so far
  crypt,     \* the guest's root filesystem is on LUKS
  infos,     \* the mount points of DiskInfo.Partitions (prepare.json)
  stage,     \* the stage that runs
  phase,     \* "new", "in", "unmounted", "released" or "failed"
  be,        \* the Backend of the stage process
  own,       \* listeners the stage process started
  pc, op     \* where the operation under way is, and what it is

vars == <<alive, appl, next, env, crashes, crypt, infos, stage, phase, be, own, pc, op>>
world == <<alive, appl, next, crashes>>
setup == <<env, crypt, infos, stage, phase>>

RootDev == IF crypt THEN "mapper" ELSE "sda2"
\* inspect-get-mountpoints of the guest
Inspected == Merged(At("/", RootDev), At("/boot", "sda1"))
\* mountSpecsFromDiskInfos without mount points: the first filesystem is "/"
FirstFilesystem == At("/", "sda1")

Off == [drives |-> FALSE, mounts |-> NoMounts, mapper |-> FALSE, vfs |-> FALSE]

New == [pid |-> 0, external |-> FALSE, launched |-> FALSE, specs |-> NoMounts,
        active |-> FALSE, inspected |-> FALSE, maps |-> FALSE]

\* An operation: its scripts left, whether this one is the retry, and, for the
\* properties, the mount tables it was carried out under and by which listeners.
NoOp == [name |-> "none", scripts |-> 0, retried |-> FALSE, saw |-> {}, by |-> {}, res |-> "ok"]

Init ==
  /\ env \in {0, 1}
  /\ alive = {1} \cap {env}                   \* StartSharedListener
  /\ next = env + 1
  /\ appl = [l \in Listeners |-> Off]
  /\ crashes = 0 /\ crypt \in BOOLEAN
  /\ infos = FirstFilesystem
  /\ stage = "prepare" /\ phase = "new"
  /\ be = New /\ own = {}
  /\ pc = "idle" /\ op = NoOp

-----------------------------------------------------------------------------
(* The listener *)

Alive(pid) == pid \in alive        \* sessionAlive: the process and its socket

Crash ==
  /\ crashes < MaxCrashes
  /\ \E l \in alive : alive' = alive \ {l} /\ appl' = [appl EXCEPT ![l] = Off]
  /\ crashes' = crashes + 1
  /\ UNCHANGED <<next, setup, be, own, pc, op>>

\* startGuestfishListen gave a live pid within its time limits.  When it does
\* not it has killed the process, and there is no new listener.
Started == Listeners \cap {next}

\* openGuestfishSession: keep the session, adopt GUESTFISH_PID if it lives,
\* or start a listener when there is none to adopt.
Opened ==
  IF be.pid # 0 THEN {be}
  ELSE IF env # 0 THEN {[be EXCEPT !.pid = l, !.external = TRUE] : l \in alive \cap {env}}
  ELSE {[be EXCEPT !.pid = l] : l \in Started}

OpenFails == be.pid = 0 /\ (env # 0 => ~Alive(env))

\* ensureLaunched on the listener of b, with A alive: nothing to do once
\* launched; else it is ready, or the drives are added and -run leaves it
\* ready, not ready, or dead.
Launches(b, A) ==
  {o \in [ok : BOOLEAN, up : BOOLEAN] :
     IF b.launched THEN o.ok /\ o.up = (b.pid \in A)
     ELSE /\ o.ok => o.up
          /\ o.up => b.pid \in A
          /\ o.up /\ appl[b.pid].drives => o.ok
          /\ b.pid \in A /\ ~o.up => crashes < MaxCrashes}

\* the session of b after the launch o, be it the old one or a new one
Launched(b, o) ==
  LET A == alive \cup ({b.pid} \cap Started)
  IN /\ alive' = IF o.up THEN A ELSE A \ {b.pid}
     /\ appl' = IF o.up THEN [appl EXCEPT ![b.pid].drives = @ \/ o.ok]
                        ELSE [appl EXCEPT ![b.pid] = Off]
     /\ crashes' = crashes + IF b.pid \in A /\ ~o.up THEN 1 ELSE 0
     /\ next' = IF b.pid \in Started THEN next + 1 ELSE next
     /\ own' = own \cup ({b.pid} \cap Started)

LaunchOutcomes(b) == Launches(b, alive \cup ({b.pid} \cap Started))

-----------------------------------------------------------------------------
(* Operations: ensureSession, ensureMounted, the script, and recovery *)

\* Download takes an IsDir that failed for "not a directory" and goes on.
Fail ==
  IF op.name = "download" /\ op.scripts = 2
  THEN pc' = "session" /\ op' = [op EXCEPT !.scripts = 1, !.retried = FALSE, !.by = {}]
  ELSE pc' = "idle" /\ op' = [op EXCEPT !.res = IF op.name = "query" THEN "no" ELSE "error"]

\* Only ensureMounted goes through ensureSessionWithRecovery.
SessionFailed == IF op.name \in MountedOps THEN pc' = "tryRestart" /\ UNCHANGED op ELSE Fail

EnsureSession ==
  /\ pc = "session"
  /\ \/ \E b \in Opened : \E o \in LaunchOutcomes(b) :
          /\ Launched(b, o)
          /\ be' = [b EXCEPT !.launched = o.ok]
          /\ IF o.ok THEN pc' = (IF op.name \in MountedOps THEN "inspect" ELSE "script") /\ UNCHANGED op
                     ELSE SessionFailed
     \/ OpenFails /\ SessionFailed /\ UNCHANGED <<world, be, own>>
  /\ UNCHANGED setup

\* As if the restarted session kept ownedExternally.
Restarted_StaysShared(l) == [be EXCEPT !.pid = l, !.launched = FALSE]

\* tryRestart: only a dead session is replaced, by a listener of our own.
\* mountsActive is cleared once the new appliance is launched.
Restarted(l) == [be EXCEPT !.pid = l, !.launched = FALSE, !.external = FALSE]

\* As if a failed script restarted the session without asking sessionAlive.
TryRestart_AlsoAlive ==
  /\ pc = "tryRestart"
  /\ \E l \in Started : \E o \in LaunchOutcomes(Restarted(l)) :
       /\ Launched(Restarted(l), o)
       /\ be' = [Restarted(l) EXCEPT !.launched = o.ok, !.active = FALSE]
       /\ IF o.ok THEN pc' = "session" /\ UNCHANGED op ELSE Fail
  /\ UNCHANGED setup

\* As if a failure on a live session were simply tried again.
TryRestart_Loops ==
  /\ pc = "tryRestart"
  /\ pc' = "session" /\ op' = [op EXCEPT !.retried = FALSE]
  /\ UNCHANGED <<world, setup, be, own>>

TryRestart ==
  /\ pc = "tryRestart"
  /\ \/ (be.pid = 0 \/ Alive(be.pid)) /\ Fail /\ UNCHANGED <<world, be, own>>
     \/ /\ be.pid # 0 /\ ~Alive(be.pid)
        /\ \/ \E l \in Started : \E o \in LaunchOutcomes(Restarted(l)) :
                /\ Launched(Restarted(l), o)
                /\ IF o.ok
                   THEN /\ be' = [Restarted(l) EXCEPT !.launched = TRUE, !.active = FALSE]
                        /\ pc' = "session" /\ UNCHANGED op
                   ELSE be' = Restarted(l) /\ Fail
           \/ Fail /\ UNCHANGED <<world, be, own>>
  /\ UNCHANGED setup

\* effectiveMountSpecs: recorded mounts or else those of the disk infos
Recorded(b) == IF b.specs = NoMounts THEN infos ELSE b.specs

\* discoverMountpoints, once: the guest's own table is merged under what is
\* recorded.  Inspection that does not answer counts as done; one that finds
\* another root than the recorded one is an error.
Inspect ==
  /\ pc = "inspect"
  /\ \/ /\ be.active \/ be.inspected
        /\ pc' = "mount" /\ UNCHANGED <<be, op>>
     \/ /\ ~be.active /\ ~be.inspected
        /\ pc' = "mount" /\ be' = [be EXCEPT !.inspected = TRUE] /\ UNCHANGED op
     \/ /\ ~be.active /\ ~be.inspected /\ Alive(be.pid)
        /\ crypt => appl[be.pid].mapper
        /\ IF "/" \in DOMAIN Recorded(be) => Recorded(be)["/"] = RootDev
           THEN /\ be' = [be EXCEPT !.inspected = TRUE, !.specs = Merged(Recorded(be), Inspected)]
                /\ pc' = "mount" /\ UNCHANGED op
           ELSE Fail /\ UNCHANGED be
  /\ UNCHANGED <<world, setup, own>>

\* What mountScriptPrefix leaves mounted: umount-all, then each device in
\* order of path length, a failed line not stopping the next ones.
MountResults(specs, a) ==
  {t \in Tables :
     /\ \A p \in DOMAIN t : p \in DOMAIN specs /\ t[p] = specs[p]
     /\ \A p \in DOMAIN t : t[p] = "mapper" => a.mapper
     /\ t # NoMounts => "/" \in DOMAIN t}

\* As if mounting were done whatever the mount script reported.
EnsureMounted_IgnoresErrors ==
  /\ pc = "mount"
  /\ IF be.active
     THEN pc' = "script" /\ UNCHANGED <<appl, be>>
     ELSE /\ \/ ~Alive(be.pid) /\ UNCHANGED appl
             \/ /\ Alive(be.pid)
                /\ \E t \in MountResults(Recorded(be), appl[be.pid]) :
                     appl' = [appl EXCEPT ![be.pid].mounts = t]
          /\ be' = [be EXCEPT !.active = TRUE] /\ UNCHANGED pc
  /\ UNCHANGED <<alive, next, crashes, setup, own, op>>

EnsureMounted ==
  /\ pc = "mount"
  /\ \/ /\ be.active
        /\ pc' = (IF op.name = "run" /\ ~op.retried THEN "vfs" ELSE "script")
        /\ UNCHANGED <<world, be, op>>
     \/ /\ ~be.active /\ Alive(be.pid)
        /\ \E t \in MountResults(Recorded(be), appl[be.pid]) :
             /\ appl' = [appl EXCEPT ![be.pid].mounts = t, ![be.pid].vfs = FALSE]
             /\ IF t = Recorded(be)
                THEN be' = [be EXCEPT !.active = TRUE] /\ UNCHANGED <<pc, op>>
                ELSE Fail /\ UNCHANGED be
        /\ UNCHANGED <<alive, next, crashes>>
     \/ ~be.active /\ ~Alive(be.pid) /\ Fail /\ UNCHANGED <<world, be>>
  /\ UNCHANGED <<setup, own>>

\* RunCommand: /proc, /sys and /dev in the guest; an error is only logged.
MountVirtualFS ==
  /\ pc = "vfs"
  /\ \/ Alive(be.pid) /\ appl[be.pid].mounts # NoMounts
          /\ appl' = [appl EXCEPT ![be.pid].vfs = TRUE]
     \/ UNCHANGED appl
  /\ pc' = "script"
  /\ UNCHANGED <<alive, next, crashes, setup, be, own, op>>

\* What the script of the operation does to the appliance and to the Backend.
Effect(a) ==
  CASE op.name = "decrypt" -> [a EXCEPT !.mapper = TRUE]
    [] op.name \in {"probe", "umount"} -> [a EXCEPT !.mounts = NoMounts]
    [] op.name = "run" -> [a EXCEPT !.vfs = FALSE]   \* deferred unmountVirtualFS
    [] OTHER -> a

Believed ==
  CASE op.name = "decrypt" -> [be EXCEPT !.maps = TRUE]
    [] op.name = "probe" -> [be EXCEPT !.active = FALSE]
    [] op.name = "umount" -> [be EXCEPT !.specs = NoMounts, !.active = FALSE]
    [] OTHER -> be

\* guestfish carries the script out on the mounts it has
Applied == [op EXCEPT !.saw = @ \cup {appl[be.pid].mounts}, !.by = @ \cup {be.pid}]
Accepts ==
  /\ op.name \in MountedOps => appl[be.pid].mounts # NoMounts
  /\ op.name = "move" => op.by = {}

\* The script failed, o being what is known of the operation: withRecovery
\* leaves it to tryRestart whether to try again, once.
ScriptFailed(o) ==
  IF op.name \in Recovering /\ ~op.retried
  THEN pc' = "tryRestart" /\ op' = [o EXCEPT !.retried = TRUE]
  ELSE pc' = "failed" /\ op' = o

Failed == pc = "failed" /\ Fail /\ UNCHANGED <<world, setup, be, own>>

Answered ==
  IF op.scripts > 1
  THEN pc' = "session" /\ op' = [Applied EXCEPT !.scripts = @ - 1, !.retried = FALSE, !.by = {}]
  ELSE pc' = "idle" /\ op' = [Applied EXCEPT !.res = "ok"]

\* ProbeMount counts the mounts as gone also when its script failed.
BelievedAfterError == IF op.name = "probe" THEN Believed ELSE be

Script ==
  /\ pc = "script"
  /\ \/ /\ Alive(be.pid) /\ Accepts
        /\ appl' = [appl EXCEPT ![be.pid] = Effect(@)]
        /\ be' = Believed
        /\ Answered
        /\ UNCHANGED <<alive, crashes>>
     \/ /\ Alive(be.pid)              \* refused, its first lines possibly done
        /\ appl' = [appl EXCEPT ![be.pid] = IF op.name \in {"probe", "run"} THEN Effect(@) ELSE @]
        /\ be' = BelievedAfterError
        /\ ScriptFailed(op) \/ (Accepts /\ ScriptFailed(Applied))
        /\ UNCHANGED <<alive, crashes>>
     \/ /\ Alive(be.pid) /\ Accepts   \* done, and the answer lost
        /\ crashes < MaxCrashes /\ crashes' = crashes + 1
        /\ alive' = alive \ {be.pid} /\ appl' = [appl EXCEPT ![be.pid] = Off]
        /\ ScriptFailed(Applied) /\ be' = BelievedAfterError
     \/ /\ ~Alive(be.pid)             \* checkAlive
        /\ ScriptFailed(op) /\ be' = BelievedAfterError
        /\ UNCHANGED <<alive, appl, crashes>>
  /\ UNCHANGED <<next, setup, own>>

-----------------------------------------------------------------------------
(* The methods of the Backend, in the stages that call them *)

Begin(name, in, during) ==
  /\ pc = "idle" /\ phase = during /\ stage \in in
  /\ pc' = "session"
  /\ op' = [NoOp EXCEPT !.name = name, !.scripts = Scripts(name)]
  /\ UNCHANGED <<world, setup, be, own>>

ReadFile == Begin("read", Stages, "in")
Exists == Begin("query", Stages, "in")
IsDir == Begin("query", Stages, "in")
Glob == Begin("read", Stages, "in")
Readlink == Begin("read", Stages, "in")
ReadDir == Begin("readdir", Stages, "in")
StatFS == Begin("read", Stages, "in")
Download == Begin("download", Stages, "in")
WriteFile == Begin("write", Editing, "in")
Remove == Begin("move", Editing, "in")
RemoveAll == Begin("write", Editing, "in")
Rename == Begin("move", Editing, "in")
Symlink == Begin("move", Editing, "in")
Chmod == Begin("write", Editing, "in")
MkdirAll == Begin("write", Editing, "in")
Upload == Begin("write", Editing, "in")
RunCommand == Begin("run", Editing, "in")
FSTrim == Begin("trim", {"finalize"}, "in")
FSCheck == Begin("ask", {"finalize"}, "unmounted")
FSType == Begin("ask", Stages, "in")
BlkidAttr == Begin("ask", Stages, "in")
DeviceRead == Begin("ask", {"prepare"}, "in")
DeviceWrite == Begin("ask", Editing, "in")
RescanBlock == Begin("ask", {"prepare"}, "in")
ProbeMount == Begin("probe", {"prepare"}, "in")
Decrypt == crypt /\ Begin("decrypt", {"prepare"}, "in")
UnlockClevis == crypt /\ Begin("decrypt", {"prepare"}, "in")
UnmountAll == be.specs # NoMounts /\ Begin("umount", {"prepare"}, "in")

\* Mount only records: the first device at a path stays, and the next
\* operation mounts everything anew.
Mount ==
  /\ pc = "idle" /\ phase = "in" /\ stage = "prepare"
  /\ \E p \in Paths \ DOMAIN be.specs, d \in {RootDev, "sda1"} :
       be' = [be EXCEPT !.specs = Merged(At(p, d), @), !.active = FALSE]
  /\ op' = NoOp
  /\ UNCHANGED <<world, setup, own, pc>>

\* Setup: the session, then discovery, none of whose errors is fatal but an
\* unsupported Windows volume.
Setup ==
  /\ pc = "idle" /\ phase = "new" /\ stage = "prepare"
  /\ \/ \E b \in Opened : \E o \in LaunchOutcomes(b), ok \in BOOLEAN :
          /\ Launched(b, o)
          /\ be' = [b EXCEPT !.launched = o.ok]
          /\ phase' = IF o.ok /\ ok THEN "in" ELSE "broken"
     \/ OpenFails /\ phase' = "failed" /\ UNCHANGED <<world, be, own>>
  /\ UNCHANGED <<env, crypt, infos, stage, pc, op>>

\* NewMounted: the mounts of the disk infos, and the shared listener if there
\* is one; a dead one is an error.
NewMounted ==
  /\ pc = "idle" /\ phase = "new" /\ stage # "prepare"
  /\ LET b == [New EXCEPT !.specs = infos, !.pid = env, !.external = env # 0]
     IN \/ /\ env = 0 \/ ~Alive(env)
           /\ phase' = IF env = 0 THEN "in" ELSE "failed"
           /\ be' = [b EXCEPT !.pid = 0, !.external = FALSE]
           /\ UNCHANGED <<world, own>>
        \/ /\ env # 0 /\ Alive(env)
           /\ \E o \in LaunchOutcomes(b) :
                /\ Launched(b, o)
                /\ be' = [b EXCEPT !.launched = o.ok]
                /\ phase' = IF o.ok THEN "in" ELSE "failed"
  /\ UNCHANGED <<env, crypt, infos, stage, pc, op>>

\* UnmountFilesystems forgets the mounts even when umount-all failed.
UnmountFilesystems ==
  /\ pc = "idle" /\ phase \in {"in", "broken"} /\ (phase = "in" => stage = "finalize")
  /\ \/ UNCHANGED appl
     \/ Alive(be.pid) /\ appl' = [appl EXCEPT ![be.pid].mounts = NoMounts]
  /\ be' = [be EXCEPT !.specs = NoMounts, !.active = FALSE]
  /\ phase' = IF phase = "in" THEN "unmounted" ELSE "unwinding"
  /\ op' = NoOp
  /\ UNCHANGED <<alive, next, crashes, env, crypt, infos, stage, own, pc>>

\* As if close did not look at ownedExternally.
ReleaseDevices_ExitsAny ==
  /\ pc = "idle" /\ phase \in {"unmounted", "unwinding"}
  /\ alive' = alive \ {be.pid}
  /\ appl' = [l \in Listeners |-> IF l = be.pid THEN Off ELSE appl[l]]
  /\ be' = New /\ phase' = "released" /\ op' = NoOp
  /\ UNCHANGED <<next, crashes, env, crypt, infos, stage, own, pc>>

\* ReleaseDevices: cryptsetup-close, then a listener of our own is told to exit.
ReleaseDevices ==
  /\ pc = "idle" /\ phase \in {"unmounted", "unwinding"}
  /\ IF be.pid # 0 /\ ~be.external
     THEN alive' = alive \ {be.pid} /\ appl' = [appl EXCEPT ![be.pid] = Off]
     ELSE /\ UNCHANGED alive
          /\ appl' = IF be.maps /\ Alive(be.pid) THEN [appl EXCEPT ![be.pid].mapper = FALSE] ELSE appl
  /\ be' = New
  /\ phase' = IF phase = "unmounted" THEN "released" ELSE "failed"
  /\ op' = NoOp
  /\ UNCHANGED <<next, crashes, env, crypt, infos, stage, own, pc>>

\* prepare ends with Release, which does nothing; convert just exits.  What
\* prepare mounted is in prepare.json, "/" always.
NextStage ==
  /\ pc = "idle" /\ phase = "in" /\ stage # "finalize"
  /\ stage' = IF stage = "prepare" THEN "convert" ELSE "finalize"
  /\ IF stage = "prepare"
     THEN /\ "/" \in DOMAIN be.specs
          /\ \E P \in SUBSET DOMAIN be.specs : "/" \in P /\ infos' = [p \in P |-> be.specs[p]]
     ELSE UNCHANGED infos
  /\ phase' = "new" /\ be' = New /\ own' = {} /\ op' = NoOp
  /\ UNCHANGED <<world, env, crypt, pc>>

\* Between stages kc-v2v replaces a shared listener that died.
ParentRestarts ==
  /\ phase = "new" /\ env # 0 /\ ~Alive(env)
  /\ \E l \in Started : env' = l /\ alive' = alive \cup {l} /\ next' = l + 1
  /\ UNCHANGED <<appl, crashes, crypt, infos, stage, phase, be, own, pc, op>>

Terminating == phase \in {"released", "failed"} /\ UNCHANGED vars

OpStep ==
  \/ EnsureSession \/ TryRestart \/ Inspect \/ EnsureMounted \/ MountVirtualFS
  \/ Script \/ Failed

Call ==
  \/ ReadFile \/ Exists \/ IsDir \/ Glob \/ Readlink \/ ReadDir \/ StatFS \/ Download
  \/ WriteFile \/ Remove \/ RemoveAll \/ Rename \/ Symlink \/ Chmod \/ MkdirAll \/ Upload
  \/ RunCommand \/ FSTrim \/ FSCheck \/ FSType \/ BlkidAttr \/ DeviceRead \/ DeviceWrite
  \/ RescanBlock \/ ProbeMount \/ Decrypt \/ UnlockClevis \/ UnmountAll \/ Mount

Life ==
  \/ Setup \/ NewMounted \/ UnmountFilesystems \/ ReleaseDevices \/ NextStage \/ ParentRestarts

Next == Crash \/ OpStep \/ Call \/ Life \/ Terminating

\* An operation under way is a running program; what is called next, and
\* whether anything crashes, is not ours to promise.
Spec == Init /\ [][Next]_vars /\ WF_vars(OpStep)

-----------------------------------------------------------------------------
(* Correctness *)

Stopped == pc = "idle"

\* An operation that succeeded was carried out, every time it was carried out,
\* with exactly the recorded filesystems mounted: what a restart could not
\* remount (a LUKS volume, a broken /boot) makes it fail instead of leaving a
\* write to /boot on the root filesystem (ensureMounted, withRecovery).
AckedOnAllMounts ==
  Stopped /\ phase = "in" /\ op.name \in MountedOps /\ op.res = "ok" => op.saw = {Recorded(be)}

\* A script is carried out a second time only after the listener that carried
\* it out first is gone (withRecovery, tryRestart).
ReplayedOnlyAfterDeath == \A l \in op.by : l = be.pid \/ be.pid = 0 \/ ~Alive(l)

\* No stage ends a listener it did not start, whichever way it recovers or
\* tears down (tryRestart, session.close).
SharedListenerLeftAlone == [][\A l \in alive \ alive' : l \in own \/ crashes' > crashes]_vars

\* After finalize has released its devices no listener it started is left,
\* also not one that replaced a dead shared listener (restart, close).
ReleaseEndsOwnListeners == phase = "released" => own \cap alive = {}

\* Every operation returns, however often the listener dies on the way.
OperationReturns == ~Stopped ~> Stopped
=============================================================================
