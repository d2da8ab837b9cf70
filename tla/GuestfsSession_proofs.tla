----------------------- MODULE GuestfsSession_proofs ------------------------
(***************************************************************************)
(* Proofs about GuestfsSession for any number of listeners and of crashes: *)
(* the three safety invariants and the action property that                *)
(* MCGuestfsSession checks for three listeners and two crashes, and that   *)
(* the state stays well formed.                                            *)
(*                                                                         *)
(* The Backend only believes things about the listener, and what makes the *)
(* beliefs safe are facts about pids (a listener that died never comes     *)
(* back, and a new one gets a pid nobody has recorded), about who started  *)
(* what (Ownership), and about the order in which mounting, inspecting and *)
(* the scripts of an operation happen (Mounts, Seen).                      *)
(***************************************************************************)
EXTENDS GuestfsSession, TLAPS

Appliances == [drives : BOOLEAN, mounts : Tables, mapper : BOOLEAN, vfs : BOOLEAN]
Backends == [pid : {0} \cup Listeners, external : BOOLEAN, launched : BOOLEAN,
             specs : Tables, active : BOOLEAN, inspected : BOOLEAN, maps : BOOLEAN]
OpNames == MountedOps \cup {"none", "ask", "probe", "decrypt", "umount"}
Operations == [name : OpNames, scripts : 0 .. 2, retried : BOOLEAN,
               saw : SUBSET Tables, by : SUBSET Listeners, res : {"ok", "no", "error"}]

\* What a stage process keeps, and the listeners and appliances, are well
\* formed; every pid is one that was handed out.
TypeOK ==
  /\ alive \in SUBSET Listeners /\ own \in SUBSET Listeners
  /\ appl \in [Listeners -> Appliances]
  /\ next \in 1 .. MaxListeners + 1 /\ env \in {0} \cup Listeners
  /\ crashes \in Nat /\ crypt \in BOOLEAN /\ infos \in Tables
  /\ stage \in Stages
  /\ phase \in {"new", "in", "unmounted", "released", "failed", "broken", "unwinding"}
  /\ be \in Backends /\ op \in Operations
  /\ pc \in {"idle", "session", "tryRestart", "inspect", "mount", "vfs", "script", "failed"}

\* A pid that was not handed out yet is nobody's, and a listener that is not
\* running has no appliance.
Pids ==
  /\ \A l \in alive \cup own \cup op.by \cup {be.pid, env} : l < next
  /\ \A l \in Listeners : l \notin alive => appl[l] = Off

\* The stage started the listener it uses, unless that is the shared one; of
\* those it started no other one is running.
Ownership ==
  /\ be.pid # 0 /\ ~be.external => be.pid \in own
  /\ be.external => be.pid = env /\ env # 0
  /\ env \notin own
  /\ own \cap alive \subseteq {be.pid}

Phases ==
  /\ pc # "idle" => phase \in {"in", "unmounted"}
  /\ phase = "new" => be = New /\ own = {} /\ op = NoOp
  /\ phase = "released" => be.pid = 0

Replay ==
  /\ be.pid = 0 => op.by = {}
  /\ \A l \in op.by : l = be.pid \/ l \notin alive

\* Mounts the Backend believes in are all there, or none is (a restart that
\* did not come up); inspection came before them.
Mounts ==
  /\ be.active => be.inspected /\ be.pid # 0
  /\ be.active /\ be.pid \in alive => appl[be.pid].mounts \in {Recorded(be), NoMounts}
  /\ pc = "mount" => be.inspected
  /\ pc \in {"vfs", "script"} /\ op.name \in MountedOps => be.active

\* The tables an operation was carried out under so far.
Seen ==
  op.name \in MountedOps =>
    /\ op.saw \subseteq {Recorded(be)} /\ (op.saw # {} => be.inspected)
    /\ Stopped /\ op.res = "ok" => op.saw # {}

SessionInv == TypeOK /\ Pids /\ Ownership /\ Phases /\ Replay /\ Mounts /\ Seen

USE GuestfsBounds

-----------------------------------------------------------------------------
(* Lemmas about the parts of an action.                                    *)

\* Mount tables are built from tables and single mounts.
LEMMA TableTypes ==
  /\ NoMounts \in Tables /\ FirstFilesystem \in Tables
  /\ \A p \in Paths, d \in Devices : At(p, d) \in Tables
  /\ \A s, t \in Tables : Merged(s, t) \in Tables
  /\ \A t \in Tables : \A P \in SUBSET DOMAIN t : [p \in P |-> t[p]] \in Tables
<1>1. NoMounts \in Tables
  <2>1. NoMounts \in [{} -> Devices]
    BY DEF NoMounts
  <2> QED BY <2>1 DEF Tables
<1>2. \A p \in Paths, d \in Devices : At(p, d) \in Tables
  <2> SUFFICES ASSUME NEW p \in Paths, NEW d \in Devices PROVE At(p, d) \in Tables
    OBVIOUS
  <2>1. At(p, d) \in [{p} -> Devices] /\ {p} \in SUBSET Paths
    BY DEF At
  <2> QED BY <2>1 DEF Tables
<1>3. FirstFilesystem \in Tables
  BY <1>2 DEF FirstFilesystem, Paths, Devices
<1>4. \A s, t \in Tables : Merged(s, t) \in Tables
  <2> SUFFICES ASSUME NEW s \in Tables, NEW t \in Tables PROVE Merged(s, t) \in Tables
    OBVIOUS
  <2>1. PICK P \in SUBSET Paths, Q \in SUBSET Paths : s \in [P -> Devices] /\ t \in [Q -> Devices]
    BY DEF Tables
  <2>2. Merged(s, t) \in [P \cup Q -> Devices] /\ P \cup Q \in SUBSET Paths
    BY <2>1 DEF Merged
  <2> QED BY <2>2 DEF Tables
<1>5. \A t \in Tables : \A P \in SUBSET DOMAIN t : [p \in P |-> t[p]] \in Tables
  <2> SUFFICES ASSUME NEW t \in Tables, NEW P \in SUBSET DOMAIN t
               PROVE  [p \in P |-> t[p]] \in Tables
    OBVIOUS
  <2>1. PICK Q \in SUBSET Paths : t \in [Q -> Devices]
    BY DEF Tables
  <2>2. [p \in P |-> t[p]] \in [P -> Devices] /\ P \in SUBSET Paths
    BY <2>1
  <2> QED BY <2>2 DEF Tables
<1> QED BY <1>1, <1>2, <1>3, <1>4, <1>5

\* The values a Backend, an appliance and an operation start from.
LEMMA StartTypes == Off \in Appliances /\ New \in Backends /\ NoOp \in Operations
BY TableTypes DEF Off, New, NoOp, Appliances, Backends, Operations, OpNames

\* What the actions update in these records keeps them of their kind.
LEMMA BackendUpdates ==
  ASSUME NEW b \in Backends, NEW l \in {0} \cup Listeners, NEW t \in Tables,
         NEW v \in BOOLEAN, NEW w \in BOOLEAN
  PROVE  /\ [b EXCEPT !.pid = l] \in Backends
         /\ [b EXCEPT !.pid = l, !.external = v] \in Backends
         /\ [b EXCEPT !.pid = l, !.launched = v, !.external = w] \in Backends
         /\ [b EXCEPT !.launched = v] \in Backends
         /\ [b EXCEPT !.launched = v, !.active = w] \in Backends
         /\ [b EXCEPT !.inspected = v] \in Backends
         /\ [b EXCEPT !.inspected = v, !.specs = t] \in Backends
         /\ [b EXCEPT !.active = v] \in Backends
         /\ [b EXCEPT !.maps = v] \in Backends
         /\ [b EXCEPT !.specs = t, !.active = v] \in Backends
         /\ [b EXCEPT !.specs = t, !.pid = l, !.external = v] \in Backends
BY DEF Backends

LEMMA OperationUpdates ==
  ASSUME NEW o \in Operations, NEW m \in OpNames, NEW n \in 0 .. 2, NEW v \in BOOLEAN,
         NEW S \in SUBSET Tables, NEW B \in SUBSET Listeners, NEW r \in {"ok", "no", "error"}
  PROVE  /\ [o EXCEPT !.scripts = n, !.retried = v, !.by = B] \in Operations
         /\ [o EXCEPT !.res = r] \in Operations
         /\ [o EXCEPT !.retried = v] \in Operations
         /\ [o EXCEPT !.saw = S, !.by = B] \in Operations
         /\ [o EXCEPT !.name = m, !.scripts = n] \in Operations
BY DEF Operations

LEMMA ApplianceUpdates ==
  ASSUME NEW a \in Appliances, NEW t \in Tables, NEW v \in BOOLEAN
  PROVE  /\ [a EXCEPT !.drives = v] \in Appliances
         /\ [a EXCEPT !.mounts = t] \in Appliances
         /\ [a EXCEPT !.mounts = t, !.vfs = v] \in Appliances
         /\ [a EXCEPT !.mapper = v] \in Appliances
         /\ [a EXCEPT !.vfs = v] \in Appliances
BY DEF Appliances

\* A new appliance state at one listener leaves the others alone.
LEMMA OneAppliance ==
  ASSUME appl \in [Listeners -> Appliances], NEW p \in Listeners, NEW a \in Appliances,
         appl' = [appl EXCEPT ![p] = a]
  PROVE  /\ appl' \in [Listeners -> Appliances] /\ appl'[p] = a
         /\ \A l \in Listeners \ {p} : appl'[l] = appl[l]
OBVIOUS

LEMMA Literals ==
  /\ FALSE \in BOOLEAN /\ TRUE \in BOOLEAN /\ 1 \in 0 .. 2
  /\ {} \in SUBSET Listeners /\ {} \in SUBSET Tables
  /\ "none" \in OpNames /\ "ok" \in {"ok", "no", "error"}
BY DEF OpNames

\* Fail ends the operation with an error, or goes on to the second script of
\* Download; it never counts as success.
LEMMA FailFacts ==
  ASSUME op \in Operations, Fail
  PROVE  /\ op' \in Operations /\ op'.name = op.name /\ op'.saw = op.saw
         /\ op'.by \in {op.by, {}}
         /\ pc' \in {"idle", "session"} /\ (pc' = "idle" => op'.res # "ok")
<1>1. CASE op.name = "download" /\ op.scripts = 2
  <2>1. op' = [op EXCEPT !.scripts = 1, !.retried = FALSE, !.by = {}] /\ pc' = "session"
    BY <1>1 DEF Fail
  <2>2. op' \in Operations
    BY <2>1, Literals, OperationUpdates
  <2>3. op'.name = op.name /\ op'.saw = op.saw /\ op'.by = {}
    BY <2>1 DEF Operations
  <2> QED BY <2>1, <2>2, <2>3
<1>2. CASE ~(op.name = "download" /\ op.scripts = 2)
  <2> DEFINE r == IF op.name = "query" THEN "no" ELSE "error"
  <2>1. op' = [op EXCEPT !.res = r] /\ pc' = "idle"
    BY <1>2 DEF Fail
  <2>2. r \in {"ok", "no", "error"} /\ r # "ok"
    OBVIOUS
  <2> HIDE DEF r
  <2>3. op' \in Operations
    BY <2>1, <2>2, OperationUpdates, Literals
  <2>4. op'.name = op.name /\ op'.saw = op.saw /\ op'.by = op.by /\ op'.res = r
    BY <2>1 DEF Operations
  <2> QED BY <2>1, <2>2, <2>3, <2>4
<1> QED BY <1>1, <1>2

\* So does a session that did not come up, except that it may be restarted.
LEMMA SessionFailedFacts ==
  ASSUME op \in Operations, SessionFailed
  PROVE  /\ op' \in Operations /\ op'.name = op.name /\ op'.saw = op.saw
         /\ op'.by \in {op.by, {}}
         /\ pc' \in {"idle", "session", "tryRestart"} /\ (pc' = "idle" => op'.res # "ok")
BY FailFacts DEF SessionFailed

\* A launch on the listener of b, running before or just started: it can only
\* lose that listener, and then a crash is counted; the others keep their
\* appliances, and this one keeps its mounts or has none.
LEMMA LaunchedFacts ==
  ASSUME TypeOK, Pids, NEW b \in Backends, b.pid # 0, b.pid < next \/ b.pid \in Started,
         NEW o \in LaunchOutcomes(b), Launched(b, o)
  PROVE  /\ alive' \in SUBSET Listeners /\ own' \in SUBSET Listeners
         /\ appl' \in [Listeners -> Appliances]
         /\ next' \in 1 .. MaxListeners + 1 /\ next <= next' /\ b.pid < next'
         /\ crashes' \in Nat /\ crashes <= crashes'
         /\ alive' \subseteq alive \cup {b.pid}
         /\ alive \subseteq alive' \cup {b.pid}
         /\ alive \ alive' # {} => crashes' > crashes
         /\ own' = IF b.pid \in Started THEN own \cup {b.pid} ELSE own
         /\ \A l \in Listeners \ {b.pid} : appl'[l] = appl[l]
         /\ appl'[b.pid].mounts \in {appl[b.pid].mounts, NoMounts}
         /\ b.pid \notin alive' => appl'[b.pid] = Off
<1> DEFINE A == alive \cup ({b.pid} \cap Started)
<1>1. /\ b.pid \in Listeners /\ o \in [ok : BOOLEAN, up : BOOLEAN]
      /\ o.up => b.pid \in A
  BY DEF LaunchOutcomes, Launches, Backends
<1>2. b.pid \in Started => b.pid = next /\ next \in Listeners
  BY DEF Started
<1>3. next \in Nat /\ \A l \in Listeners : l \in Nat
  BY DEF TypeOK, Listeners
<1>4. alive' = IF o.up THEN A ELSE A \ {b.pid}
  BY DEF Launched
<1>5. /\ alive' \in SUBSET Listeners /\ alive' \subseteq alive \cup {b.pid}
      /\ alive \subseteq alive' \cup {b.pid}
      /\ o.up <=> b.pid \in alive'
  BY <1>1, <1>4 DEF TypeOK
<1>6. /\ own' = (IF b.pid \in Started THEN own \cup {b.pid} ELSE own)
      /\ own' \in SUBSET Listeners
  BY <1>1 DEF Launched, TypeOK
<1>7. /\ crashes' \in Nat /\ crashes <= crashes'
      /\ alive \ alive' # {} => crashes' > crashes
  BY <1>4 DEF Launched, TypeOK
<1>8. /\ next' \in 1 .. MaxListeners + 1 /\ next <= next' /\ b.pid < next'
  BY <1>1, <1>2, <1>3 DEF Launched, TypeOK, Listeners
<1>9. /\ appl' \in [Listeners -> Appliances]
      /\ \A l \in Listeners \ {b.pid} : appl'[l] = appl[l]
      /\ appl'[b.pid].mounts \in {appl[b.pid].mounts, NoMounts}
      /\ b.pid \notin alive' => appl'[b.pid] = Off
  <2> DEFINE a == IF o.up THEN [appl[b.pid] EXCEPT !.drives = appl[b.pid].drives \/ o.ok] ELSE Off
  <2>1. appl' = [appl EXCEPT ![b.pid] = a]
    BY <1>1 DEF Launched, TypeOK
  <2>2. appl[b.pid] \in Appliances /\ (appl[b.pid].drives \/ o.ok) \in BOOLEAN
    BY <1>1 DEF TypeOK, Appliances
  <2>3. Off \in Appliances /\ Off.mounts = NoMounts
    BY StartTypes DEF Off
  <2>4. a \in Appliances /\ a.mounts \in {appl[b.pid].mounts, NoMounts} /\ (~o.up => a = Off)
    <3>1. CASE o.up
      <4>1. a = [appl[b.pid] EXCEPT !.drives = appl[b.pid].drives \/ o.ok]
        BY <3>1
      <4>2. a \in Appliances
        BY <4>1, <2>2, ApplianceUpdates, TableTypes
      <4>3. a.mounts = appl[b.pid].mounts
        BY <4>1, <2>2 DEF Appliances
      <4> QED BY <3>1, <4>2, <4>3
    <3>2. CASE ~o.up
      BY <3>2, <2>3
    <3> QED BY <3>1, <3>2
  <2> HIDE DEF a
  <2>5. /\ appl' \in [Listeners -> Appliances] /\ appl'[b.pid] = a
        /\ \A l \in Listeners \ {b.pid} : appl'[l] = appl[l]
    BY <1>1, <2>1, <2>4, OneAppliance DEF TypeOK
  <2> QED BY <1>5, <2>4, <2>5
<1> QED BY <1>5, <1>6, <1>7, <1>8, <1>9

\* What openGuestfishSession returns: the session there was, or a shared or a
\* new listener when there was none.
LEMMA OpenedFacts ==
  ASSUME TypeOK, Pids, Ownership, NEW b \in Opened
  PROVE  /\ b \in Backends /\ b.pid # 0 /\ (b.pid < next \/ b.pid \in Started)
         /\ be.pid # 0 => b = be
         /\ b.specs = be.specs /\ b.active = be.active /\ b.inspected = be.inspected
         /\ b.external => b.pid = env /\ env # 0
         /\ ~b.external => b.pid \in own \cup Started
<1>1. be \in Backends /\ \A l \in Listeners : l # 0
  BY DEF TypeOK, Listeners
<1>2. CASE be.pid # 0
  <2>1. b = be
    BY <1>2 DEF Opened
  <2> QED BY <1>1, <1>2, <2>1 DEF Pids, Ownership
<1>3. CASE be.pid = 0 /\ env # 0
  <2>1. PICK l \in alive \cap {env} : b = [be EXCEPT !.pid = l, !.external = TRUE]
    BY <1>3 DEF Opened
  <2>2. l \in {0} \cup Listeners /\ l = env /\ l < next
    BY DEF TypeOK, Pids
  <2>3. b \in Backends
    BY <1>1, <2>1, <2>2, BackendUpdates, Literals, TableTypes
  <2>4. /\ b.pid = l /\ b.external = TRUE
        /\ b.specs = be.specs /\ b.active = be.active /\ b.inspected = be.inspected
    BY <1>1, <2>1 DEF Backends
  <2> QED BY <1>3, <2>2, <2>3, <2>4
<1>4. CASE be.pid = 0 /\ env = 0
  <2>1. PICK l \in Started : b = [be EXCEPT !.pid = l]
    BY <1>4 DEF Opened
  <2>2. l \in {0} \cup Listeners /\ l # 0
    BY <1>1 DEF Started
  <2>3. b \in Backends
    BY <1>1, <2>1, <2>2, BackendUpdates, Literals, TableTypes
  <2>4. /\ b.pid = l /\ b.external = be.external
        /\ b.specs = be.specs /\ b.active = be.active /\ b.inspected = be.inspected
    BY <1>1, <2>1 DEF Backends
  <2>5. ~be.external
    BY <1>4 DEF Ownership
  <2> QED BY <1>4, <2>2, <2>3, <2>4, <2>5
<1> QED BY <1>2, <1>3, <1>4

\* A launch on a listener that is shared, or the stage's own, or new, keeps
\* what is known about pids, ownership and replays.
LEMMA SessionStarted ==
  ASSUME SessionInv, NEW b \in Backends, b.pid # 0, b.pid < next \/ b.pid \in Started,
         own \cap alive \subseteq {b.pid},
         b.external => b.pid = env /\ env # 0,
         ~b.external => b.pid \in own \cup Started,
         \A l \in op.by : l = b.pid \/ l \notin alive,
         NEW o \in LaunchOutcomes(b), Launched(b, o), env' = env,
         be'.pid = b.pid, be'.external = b.external, op'.by \in {op.by, {}}
  PROVE  Pids' /\ Ownership' /\ Replay'
<1>1. /\ alive' \subseteq alive \cup {b.pid} /\ alive' \subseteq Listeners
      /\ next <= next' /\ b.pid < next' /\ next' \in 1 .. MaxListeners + 1
      /\ own' = IF b.pid \in Started THEN own \cup {b.pid} ELSE own
      /\ \A l \in Listeners \ {b.pid} : appl'[l] = appl[l]
      /\ b.pid \notin alive' => appl'[b.pid] = Off
      /\ alive \subseteq alive' \cup {b.pid}
  BY LaunchedFacts DEF SessionInv
<1>2. /\ next \in Nat /\ next' \in Nat /\ b.pid \in Listeners
      /\ alive \cup own \cup op.by \subseteq Listeners /\ env \in {0} \cup Listeners
      /\ \A l \in Listeners : l \in Nat
  <2>1. b.pid \in Listeners /\ op.by \subseteq Listeners
    BY DEF SessionInv, TypeOK, Backends, Operations
  <2>2. next \in Nat /\ next' \in Nat /\ \A l \in Listeners : l \in Nat
    BY <1>1 DEF SessionInv, TypeOK, Listeners
  <2> QED BY <2>1, <2>2 DEF SessionInv, TypeOK
<1>3. Pids'
  <2>1. \A l \in alive' \cup own' \cup op'.by \cup {be'.pid, env'} : l < next'
    <3>1. \A l \in alive \cup own \cup op.by \cup {env} : l < next /\ l \in Nat
      BY <1>2 DEF SessionInv, Pids
    <3> QED BY <1>1, <1>2, <3>1
  <2>2. \A l \in Listeners : l \notin alive' => appl'[l] = Off
    BY <1>1, <1>2 DEF SessionInv, Pids
  <2> QED BY <2>1, <2>2 DEF Pids
<1>4. Ownership'
  <2>1. b.pid \in Started => b.pid = next /\ env < next
    BY DEF Started, SessionInv, Pids
  <2>2. env \notin own' \/ env = 0
    BY <1>1, <1>2, <2>1 DEF SessionInv, Ownership
  <2>3. 0 \notin own'
    BY <1>1, <1>2 DEF Listeners
  <2>4. own' \cap alive' \subseteq {b.pid}
    BY <1>1
  <2>5. be'.pid # 0 /\ ~be'.external => be'.pid \in own'
    BY <1>1
  <2> QED BY <2>2, <2>3, <2>4, <2>5 DEF Ownership
<1>5. Replay'
  BY <1>1 DEF SessionInv, Replay
<1> QED BY <1>3, <1>4, <1>5

-----------------------------------------------------------------------------
(* The invariant holds at the start and every action keeps it.             *)

\* The parent's listener, if there is one, is the only one.
LEMMA SessionInit == Init => SessionInv
<1> SUFFICES ASSUME Init PROVE SessionInv
  OBVIOUS
<1>1. TypeOK
  <2>1. /\ env \in {0} \cup Listeners /\ alive \in SUBSET Listeners /\ own \in SUBSET Listeners
        /\ next \in 1 .. MaxListeners + 1 /\ crashes \in Nat
    BY DEF Init, Listeners
  <2>2. appl \in [Listeners -> Appliances] /\ be \in Backends /\ op \in Operations /\ infos \in Tables
    BY StartTypes, TableTypes DEF Init
  <2> QED BY <2>1, <2>2 DEF TypeOK, Init, Stages
<1>2. Pids
  BY DEF Init, Pids, NoOp, New, Listeners
<1>3. Ownership /\ Phases /\ Replay
  BY DEF Init, Ownership, Phases, Replay, NoOp, New
<1>4. Mounts /\ Seen
  BY DEF Init, Mounts, Seen, NoOp, New, MountedOps, Recovering, FileOps
<1> QED BY <1>1, <1>2, <1>3, <1>4 DEF SessionInv

\* A listener that dies takes its appliance with it.
LEMMA CrashKeeps == SessionInv /\ Crash => SessionInv'
<1> SUFFICES ASSUME SessionInv, Crash PROVE SessionInv'
  OBVIOUS
<1>1. PICK l \in alive : alive' = alive \ {l} /\ appl' = [appl EXCEPT ![l] = Off]
  BY DEF Crash
<1>2. l \in Listeners /\ UNCHANGED <<next, env, crypt, infos, stage, phase, be, own, pc, op>>
  BY DEF Crash, setup, SessionInv, TypeOK
<1>3. /\ appl' \in [Listeners -> Appliances] /\ appl'[l] = Off
      /\ \A k \in Listeners \ {l} : appl'[k] = appl[k]
  BY <1>1, <1>2, OneAppliance, StartTypes DEF SessionInv, TypeOK
<1>4. TypeOK'
  BY <1>1, <1>2, <1>3 DEF SessionInv, TypeOK, Crash
<1>5. Pids'
  BY <1>1, <1>2, <1>3 DEF SessionInv, Pids
<1>6. Ownership' /\ Phases' /\ Replay'
  BY <1>1, <1>2 DEF SessionInv, Ownership, Phases, Replay
<1>7. Mounts'
  <2>1. be.pid \in alive' => be.pid \in alive /\ appl'[be.pid] = appl[be.pid]
    BY <1>1, <1>3 DEF SessionInv, TypeOK
  <2> QED BY <1>2, <2>1 DEF SessionInv, Mounts, Recorded
<1>8. Seen'
  BY <1>2 DEF SessionInv, Seen, Recorded, Stopped
<1> QED BY <1>4, <1>5, <1>6, <1>7, <1>8 DEF SessionInv

\* An operation that gives up, or is to be tried again, leaves everything
\* else as it is; the tables it was carried out under do not change.
LEMMA GivesUp ==
  ASSUME SessionInv, pc # "idle", op' \in Operations, op'.name = op.name, op'.saw = op.saw,
         op'.by \in {op.by, {}}, pc' \in {"idle", "session", "tryRestart"},
         pc' = "idle" => op'.res # "ok", UNCHANGED <<world, setup, be, own>>
  PROVE  SessionInv'
<1>1. UNCHANGED <<alive, appl, next, crashes, env, crypt, infos, stage, phase, be, own>>
  BY DEF world, setup
<1>2. TypeOK'
  BY <1>1 DEF SessionInv, TypeOK
<1>3. Pids' /\ Ownership' /\ Replay'
  BY <1>1 DEF SessionInv, Pids, Ownership, Replay
<1>4. Phases'
  BY <1>1 DEF SessionInv, Phases
<1>5. Mounts'
  BY <1>1 DEF SessionInv, Mounts, Recorded
<1>6. Seen'
  BY <1>1 DEF SessionInv, Seen, Recorded, Stopped
<1> QED BY <1>2, <1>3, <1>4, <1>5, <1>6 DEF SessionInv

\* What a launch during an operation must not disturb: the Backend keeps its
\* mount table, and mounts it still believes in are on the listener it had.
LEMMA LaunchKeeps ==
  ASSUME SessionInv, pc # "idle", UNCHANGED setup,
         NEW b \in Backends, b.pid # 0, b.pid < next \/ b.pid \in Started,
         own \cap alive \subseteq {b.pid},
         b.external => b.pid = env /\ env # 0,
         ~b.external => b.pid \in own \cup Started,
         \A l \in op.by : l = b.pid \/ l \notin alive,
         NEW o \in LaunchOutcomes(b), Launched(b, o),
         be' \in Backends, be'.pid = b.pid, be'.external = b.external,
         be'.specs = be.specs, be'.inspected = be.inspected,
         be'.active => be.active /\ (b.pid = be.pid \/ b.pid \notin alive),
         op' \in Operations, op'.name = op.name, op'.saw = op.saw, op'.by \in {op.by, {}},
         pc' \in {"idle", "session", "tryRestart", "inspect", "script"},
         pc' = "idle" => op'.res # "ok", pc' = "script" => op.name \notin MountedOps
  PROVE  SessionInv'
<1>1. UNCHANGED <<env, crypt, infos, stage, phase>>
  BY DEF setup
<1>2. /\ alive' \in SUBSET Listeners /\ own' \in SUBSET Listeners
      /\ appl' \in [Listeners -> Appliances]
      /\ next' \in 1 .. MaxListeners + 1 /\ crashes' \in Nat
      /\ appl'[b.pid].mounts \in {appl[b.pid].mounts, NoMounts}
  BY LaunchedFacts DEF SessionInv
<1>3. TypeOK'
  BY <1>1, <1>2 DEF SessionInv, TypeOK
<1>4. Pids' /\ Ownership' /\ Replay'
  BY <1>1, SessionStarted
<1>5. Phases'
  BY <1>1 DEF SessionInv, Phases
<1>6. Mounts'
  <2>1. b.pid \in Listeners
    BY DEF Backends
  <2>2. b.pid \notin alive => appl[b.pid].mounts = NoMounts
    BY <2>1 DEF SessionInv, Pids, Off
  <2>3. be'.active => appl'[b.pid].mounts \in {Recorded(be), NoMounts}
    BY <1>2, <2>2 DEF SessionInv, Mounts
  <2>4. Recorded(be') = Recorded(be) /\ Recorded(be)' = Recorded(be)
    BY <1>1 DEF Recorded
  <2> QED BY <2>3, <2>4 DEF SessionInv, Mounts
<1>7. Seen'
  BY <1>1 DEF SessionInv, Seen, Recorded, Stopped
<1> QED BY <1>3, <1>4, <1>5, <1>6, <1>7 DEF SessionInv

\* ensureSession opens or finds the session, and launches it once.
LEMMA EnsureSessionKeeps == SessionInv /\ EnsureSession => SessionInv'
<1> SUFFICES ASSUME SessionInv, EnsureSession PROVE SessionInv'
  OBVIOUS
<1>1. pc = "session" /\ UNCHANGED setup /\ op \in Operations
  BY DEF EnsureSession, SessionInv, TypeOK
<1>2. ASSUME NEW b \in Opened, NEW o \in LaunchOutcomes(b), Launched(b, o),
             be' = [b EXCEPT !.launched = o.ok],
             IF o.ok THEN /\ pc' = (IF op.name \in MountedOps THEN "inspect" ELSE "script")
                          /\ UNCHANGED op
                     ELSE SessionFailed
      PROVE  SessionInv'
  <2>1. /\ b \in Backends /\ b.pid # 0 /\ (b.pid < next \/ b.pid \in Started)
        /\ be.pid # 0 => b = be
        /\ b.specs = be.specs /\ b.active = be.active /\ b.inspected = be.inspected
        /\ b.external => b.pid = env /\ env # 0
        /\ ~b.external => b.pid \in own \cup Started
    BY OpenedFacts DEF SessionInv
  <2>2. o.ok \in BOOLEAN
    BY DEF LaunchOutcomes, Launches
  <2>3. be' \in Backends
    BY <1>2, <2>1, <2>2, BackendUpdates, TableTypes
  <2>4. /\ be'.pid = b.pid /\ be'.external = b.external /\ be'.specs = be.specs
        /\ be'.inspected = be.inspected /\ be'.active = be.active
    BY <1>2, <2>1 DEF Backends
  <2>5. /\ op' \in Operations /\ op'.name = op.name /\ op'.saw = op.saw /\ op'.by \in {op.by, {}}
        /\ pc' \in {"idle", "session", "tryRestart", "inspect", "script"}
        /\ pc' = "idle" => op'.res # "ok"
        /\ pc' = "script" => op.name \notin MountedOps
    BY <1>1, <1>2, SessionFailedFacts
  <2>6. own \cap alive \subseteq {b.pid}
    <3>1. 0 \notin alive
      BY DEF SessionInv, TypeOK, Listeners
    <3> QED BY <2>1, <3>1 DEF SessionInv, Ownership
  <2>7. \A l \in op.by : l = b.pid \/ l \notin alive
    BY <2>1 DEF SessionInv, Replay
  <2>8. be'.active => be.active /\ b.pid = be.pid
    BY <2>1, <2>4 DEF SessionInv, Mounts
  <2> QED BY <1>1, <1>2, <2>1, <2>3, <2>4, <2>5, <2>6, <2>7, <2>8, LaunchKeeps
<1>3. CASE OpenFails /\ SessionFailed /\ UNCHANGED <<world, be, own>>
  BY <1>1, <1>3, SessionFailedFacts, GivesUp
<1> QED BY <1>2, <1>3 DEF EnsureSession

\* tryRestart replaces a dead listener by one of the stage's own.
LEMMA TryRestartKeeps == SessionInv /\ TryRestart => SessionInv'
<1> SUFFICES ASSUME SessionInv, TryRestart PROVE SessionInv'
  OBVIOUS
<1>1. pc = "tryRestart" /\ UNCHANGED setup /\ op \in Operations /\ be \in Backends
  BY DEF TryRestart, SessionInv, TypeOK
<1>2. ASSUME Fail, UNCHANGED <<world, be, own>> PROVE SessionInv'
  BY <1>1, <1>2, FailFacts, GivesUp
<1>3. ASSUME be.pid # 0, ~Alive(be.pid), NEW l \in Started, NEW o \in LaunchOutcomes(Restarted(l)),
             Launched(Restarted(l), o),
             IF o.ok
             THEN /\ be' = [Restarted(l) EXCEPT !.launched = TRUE, !.active = FALSE]
                  /\ pc' = "session" /\ UNCHANGED op
             ELSE be' = Restarted(l) /\ Fail
      PROVE  SessionInv'
  <2> DEFINE b == Restarted(l)
  <2>1. l = next /\ l \in Listeners /\ l # 0 /\ l \notin alive
    BY DEF Started, Listeners, SessionInv, Pids
  <2>2. b \in Backends
    BY <1>1, <2>1, BackendUpdates, Literals, TableTypes DEF Restarted
  <2>3. /\ b.pid = l /\ b.external = FALSE /\ b.specs = be.specs
        /\ b.inspected = be.inspected /\ b.active = be.active
    BY <1>1 DEF Restarted, Backends
  <2> HIDE DEF b
  <2>4. be' \in Backends
    BY <1>3, <2>1, <2>2, BackendUpdates, Literals, TableTypes DEF b
  <2>5. /\ be'.pid = b.pid /\ be'.external = b.external /\ be'.specs = be.specs
        /\ be'.inspected = be.inspected /\ (be'.active => be.active)
    <3>1. CASE o.ok
      <4>1. be' = [b EXCEPT !.launched = TRUE, !.active = FALSE]
        BY <1>3, <3>1 DEF b
      <4> QED BY <2>2, <2>3, <4>1 DEF Backends
    <3>2. CASE ~o.ok
      <4>1. be' = b
        BY <1>3, <3>2 DEF b
      <4> QED BY <2>3, <4>1
    <3> QED BY <3>1, <3>2
  <2>6. /\ op' \in Operations /\ op'.name = op.name /\ op'.saw = op.saw /\ op'.by \in {op.by, {}}
        /\ pc' \in {"idle", "session"} /\ (pc' = "idle" => op'.res # "ok")
    BY <1>1, <1>3, FailFacts
  <2>7. own \cap alive \subseteq {b.pid} /\ \A k \in op.by : k = b.pid \/ k \notin alive
    BY <1>3 DEF SessionInv, Ownership, Replay, Alive
  <2>8. o \in LaunchOutcomes(b) /\ Launched(b, o) /\ b.pid \in Started
    BY <1>3, <2>3 DEF b
  <2> QED BY <1>1, <2>1, <2>2, <2>3, <2>4, <2>5, <2>6, <2>7, <2>8, LaunchKeeps
<1> QED BY <1>2, <1>3 DEF TryRestart

\* The guest's devices are those of the disk.
LEMMA InspectedTable == Inspected \in Tables /\ RootDev \in Devices
BY TableTypes DEF Inspected, RootDev, Devices, Paths

\* discoverMountpoints changes the table only before anything is mounted.
LEMMA InspectKeeps == SessionInv /\ Inspect => SessionInv'
<1> SUFFICES ASSUME SessionInv, Inspect PROVE SessionInv'
  OBVIOUS
<1>1. /\ pc = "inspect" /\ be \in Backends /\ op \in Operations
      /\ UNCHANGED <<alive, appl, next, crashes, env, crypt, infos, stage, phase, own>>
  BY DEF Inspect, SessionInv, TypeOK, world, setup
<1>2. ASSUME pc' = "mount", UNCHANGED op, be' \in Backends, be'.inspected = TRUE,
             be'.pid = be.pid, be'.external = be.external, be'.active = be.active,
             be'.specs = be.specs \/ ~be.inspected
      PROVE  SessionInv'
  <2>1. TypeOK' /\ Phases'
    BY <1>1, <1>2 DEF SessionInv, TypeOK, Phases
  <2>2. Pids' /\ Ownership' /\ Replay'
    BY <1>1, <1>2 DEF SessionInv, Pids, Ownership, Replay
  <2>3. Mounts' /\ Seen'
    BY <1>1, <1>2 DEF SessionInv, Mounts, Seen, Recorded, Stopped
  <2> QED BY <2>1, <2>2, <2>3 DEF SessionInv
<1>3. CASE (be.active \/ be.inspected) /\ pc' = "mount" /\ UNCHANGED <<be, op>>
  <2>1. be.inspected = TRUE
    BY <1>1, <1>3 DEF SessionInv, Mounts, Backends
  <2> QED BY <1>1, <1>2, <1>3, <2>1
<1>4. CASE be' = [be EXCEPT !.inspected = TRUE] /\ pc' = "mount" /\ UNCHANGED op
  <2>1. be' \in Backends
    BY <1>1, <1>4, BackendUpdates, Literals, TableTypes
  <2>2. /\ be'.inspected = TRUE /\ be'.pid = be.pid /\ be'.external = be.external
        /\ be'.active = be.active /\ be'.specs = be.specs
    BY <1>1, <1>4 DEF Backends
  <2> QED BY <1>2, <1>4, <2>1, <2>2
<1>5. CASE /\ ~be.inspected /\ pc' = "mount" /\ UNCHANGED op
           /\ be' = [be EXCEPT !.inspected = TRUE, !.specs = Merged(Recorded(be), Inspected)]
  <2> DEFINE t == Merged(Recorded(be), Inspected)
  <2>1. t \in Tables
    <3>1. Recorded(be) \in Tables
      BY <1>1 DEF Recorded, Backends, SessionInv, TypeOK
    <3> QED BY <3>1, InspectedTable, TableTypes
  <2> HIDE DEF t
  <2>2. be' = [be EXCEPT !.inspected = TRUE, !.specs = t]
    BY <1>5 DEF t
  <2>3. be' \in Backends
    BY <1>1, <2>1, <2>2, BackendUpdates, Literals
  <2>4. /\ be'.inspected = TRUE /\ be'.pid = be.pid /\ be'.external = be.external
        /\ be'.active = be.active
    BY <1>1, <2>2 DEF Backends
  <2> QED BY <1>2, <1>5, <2>3, <2>4
<1>6. CASE Fail /\ UNCHANGED be
  BY <1>1, <1>6, FailFacts, GivesUp DEF world, setup
<1> QED BY <1>3, <1>4, <1>5, <1>6 DEF Inspect

\* The failure of an operation is final, but for Download.
LEMMA FailedKeeps == SessionInv /\ Failed => SessionInv'
<1> SUFFICES ASSUME SessionInv, Failed PROVE SessionInv'
  OBVIOUS
<1>1. pc # "idle" /\ op \in Operations /\ Fail /\ UNCHANGED <<world, setup, be, own>>
  BY DEF Failed, SessionInv, TypeOK
<1> QED BY <1>1, FailFacts, GivesUp

\* A step of an operation on its own listener concerns no other listener.
LEMMA OnOwnListener ==
  ASSUME SessionInv, pc # "idle", UNCHANGED <<next, env, crypt, infos, stage, phase, own>>,
         be' \in Backends, be'.pid = be.pid, be'.external = be.external,
         alive' \subseteq alive, alive \subseteq alive' \cup {be.pid}, crashes' \in Nat,
         appl' \in [Listeners -> Appliances],
         \A l \in Listeners \ {be.pid} : appl'[l] = appl[l],
         be.pid \in Listeners /\ be.pid \notin alive' => appl'[be.pid] = Off,
         op' \in Operations, op'.by \subseteq op.by \cup ({be.pid} \cap alive),
         pc' \in {"idle", "session", "tryRestart", "inspect", "mount", "vfs", "script", "failed"}
  PROVE  TypeOK' /\ Pids' /\ Ownership' /\ Phases' /\ Replay'
<1>1. TypeOK'
  BY DEF SessionInv, TypeOK
<1>2. Pids'
  BY DEF SessionInv, Pids
<1>3. Ownership'
  BY DEF SessionInv, Ownership
<1>4. Phases'
  BY DEF SessionInv, Phases
<1>5. Replay'
  <2>1. 0 \notin alive
    BY DEF SessionInv, TypeOK, Listeners
  <2> QED BY <2>1 DEF SessionInv, Replay
<1> QED BY <1>1, <1>2, <1>3, <1>4, <1>5

\* ensureMounted believes in the mounts only when all are there.
LEMMA EnsureMountedKeeps == SessionInv /\ EnsureMounted => SessionInv'
<1> SUFFICES ASSUME SessionInv, EnsureMounted PROVE SessionInv'
  OBVIOUS
<1>1. /\ pc = "mount" /\ be \in Backends /\ op \in Operations /\ be.inspected
      /\ UNCHANGED <<env, crypt, infos, stage, phase, own>>
      /\ appl \in [Listeners -> Appliances] /\ alive \in SUBSET Listeners /\ crashes \in Nat
  BY DEF EnsureMounted, SessionInv, TypeOK, setup, Mounts
<1>2. CASE /\ be.active
           /\ pc' = (IF op.name = "run" /\ ~op.retried THEN "vfs" ELSE "script")
           /\ UNCHANGED <<world, be, op>>
  <2>1. UNCHANGED <<alive, appl, next, crashes>> /\ pc' \in {"vfs", "script"}
    BY <1>2 DEF world
  <2>2. TypeOK' /\ Pids' /\ Ownership' /\ Phases' /\ Replay'
    BY <1>1, <1>2, <2>1, OnOwnListener DEF SessionInv, Pids
  <2>3. Mounts' /\ Seen'
    BY <1>1, <1>2, <2>1 DEF SessionInv, Mounts, Seen, Recorded, Stopped
  <2> QED BY <2>2, <2>3 DEF SessionInv
<1>3. ASSUME ~be.active, Alive(be.pid), UNCHANGED <<alive, next, crashes>>,
             NEW t \in MountResults(Recorded(be), appl[be.pid]),
             appl' = [appl EXCEPT ![be.pid].mounts = t, ![be.pid].vfs = FALSE],
             IF t = Recorded(be)
             THEN be' = [be EXCEPT !.active = TRUE] /\ UNCHANGED <<pc, op>>
             ELSE Fail /\ UNCHANGED be
      PROVE  SessionInv'
  <2>1. be.pid \in alive /\ be.pid \in Listeners /\ be.pid # 0
    BY <1>1, <1>3 DEF Alive, Listeners
  <2>2. t \in Tables /\ appl[be.pid] \in Appliances
    BY <1>1, <2>1 DEF MountResults
  <2> DEFINE a == [appl[be.pid] EXCEPT !.mounts = t, !.vfs = FALSE]
  <2>3. appl' = [appl EXCEPT ![be.pid] = a]
    BY <1>1, <1>3, <2>1
  <2>4. a \in Appliances
    BY <2>2, ApplianceUpdates, Literals
  <2>5. a.mounts = t
    BY <2>2 DEF Appliances
  <2> HIDE DEF a
  <2>6. /\ appl' \in [Listeners -> Appliances] /\ appl'[be.pid].mounts = t
        /\ \A l \in Listeners \ {be.pid} : appl'[l] = appl[l]
    BY <1>1, <2>1, <2>3, <2>4, <2>5, OneAppliance
  <2>7. CASE t = Recorded(be)
    <3>1. be' = [be EXCEPT !.active = TRUE] /\ UNCHANGED <<pc, op>>
      BY <1>3, <2>7
    <3>2. be' \in Backends
      BY <1>1, <3>1, BackendUpdates, Literals, TableTypes
    <3>3. /\ be'.pid = be.pid /\ be'.external = be.external /\ be'.specs = be.specs
          /\ be'.inspected = be.inspected
      BY <1>1, <3>1 DEF Backends
    <3>4. TypeOK' /\ Pids' /\ Ownership' /\ Phases' /\ Replay'
      BY <1>1, <1>3, <2>1, <2>6, <3>1, <3>2, <3>3, OnOwnListener
    <3>5. Recorded(be)' = Recorded(be)
      BY <1>1, <3>3 DEF Recorded
    <3>6. Mounts'
      BY <1>1, <2>1, <2>6, <2>7, <3>1, <3>3, <3>5 DEF Mounts
    <3>7. Seen'
      BY <1>1, <3>1, <3>3, <3>5 DEF SessionInv, Seen, Stopped
    <3> QED BY <3>4, <3>6, <3>7 DEF SessionInv
  <2>8. CASE t # Recorded(be)
    <3>1. Fail /\ UNCHANGED be
      BY <1>3, <2>8
    <3>2. /\ op' \in Operations /\ op'.name = op.name /\ op'.saw = op.saw /\ op'.by \in {op.by, {}}
          /\ pc' \in {"idle", "session"} /\ (pc' = "idle" => op'.res # "ok")
      BY <1>1, <3>1, FailFacts
    <3>3. TypeOK' /\ Pids' /\ Ownership' /\ Phases' /\ Replay'
      BY <1>1, <1>3, <2>1, <2>6, <3>1, <3>2, OnOwnListener
    <3>4. Mounts' /\ Seen'
      BY <1>1, <1>3, <3>1, <3>2 DEF SessionInv, Mounts, Seen, Recorded, Stopped
    <3> QED BY <3>3, <3>4 DEF SessionInv
  <2> QED BY <2>7, <2>8
<1>4. CASE Fail /\ UNCHANGED <<world, be>>
  BY <1>1, <1>4, FailFacts, GivesUp DEF setup
<1> QED BY <1>2, <1>3, <1>4 DEF EnsureMounted

\* /proc, /sys and /dev are not among the recorded mounts.
LEMMA MountVirtualFSKeeps == SessionInv /\ MountVirtualFS => SessionInv'
<1> SUFFICES ASSUME SessionInv, MountVirtualFS PROVE SessionInv'
  OBVIOUS
<1>1. /\ pc = "vfs" /\ pc' = "script" /\ be \in Backends /\ op \in Operations
      /\ UNCHANGED <<alive, next, crashes, env, crypt, infos, stage, phase, be, own, op>>
      /\ appl \in [Listeners -> Appliances] /\ alive \in SUBSET Listeners /\ crashes \in Nat
  BY DEF MountVirtualFS, SessionInv, TypeOK, setup
<1>2. /\ appl' \in [Listeners -> Appliances]
      /\ \A l \in Listeners \ {be.pid} : appl'[l] = appl[l]
      /\ be.pid \in Listeners => appl'[be.pid].mounts = appl[be.pid].mounts
      /\ be.pid \in Listeners /\ be.pid \notin alive => appl'[be.pid] = appl[be.pid]
  <2>1. CASE UNCHANGED appl
    BY <1>1, <2>1
  <2>2. CASE Alive(be.pid) /\ appl' = [appl EXCEPT ![be.pid].vfs = TRUE]
    <3> DEFINE a == [appl[be.pid] EXCEPT !.vfs = TRUE]
    <3>1. be.pid \in alive /\ be.pid \in Listeners
      BY <1>1, <2>2 DEF Alive
    <3>2. appl' = [appl EXCEPT ![be.pid] = a]
      BY <1>1, <2>2, <3>1
    <3>3. a \in Appliances
      BY <1>1, <3>1, ApplianceUpdates, Literals, TableTypes
    <3>4. a.mounts = appl[be.pid].mounts
      BY <1>1, <3>1 DEF Appliances
    <3> HIDE DEF a
    <3> QED BY <1>1, <3>1, <3>2, <3>3, <3>4, OneAppliance
  <2> QED BY <2>1, <2>2 DEF MountVirtualFS
<1>3. TypeOK' /\ Pids' /\ Ownership' /\ Phases' /\ Replay'
  BY <1>1, <1>2, OnOwnListener DEF SessionInv, Pids
<1>4. Mounts' /\ Seen'
  BY <1>1, <1>2 DEF SessionInv, Mounts, Seen, Recorded, Stopped
<1> QED BY <1>3, <1>4 DEF SessionInv

\* A script leaves the mounts of the appliance as they are, or undoes them.
LEMMA EffectFacts ==
  ASSUME NEW a \in Appliances
  PROVE  Effect(a) \in Appliances /\ Effect(a).mounts \in {a.mounts, NoMounts}
<1>1. /\ [a EXCEPT !.mapper = TRUE] \in Appliances /\ [a EXCEPT !.mounts = NoMounts] \in Appliances
      /\ [a EXCEPT !.vfs = FALSE] \in Appliances
  BY ApplianceUpdates, Literals, TableTypes
<1>2. /\ [a EXCEPT !.mapper = TRUE].mounts = a.mounts
      /\ [a EXCEPT !.mounts = NoMounts].mounts = NoMounts
      /\ [a EXCEPT !.vfs = FALSE].mounts = a.mounts
  BY DEF Appliances
<1> QED BY <1>1, <1>2 DEF Effect

\* Only operations that mount nothing themselves change what is believed, and
\* never to more mounts than before.
LEMMA BelievedFacts ==
  ASSUME be \in Backends, NEW b \in {Believed, BelievedAfterError}
  PROVE  /\ b \in Backends /\ b.pid = be.pid /\ b.external = be.external
         /\ b.inspected = be.inspected
         /\ b.active => be.active /\ b.specs = be.specs
         /\ op.name \in MountedOps => b = be
<1>1. /\ [be EXCEPT !.maps = TRUE] \in Backends /\ [be EXCEPT !.active = FALSE] \in Backends
      /\ [be EXCEPT !.specs = NoMounts, !.active = FALSE] \in Backends
  BY BackendUpdates, Literals, TableTypes
<1>2. b \in {be, [be EXCEPT !.maps = TRUE], [be EXCEPT !.active = FALSE],
             [be EXCEPT !.specs = NoMounts, !.active = FALSE]}
  BY DEF Believed, BelievedAfterError
<1>3. b \in Backends
  BY <1>1, <1>2
<1>4. /\ b.pid = be.pid /\ b.external = be.external /\ b.inspected = be.inspected
      /\ b.active => be.active /\ b.specs = be.specs
  <2>1. CASE b = be
    BY <2>1
  <2>2. CASE b = [be EXCEPT !.maps = TRUE]
    BY <2>2 DEF Backends
  <2>3. CASE b = [be EXCEPT !.active = FALSE]
    BY <2>3 DEF Backends
  <2>4. CASE b = [be EXCEPT !.specs = NoMounts, !.active = FALSE]
    BY <2>4 DEF Backends
  <2> QED BY <1>2, <2>1, <2>2, <2>3, <2>4
<1>5. op.name \in MountedOps => b = be
  BY DEF Believed, BelievedAfterError, MountedOps, Recovering, FileOps
<1> QED BY <1>3, <1>4, <1>5

\* What is known of an operation that was carried out once more.
LEMMA AppliedFacts ==
  ASSUME TypeOK, be.pid \in alive
  PROVE  /\ Applied \in Operations /\ Applied.name = op.name /\ Applied.scripts = op.scripts
         /\ Applied.saw = op.saw \cup {appl[be.pid].mounts} /\ Applied.by = op.by \cup {be.pid}
<1> DEFINE S == op.saw \cup {appl[be.pid].mounts}
           B == op.by \cup {be.pid}
<1>1. op \in Operations /\ be.pid \in Listeners
  BY DEF TypeOK
<1>2. Applied = [op EXCEPT !.saw = S, !.by = B]
  BY <1>1 DEF Applied
<1>3. S \in SUBSET Tables /\ B \in SUBSET Listeners
  BY <1>1 DEF TypeOK, Operations, Appliances
<1> HIDE DEF S, B
<1>4. Applied \in Operations
  BY <1>1, <1>2, <1>3, OperationUpdates, Literals
<1>5. /\ Applied.name = op.name /\ Applied.scripts = op.scripts
      /\ Applied.saw = S /\ Applied.by = B
  BY <1>1, <1>2 DEF Operations
<1> QED BY <1>4, <1>5 DEF S, B

\* withRecovery after a failure: the record is kept.
LEMMA ScriptFailedFacts ==
  ASSUME NEW o \in Operations, ScriptFailed(o)
  PROVE  /\ op' \in Operations /\ op'.name = o.name /\ op'.saw = o.saw /\ op'.by = o.by
         /\ pc' \in {"tryRestart", "failed"}
<1>1. CASE op' = o /\ pc' = "failed"
  BY <1>1
<1>2. CASE op' = [o EXCEPT !.retried = TRUE] /\ pc' = "tryRestart"
  <2>1. op' \in Operations
    BY <1>2, OperationUpdates, Literals
  <2>2. op'.name = o.name /\ op'.saw = o.saw /\ op'.by = o.by
    BY <1>2 DEF Operations
  <2> QED BY <1>2, <2>1, <2>2
<1> QED BY <1>1, <1>2 DEF ScriptFailed

\* A script that was answered ends the operation or makes way for the next.
LEMMA AnsweredFacts ==
  ASSUME TypeOK, be.pid \in alive, Answered
  PROVE  /\ op' \in Operations /\ op'.name = op.name
         /\ op'.saw = op.saw \cup {appl[be.pid].mounts}
         /\ op'.by \subseteq op.by \cup {be.pid} /\ pc' \in {"idle", "session"}
<1> DEFINE o == Applied
<1>1. /\ o \in Operations /\ o.name = op.name /\ o.scripts = op.scripts
      /\ o.saw = op.saw \cup {appl[be.pid].mounts} /\ o.by = op.by \cup {be.pid}
  BY AppliedFacts
<1>2. \/ /\ op.scripts > 1 /\ pc' = "session"
         /\ op' = [o EXCEPT !.scripts = o.scripts - 1, !.retried = FALSE, !.by = {}]
      \/ pc' = "idle" /\ op' = [o EXCEPT !.res = "ok"]
  BY <1>1 DEF Answered
<1> HIDE DEF o
<1>3. CASE /\ op.scripts > 1 /\ pc' = "session"
           /\ op' = [o EXCEPT !.scripts = o.scripts - 1, !.retried = FALSE, !.by = {}]
  <2>1. o.scripts - 1 \in 0 .. 2
    BY <1>1, <1>3 DEF Operations
  <2>2. op' \in Operations
    BY <1>1, <1>3, <2>1, OperationUpdates, Literals
  <2>3. op'.name = o.name /\ op'.saw = o.saw /\ op'.by = {}
    BY <1>1, <1>3 DEF Operations
  <2> QED BY <1>1, <1>3, <2>2, <2>3
<1>4. CASE pc' = "idle" /\ op' = [o EXCEPT !.res = "ok"]
  <2>1. op' \in Operations
    BY <1>1, <1>4, OperationUpdates, Literals
  <2>2. op'.name = o.name /\ op'.saw = o.saw /\ op'.by = o.by
    BY <1>1, <1>4 DEF Operations
  <2> QED BY <1>1, <1>4, <2>1, <2>2
<1> QED BY <1>2, <1>3, <1>4

\* Whatever becomes of a script, a mounted operation was carried out under the
\* recorded table or not at all.
LEMMA ScriptStep ==
  ASSUME SessionInv, pc = "script", UNCHANGED <<next, env, crypt, infos, stage, phase, own>>,
         be' \in {Believed, BelievedAfterError},
         alive' \subseteq alive, alive \subseteq alive' \cup {be.pid}, crashes' \in Nat,
         appl' \in [Listeners -> Appliances],
         \A l \in Listeners \ {be.pid} : appl'[l] = appl[l],
         be.pid \in Listeners => appl'[be.pid].mounts \in {appl[be.pid].mounts, NoMounts},
         be.pid \in Listeners /\ be.pid \notin alive' => appl'[be.pid] = Off,
         op' \in Operations, op'.name = op.name, op'.by \subseteq op.by \cup ({be.pid} \cap alive),
         \/ op'.saw = op.saw
         \/ be.pid \in alive /\ Accepts /\ op'.saw = op.saw \cup {appl[be.pid].mounts},
         pc' \in {"idle", "session", "tryRestart", "failed"},
         pc' = "idle" => op'.saw # {}
  PROVE  SessionInv'
<1>1. be \in Backends /\ alive \in SUBSET Listeners
  BY DEF SessionInv, TypeOK
<1>2. /\ be' \in Backends /\ be'.pid = be.pid /\ be'.external = be.external
      /\ be'.inspected = be.inspected
      /\ be'.active => be.active /\ be'.specs = be.specs
      /\ op.name \in MountedOps => be' = be
  BY <1>1, BelievedFacts
<1>3. TypeOK' /\ Pids' /\ Ownership' /\ Phases' /\ Replay'
  BY <1>2, OnOwnListener
<1>4. Mounts'
  <2>1. ASSUME be'.active, be.pid \in alive'
        PROVE  appl'[be.pid].mounts \in {Recorded(be)', NoMounts}
    <3>1. be.pid \in alive /\ be.pid \in Listeners /\ be.active /\ Recorded(be)' = Recorded(be)
      BY <1>1, <1>2, <2>1 DEF Recorded
    <3> QED BY <3>1 DEF SessionInv, Mounts
  <2> QED BY <1>2, <2>1 DEF SessionInv, Mounts
<1>5. Seen'
  <2> SUFFICES ASSUME op.name \in MountedOps
               PROVE  /\ op'.saw \subseteq {Recorded(be)'} /\ (op'.saw # {} => be'.inspected)
                      /\ Stopped' /\ op'.res = "ok" => op'.saw # {}
    BY DEF Seen
  <2>1. be' = be /\ Recorded(be)' = Recorded(be) /\ be.active /\ be.inspected
    BY <1>2 DEF Recorded, SessionInv, Mounts
  <2>2. be.pid \in alive /\ Accepts => appl[be.pid].mounts = Recorded(be)
    BY <2>1 DEF SessionInv, Mounts, Accepts
  <2> QED BY <2>1, <2>2 DEF SessionInv, Seen, Stopped
<1> QED BY <1>3, <1>4, <1>5 DEF SessionInv

LEMMA ScriptKeeps == SessionInv /\ Script => SessionInv'
<1> SUFFICES ASSUME SessionInv, Script PROVE SessionInv'
  OBVIOUS
<1>1. /\ pc = "script" /\ be \in Backends /\ op \in Operations /\ TypeOK
      /\ UNCHANGED <<next, env, crypt, infos, stage, phase, own>>
      /\ appl \in [Listeners -> Appliances] /\ alive \in SUBSET Listeners /\ crashes \in Nat
  BY DEF Script, SessionInv, TypeOK, setup
<1>2. ASSUME Alive(be.pid), NEW a \in {appl[be.pid], Effect(appl[be.pid]), Off},
             appl' = [appl EXCEPT ![be.pid] = a]
      PROVE  /\ be.pid \in alive /\ be.pid \in Listeners
             /\ appl' \in [Listeners -> Appliances] /\ appl'[be.pid] = a
             /\ \A l \in Listeners \ {be.pid} : appl'[l] = appl[l]
             /\ appl'[be.pid].mounts \in {appl[be.pid].mounts, NoMounts}
  <2>1. be.pid \in alive /\ be.pid \in Listeners
    BY <1>1, <1>2 DEF Alive
  <2>2. appl[be.pid] \in Appliances /\ Off \in Appliances /\ Off.mounts = NoMounts
    BY <1>1, <2>1, StartTypes DEF Off
  <2>3. a \in Appliances /\ a.mounts \in {appl[be.pid].mounts, NoMounts}
    BY <2>2, EffectFacts
  <2> QED BY <1>1, <1>2, <2>1, <2>3, OneAppliance
<1>3. CASE /\ Alive(be.pid) /\ Accepts
           /\ appl' = [appl EXCEPT ![be.pid] = Effect(@)]
           /\ be' = Believed /\ Answered /\ UNCHANGED <<alive, crashes>>
  <2>1. appl' = [appl EXCEPT ![be.pid] = Effect(appl[be.pid])]
    BY <1>1, <1>3
  <2>2. /\ be.pid \in alive /\ be.pid \in Listeners
        /\ appl' \in [Listeners -> Appliances]
        /\ \A l \in Listeners \ {be.pid} : appl'[l] = appl[l]
        /\ appl'[be.pid].mounts \in {appl[be.pid].mounts, NoMounts}
    BY <1>2, <1>3, <2>1
  <2>3. /\ op' \in Operations /\ op'.name = op.name
        /\ op'.saw = op.saw \cup {appl[be.pid].mounts}
        /\ op'.by \subseteq op.by \cup {be.pid} /\ pc' \in {"idle", "session"}
    BY <1>1, <1>3, <2>2, AnsweredFacts
  <2> QED BY <1>1, <1>3, <2>2, <2>3, ScriptStep
<1>4. CASE /\ Alive(be.pid)
           /\ appl' = [appl EXCEPT ![be.pid] = IF op.name \in {"probe", "run"} THEN Effect(@) ELSE @]
           /\ be' = BelievedAfterError
           /\ ScriptFailed(op) \/ (Accepts /\ ScriptFailed(Applied))
           /\ UNCHANGED <<alive, crashes>>
  <2> DEFINE a == IF op.name \in {"probe", "run"} THEN Effect(appl[be.pid]) ELSE appl[be.pid]
  <2>1. appl' = [appl EXCEPT ![be.pid] = a] /\ a \in {appl[be.pid], Effect(appl[be.pid]), Off}
    BY <1>1, <1>4
  <2> HIDE DEF a
  <2>2. /\ be.pid \in alive /\ be.pid \in Listeners
        /\ appl' \in [Listeners -> Appliances]
        /\ \A l \in Listeners \ {be.pid} : appl'[l] = appl[l]
        /\ appl'[be.pid].mounts \in {appl[be.pid].mounts, NoMounts}
    BY <1>2, <1>4, <2>1
  <2>3. /\ op' \in Operations /\ op'.name = op.name
        /\ op'.saw = op.saw \/ (Accepts /\ op'.saw = op.saw \cup {appl[be.pid].mounts})
        /\ op'.by \subseteq op.by \cup {be.pid} /\ pc' \in {"tryRestart", "failed"}
    BY <1>1, <1>4, <2>2, AppliedFacts, ScriptFailedFacts
  <2> QED BY <1>1, <1>4, <2>2, <2>3, ScriptStep
<1>5. CASE /\ Alive(be.pid) /\ Accepts /\ crashes' = crashes + 1
           /\ alive' = alive \ {be.pid} /\ appl' = [appl EXCEPT ![be.pid] = Off]
           /\ ScriptFailed(Applied) /\ be' = BelievedAfterError
  <2>1. /\ be.pid \in alive /\ be.pid \in Listeners
        /\ appl' \in [Listeners -> Appliances] /\ appl'[be.pid] = Off
        /\ \A l \in Listeners \ {be.pid} : appl'[l] = appl[l]
        /\ appl'[be.pid].mounts \in {appl[be.pid].mounts, NoMounts}
    BY <1>2, <1>5
  <2>2. /\ op' \in Operations /\ op'.name = op.name
        /\ op'.saw = op.saw \cup {appl[be.pid].mounts}
        /\ op'.by \subseteq op.by \cup {be.pid} /\ pc' \in {"tryRestart", "failed"}
    BY <1>1, <1>5, <2>1, AppliedFacts, ScriptFailedFacts
  <2>3. crashes' \in Nat
    BY <1>1, <1>5
  <2> QED BY <1>1, <1>5, <2>1, <2>2, <2>3, ScriptStep
<1>6. CASE /\ ~Alive(be.pid) /\ ScriptFailed(op) /\ be' = BelievedAfterError
           /\ UNCHANGED <<alive, appl, crashes>>
  <2>1. /\ op' \in Operations /\ op'.name = op.name /\ op'.saw = op.saw /\ op'.by = op.by
        /\ pc' \in {"tryRestart", "failed"}
    BY <1>1, <1>6, ScriptFailedFacts
  <2>2. be.pid \in Listeners => appl[be.pid] = Off
    BY <1>6 DEF Alive, SessionInv, Pids
  <2> QED BY <1>1, <1>6, <2>1, <2>2, ScriptStep
<1> QED BY <1>3, <1>4, <1>5, <1>6 DEF Script

\* NoOp is not one of the operations that mount, and was carried out nowhere.
LEMMA NoOpFacts == /\ NoOp \in Operations /\ NoOp.name \notin MountedOps
                   /\ NoOp.by = {} /\ NoOp.saw = {}
BY StartTypes DEF NoOp, MountedOps, Recovering, FileOps

LEMMA NewFacts == /\ New \in Backends /\ New.pid = 0 /\ New.external = FALSE
                  /\ New.active = FALSE /\ New.specs = NoMounts
BY StartTypes DEF New

\* An operation starts with a record of its own.
LEMMA BeginKeeps ==
  ASSUME SessionInv, NEW name \in OpNames, NEW in, NEW during \in {"in", "unmounted"},
         Begin(name, in, during)
  PROVE  SessionInv'
<1>1. /\ pc = "idle" /\ phase = during /\ pc' = "session"
      /\ op' = [NoOp EXCEPT !.name = name, !.scripts = Scripts(name)]
      /\ UNCHANGED <<alive, appl, next, crashes, env, crypt, infos, stage, phase, be, own>>
  BY DEF Begin, world, setup
<1>2. Scripts(name) \in 0 .. 2
  BY DEF Scripts
<1>3. op' \in Operations
  BY <1>1, <1>2, NoOpFacts, OperationUpdates, Literals
<1>4. op'.by = {} /\ op'.saw = {}
  BY <1>1, NoOpFacts DEF Operations
<1>5. TypeOK'
  BY <1>1, <1>3 DEF SessionInv, TypeOK
<1>6. Pids' /\ Ownership' /\ Replay'
  BY <1>1, <1>4 DEF SessionInv, Pids, Ownership, Replay
<1>7. Phases'
  BY <1>1 DEF SessionInv, Phases
<1>8. Mounts' /\ Seen'
  BY <1>1, <1>4 DEF SessionInv, Mounts, Seen, Recorded, Stopped
<1> QED BY <1>5, <1>6, <1>7, <1>8 DEF SessionInv

\* Mount changes the table and no longer believes in the mounts.
LEMMA MountKeeps == SessionInv /\ Mount => SessionInv'
<1> SUFFICES ASSUME SessionInv, Mount PROVE SessionInv'
  OBVIOUS
<1>1. /\ pc = "idle" /\ phase = "in" /\ op' = NoOp /\ be \in Backends
      /\ UNCHANGED <<alive, appl, next, crashes, env, crypt, infos, stage, phase, own, pc>>
  BY DEF Mount, world, setup, SessionInv, TypeOK
<1>2. PICK p \in Paths, d \in Devices :
        be' = [be EXCEPT !.specs = Merged(At(p, d), @), !.active = FALSE]
  BY InspectedTable DEF Mount, Devices
<1> DEFINE t == Merged(At(p, d), be.specs)
<1>3. be' = [be EXCEPT !.specs = t, !.active = FALSE]
  BY <1>1, <1>2
<1>4. t \in Tables
  <2>1. be.specs \in Tables /\ At(p, d) \in Tables
    BY <1>1, TableTypes DEF Backends
  <2> QED BY <2>1, TableTypes
<1> HIDE DEF t
<1>5. be' \in Backends
  BY <1>1, <1>3, <1>4, BackendUpdates, Literals
<1>6. be'.pid = be.pid /\ be'.external = be.external /\ be'.active = FALSE
  BY <1>1, <1>3 DEF Backends
<1>7. TypeOK'
  BY <1>1, <1>5, NoOpFacts DEF SessionInv, TypeOK
<1>8. Pids' /\ Ownership' /\ Replay'
  BY <1>1, <1>6, NoOpFacts DEF SessionInv, Pids, Ownership, Replay
<1>9. Phases' /\ Mounts' /\ Seen'
  BY <1>1, <1>6, NoOpFacts DEF SessionInv, Phases, Mounts, Seen
<1> QED BY <1>7, <1>8, <1>9 DEF SessionInv

\* Every call of a stage is one of these.
LEMMA CallKeeps == SessionInv /\ Call => SessionInv'
<1> SUFFICES ASSUME SessionInv, Call PROVE SessionInv'
  OBVIOUS
<1>1. CASE Mount
  BY <1>1, MountKeeps
<1>2. CASE ~Mount
  <2>1. PICK name \in OpNames, in \in SUBSET Stages, during \in {"in", "unmounted"} :
          Begin(name, in, during)
    <3>1. /\ \A n \in {"read", "query", "readdir", "download", "write", "move", "run", "trim",
                        "ask", "probe", "decrypt", "umount"} : n \in OpNames
          /\ \A S \in {Stages, Editing, {"prepare"}, {"finalize"}} : S \in SUBSET Stages
      BY DEF OpNames, MountedOps, Recovering, FileOps, Stages, Editing
    <3>2. \E name \in {"read", "query", "readdir", "download", "write", "move", "run", "trim",
                        "ask", "probe", "decrypt", "umount"},
             in \in {Stages, Editing, {"prepare"}, {"finalize"}}, during \in {"in", "unmounted"} :
             Begin(name, in, during)
      BY <1>2 DEF Call, ReadFile, Exists, IsDir, Glob, Readlink, ReadDir, StatFS, Download,
                  WriteFile, Remove, RemoveAll, Rename, Symlink, Chmod, MkdirAll, Upload,
                  RunCommand, FSTrim, FSCheck, FSType, BlkidAttr, DeviceRead, DeviceWrite,
                  RescanBlock, ProbeMount, Decrypt, UnlockClevis, UnmountAll
    <3> QED BY <3>1, <3>2
  <2> QED BY <2>1, BeginKeeps
<1> QED BY <1>1, <1>2

\* The first session of a stage: nothing is mounted and nothing under way.
LEMMA FirstLaunch ==
  ASSUME SessionInv, pc = "idle", phase = "new", UNCHANGED <<env, crypt, infos, stage, pc, op>>,
         NEW b \in Backends, b.pid # 0, b.pid < next \/ b.pid \in Started,
         b.external => b.pid = env /\ env # 0, ~b.external => b.pid \in Started, ~b.active,
         NEW o \in LaunchOutcomes(b), Launched(b, o),
         be' = [b EXCEPT !.launched = o.ok], phase' \in {"in", "broken", "failed"}
  PROVE  SessionInv'
<1>1. be = New /\ own = {} /\ op = NoOp
  BY DEF SessionInv, Phases
<1>2. o.ok \in BOOLEAN
  BY DEF LaunchOutcomes, Launches
<1>3. be' \in Backends
  BY <1>2, BackendUpdates, TableTypes
<1>4. be'.pid = b.pid /\ be'.external = b.external /\ be'.active = b.active
  BY DEF Backends
<1>5. Pids' /\ Ownership' /\ Replay'
  BY <1>1, <1>4, NoOpFacts, SessionStarted
<1>6. /\ alive' \in SUBSET Listeners /\ own' \in SUBSET Listeners
      /\ appl' \in [Listeners -> Appliances]
      /\ next' \in 1 .. MaxListeners + 1 /\ crashes' \in Nat
  BY LaunchedFacts DEF SessionInv
<1>7. TypeOK'
  BY <1>3, <1>6 DEF SessionInv, TypeOK
<1>8. Phases' /\ Mounts' /\ Seen'
  BY <1>1, <1>4, NoOpFacts DEF Phases, Mounts, Seen
<1> QED BY <1>5, <1>7, <1>8 DEF SessionInv

LEMMA SetupKeeps == SessionInv /\ Setup => SessionInv'
<1> SUFFICES ASSUME SessionInv, Setup PROVE SessionInv'
  OBVIOUS
<1>1. /\ pc = "idle" /\ phase = "new" /\ UNCHANGED <<env, crypt, infos, stage, pc, op>>
      /\ be = New /\ own = {} /\ op = NoOp
  BY DEF Setup, SessionInv, Phases
<1>2. ASSUME NEW b \in Opened, NEW o \in LaunchOutcomes(b), NEW ok \in BOOLEAN, Launched(b, o),
             be' = [b EXCEPT !.launched = o.ok],
             phase' = IF o.ok /\ ok THEN "in" ELSE "broken"
      PROVE  SessionInv'
  <2>1. /\ b \in Backends /\ b.pid # 0 /\ (b.pid < next \/ b.pid \in Started)
        /\ b.active = be.active
        /\ b.external => b.pid = env /\ env # 0
        /\ ~b.external => b.pid \in own \cup Started
    BY OpenedFacts DEF SessionInv
  <2>2. phase' \in {"in", "broken", "failed"} /\ ~b.active
    BY <1>1, <1>2, <2>1, NewFacts
  <2> QED BY <1>1, <1>2, <2>1, <2>2, FirstLaunch
<1>3. CASE OpenFails /\ phase' = "failed" /\ UNCHANGED <<world, be, own>>
  <2>1. UNCHANGED <<alive, appl, next, crashes>>
    BY <1>3 DEF world
  <2> QED BY <1>1, <1>3, <2>1 DEF SessionInv, TypeOK, Pids, Ownership, Phases, Replay, Mounts,
                                  Seen, Recorded, Stopped
<1> QED BY <1>2, <1>3 DEF Setup

LEMMA NewMountedKeeps == SessionInv /\ NewMounted => SessionInv'
<1> SUFFICES ASSUME SessionInv, NewMounted PROVE SessionInv'
  OBVIOUS
<1> DEFINE b == [New EXCEPT !.specs = infos, !.pid = env, !.external = env # 0]
<1>1. /\ pc = "idle" /\ phase = "new" /\ UNCHANGED <<env, crypt, infos, stage, pc, op>>
      /\ be = New /\ own = {} /\ op = NoOp
  BY DEF NewMounted, SessionInv, Phases
<1>2. env \in {0} \cup Listeners /\ infos \in Tables /\ (env # 0) \in BOOLEAN /\ env < next
  BY DEF SessionInv, TypeOK, Pids
<1>3. b \in Backends
  BY <1>2, BackendUpdates, NewFacts
<1>4. b.pid = env /\ b.external = (env # 0) /\ b.active = FALSE
  BY NewFacts DEF Backends
<1>5. \/ /\ phase' = IF env = 0 THEN "in" ELSE "failed"
         /\ be' = [b EXCEPT !.pid = 0, !.external = FALSE]
         /\ UNCHANGED <<world, own>>
      \/ /\ env # 0
         /\ \E o \in LaunchOutcomes(b) :
              /\ Launched(b, o) /\ be' = [b EXCEPT !.launched = o.ok]
              /\ phase' = IF o.ok THEN "in" ELSE "failed"
  BY DEF NewMounted
<1> HIDE DEF b
<1>6. CASE /\ phase' = IF env = 0 THEN "in" ELSE "failed"
           /\ be' = [b EXCEPT !.pid = 0, !.external = FALSE]
           /\ UNCHANGED <<world, own>>
  <2>1. UNCHANGED <<alive, appl, next, crashes, own>> /\ phase' \in {"in", "failed"}
    BY <1>6 DEF world
  <2>2. be' \in Backends
    BY <1>3, <1>6, BackendUpdates, Literals, TableTypes
  <2>3. be'.pid = 0 /\ be'.external = FALSE /\ be'.active = FALSE
    BY <1>3, <1>4, <1>6 DEF Backends
  <2>4. TypeOK'
    BY <1>1, <2>1, <2>2 DEF SessionInv, TypeOK
  <2>5. Pids'
    <3>1. be.pid = 0
      BY <1>1, NewFacts
    <3> QED BY <1>1, <2>1, <2>3, <3>1 DEF SessionInv, Pids
  <2>6. Ownership'
    <3>1. own = {} /\ own' = {}
      BY <1>1, <2>1
    <3> QED BY <2>3, <3>1 DEF Ownership
  <2>7. Phases' /\ Replay' /\ Mounts' /\ Seen'
    BY <1>1, <2>1, <2>3, NoOpFacts DEF Phases, Replay, Mounts, Seen
  <2> QED BY <2>4, <2>5, <2>6, <2>7 DEF SessionInv
<1>7. ASSUME env # 0, NEW o \in LaunchOutcomes(b), Launched(b, o),
             be' = [b EXCEPT !.launched = o.ok],
             phase' = IF o.ok THEN "in" ELSE "failed"
      PROVE  SessionInv'
  <2>1. phase' \in {"in", "broken", "failed"}
    BY <1>7
  <2> QED BY <1>1, <1>2, <1>3, <1>4, <1>7, <2>1, FirstLaunch
<1> QED BY <1>5, <1>6, <1>7

\* UnmountFilesystems forgets the mounts, whether or not they are gone.
LEMMA UnmountKeeps == SessionInv /\ UnmountFilesystems => SessionInv'
<1> SUFFICES ASSUME SessionInv, UnmountFilesystems PROVE SessionInv'
  OBVIOUS
<1>1. /\ pc = "idle" /\ phase' \in {"unmounted", "unwinding"} /\ op' = NoOp /\ be \in Backends
      /\ be' = [be EXCEPT !.specs = NoMounts, !.active = FALSE]
      /\ UNCHANGED <<alive, next, crashes, env, crypt, infos, stage, own, pc>>
      /\ appl \in [Listeners -> Appliances] /\ alive \in SUBSET Listeners
  BY DEF UnmountFilesystems, SessionInv, TypeOK
<1>2. be' \in Backends
  BY <1>1, BackendUpdates, Literals, TableTypes
<1>3. be'.pid = be.pid /\ be'.external = be.external /\ be'.active = FALSE
  BY <1>1 DEF Backends
<1>4. appl' \in [Listeners -> Appliances] /\ \A l \in Listeners \ alive : appl'[l] = appl[l]
  <2>1. CASE UNCHANGED appl
    BY <1>1, <2>1
  <2>2. CASE Alive(be.pid) /\ appl' = [appl EXCEPT ![be.pid].mounts = NoMounts]
    <3> DEFINE a == [appl[be.pid] EXCEPT !.mounts = NoMounts]
    <3>1. be.pid \in alive /\ be.pid \in Listeners
      BY <1>1, <2>2 DEF Alive
    <3>2. appl' = [appl EXCEPT ![be.pid] = a]
      BY <1>1, <2>2, <3>1
    <3>3. a \in Appliances
      BY <1>1, <3>1, ApplianceUpdates, Literals, TableTypes
    <3> HIDE DEF a
    <3> QED BY <1>1, <3>1, <3>2, <3>3, OneAppliance
  <2> QED BY <2>1, <2>2 DEF UnmountFilesystems
<1>5. TypeOK'
  BY <1>1, <1>2, <1>4, NoOpFacts DEF SessionInv, TypeOK
<1>6. Pids'
  BY <1>1, <1>3, <1>4, NoOpFacts DEF SessionInv, Pids
<1>7. Ownership' /\ Replay'
  BY <1>1, <1>3, NoOpFacts DEF SessionInv, Ownership, Replay
<1>8. Phases' /\ Mounts' /\ Seen'
  BY <1>1, <1>3, NoOpFacts DEF Phases, Mounts, Seen
<1> QED BY <1>5, <1>6, <1>7, <1>8 DEF SessionInv

\* close ends the listener the stage uses if the stage started it; no other
\* one that it started is running.
LEMMA ReleaseKeeps == SessionInv /\ ReleaseDevices => SessionInv'
<1> SUFFICES ASSUME SessionInv, ReleaseDevices PROVE SessionInv'
  OBVIOUS
<1>1. /\ pc = "idle" /\ phase' \in {"released", "failed"} /\ op' = NoOp /\ be' = New
      /\ UNCHANGED <<next, crashes, env, crypt, infos, stage, own, pc>>
      /\ appl \in [Listeners -> Appliances] /\ alive \in SUBSET Listeners /\ be \in Backends
      /\ be.pid \in {0} \cup Listeners /\ be.external \in BOOLEAN
  BY DEF ReleaseDevices, SessionInv, TypeOK, Backends
<1>2. /\ alive' \subseteq alive /\ own \cap alive' = {}
      /\ appl' \in [Listeners -> Appliances]
      /\ \A l \in Listeners \ alive' : appl'[l] = Off
  <2>1. CASE be.pid # 0 /\ ~be.external
    <3>1. alive' = alive \ {be.pid} /\ appl' = [appl EXCEPT ![be.pid] = Off]
      BY <2>1 DEF ReleaseDevices
    <3>2. /\ appl' \in [Listeners -> Appliances] /\ appl'[be.pid] = Off
          /\ \A l \in Listeners \ {be.pid} : appl'[l] = appl[l]
      BY <1>1, <2>1, <3>1, OneAppliance, StartTypes
    <3> QED BY <3>1, <3>2 DEF SessionInv, Ownership, Pids
  <2>2. CASE ~(be.pid # 0 /\ ~be.external)
    <3>1. /\ alive' = alive
          /\ appl' = IF be.maps /\ Alive(be.pid) THEN [appl EXCEPT ![be.pid].mapper = FALSE] ELSE appl
      BY <2>2 DEF ReleaseDevices
    <3>2. be.pid \notin own
      <4>1. 0 \notin own
        BY DEF SessionInv, TypeOK, Listeners
      <4> QED BY <2>2, <4>1 DEF SessionInv, Ownership
    <3>3. own \cap alive = {}
      BY <3>2 DEF SessionInv, Ownership
    <3>4. appl' \in [Listeners -> Appliances] /\ \A l \in Listeners \ alive : appl'[l] = appl[l]
      <4>1. CASE appl' = appl
        BY <1>1, <4>1
      <4>2. CASE Alive(be.pid) /\ appl' = [appl EXCEPT ![be.pid].mapper = FALSE]
        <5> DEFINE a == [appl[be.pid] EXCEPT !.mapper = FALSE]
        <5>1. be.pid \in alive /\ be.pid \in Listeners
          BY <1>1, <4>2 DEF Alive
        <5>2. appl' = [appl EXCEPT ![be.pid] = a]
          BY <1>1, <4>2, <5>1
        <5>3. a \in Appliances
          BY <1>1, <5>1, ApplianceUpdates, Literals, TableTypes
        <5> HIDE DEF a
        <5> QED BY <1>1, <5>1, <5>2, <5>3, OneAppliance
      <4> QED BY <3>1, <4>1, <4>2
    <3> QED BY <3>1, <3>3, <3>4 DEF SessionInv, Pids
  <2> QED BY <2>1, <2>2
<1>3. TypeOK'
  BY <1>1, <1>2, NoOpFacts, NewFacts DEF SessionInv, TypeOK
<1>4. Pids'
  <2>1. 0 < next
    BY DEF SessionInv, TypeOK
  <2> QED BY <1>1, <1>2, <2>1, NoOpFacts, NewFacts DEF SessionInv, Pids
<1>5. Ownership' /\ Replay'
  BY <1>1, <1>2, NoOpFacts, NewFacts DEF SessionInv, Ownership, Replay
<1>6. Phases' /\ Mounts' /\ Seen'
  BY <1>1, NoOpFacts, NewFacts DEF Phases, Mounts, Seen
<1> QED BY <1>3, <1>4, <1>5, <1>6 DEF SessionInv

\* The next stage starts with nothing of its own and with a recorded table.
LEMMA NextStageKeeps == SessionInv /\ NextStage => SessionInv'
<1> SUFFICES ASSUME SessionInv, NextStage PROVE SessionInv'
  OBVIOUS
<1>1. /\ pc = "idle" /\ phase' = "new" /\ op' = NoOp /\ be' = New /\ own' = {}
      /\ UNCHANGED <<alive, appl, next, crashes, env, crypt, pc>> /\ stage' \in Stages
  BY DEF NextStage, world, Stages
<1>2. infos' \in Tables
  <2>1. CASE stage = "prepare"
    <3>1. PICK P \in SUBSET DOMAIN be.specs : infos' = [p \in P |-> be.specs[p]]
      BY <2>1 DEF NextStage
    <3>2. be.specs \in Tables
      BY DEF SessionInv, TypeOK, Backends
    <3> QED BY <3>1, <3>2, TableTypes
  <2>2. CASE stage # "prepare"
    BY <2>2 DEF NextStage, SessionInv, TypeOK
  <2> QED BY <2>1, <2>2
<1>3. TypeOK'
  BY <1>1, <1>2, NoOpFacts, NewFacts DEF SessionInv, TypeOK
<1>4. Pids'
  <2>1. 0 < next
    BY DEF SessionInv, TypeOK
  <2> QED BY <1>1, <2>1, NoOpFacts, NewFacts DEF SessionInv, Pids
<1>5. Ownership' /\ Replay' /\ Phases' /\ Mounts' /\ Seen'
  BY <1>1, NoOpFacts, NewFacts DEF Ownership, Replay, Phases, Mounts, Seen
<1> QED BY <1>3, <1>4, <1>5 DEF SessionInv

\* kc-v2v's replacement of a dead shared listener is a listener nobody knows.
LEMMA ParentRestartsKeeps == SessionInv /\ ParentRestarts => SessionInv'
<1> SUFFICES ASSUME SessionInv, ParentRestarts PROVE SessionInv'
  OBVIOUS
<1>1. PICK l \in Started : env' = l /\ alive' = alive \cup {l} /\ next' = l + 1
  BY DEF ParentRestarts
<1>2. /\ l = next /\ l \in Listeners /\ phase = "new" /\ be = New /\ own = {} /\ op = NoOp
      /\ UNCHANGED <<appl, crashes, crypt, infos, stage, phase, be, own, pc, op>>
  BY DEF ParentRestarts, Started, SessionInv, Phases
<1>3. TypeOK'
  BY <1>1, <1>2 DEF SessionInv, TypeOK, Listeners
<1>4. Pids'
  <2>1. next \in Nat /\ next' = next + 1 /\ alive \subseteq Nat
    BY <1>1, <1>2 DEF SessionInv, TypeOK, Listeners
  <2>2. \A k \in alive : k < next
    BY DEF SessionInv, Pids
  <2>3. \A k \in alive' : k < next'
    BY <1>1, <1>2, <2>1, <2>2
  <2> QED BY <1>1, <1>2, <2>1, <2>3, NoOpFacts, NewFacts DEF SessionInv, Pids
<1>5. Ownership' /\ Replay' /\ Phases' /\ Mounts' /\ Seen'
  BY <1>1, <1>2, NoOpFacts, NewFacts DEF SessionInv, Ownership, Replay, Phases, Mounts, Seen
<1> QED BY <1>3, <1>4, <1>5 DEF SessionInv

-----------------------------------------------------------------------------
(* Theorems *)

\* The inductive invariant, for any number of listeners and crashes.
THEOREM SessionInvariant == Spec => []SessionInv
<1>1. Init => SessionInv
  BY SessionInit
<1>2. SessionInv /\ [Next]_vars => SessionInv'
  <2> SUFFICES ASSUME SessionInv, [Next]_vars PROVE SessionInv'
    OBVIOUS
  <2>1. CASE OpStep
    BY <2>1, EnsureSessionKeeps, TryRestartKeeps, InspectKeeps, EnsureMountedKeeps,
       MountVirtualFSKeeps, ScriptKeeps, FailedKeeps DEF OpStep
  <2>2. CASE Life
    BY <2>2, SetupKeeps, NewMountedKeeps, UnmountKeeps, ReleaseKeeps, NextStageKeeps,
       ParentRestartsKeeps DEF Life
  <2>3. CASE UNCHANGED vars
    BY <2>3 DEF vars, SessionInv, TypeOK, Pids, Ownership, Phases, Replay, Mounts, Seen,
                Recorded, Stopped
  <2> QED BY <2>1, <2>2, <2>3, CrashKeeps, CallKeeps DEF Next, Terminating
<1> QED BY <1>1, <1>2, PTL DEF Spec

\* What the Backend of a stage and the listeners keep is well formed.
THEOREM SessionTypeCorrect == Spec => []TypeOK
<1>1. SessionInv => TypeOK
  BY DEF SessionInv
<1> QED BY <1>1, SessionInvariant, PTL

\* A successful operation saw exactly the recorded filesystems, each time it
\* was carried out (ensureMounted, withRecovery).
THEOREM AckedOnRecordedMounts == Spec => []AckedOnAllMounts
<1>1. SessionInv => AckedOnAllMounts
  BY DEF SessionInv, Seen, AckedOnAllMounts
<1> QED BY <1>1, SessionInvariant, PTL

\* No script is repeated while the listener that carried it out is alive
\* (withRecovery, tryRestart).
THEOREM RepeatedOnlyAfterDeath == Spec => []ReplayedOnlyAfterDeath
<1>1. SessionInv => ReplayedOnlyAfterDeath
  BY DEF SessionInv, Replay, ReplayedOnlyAfterDeath, Alive
<1> QED BY <1>1, SessionInvariant, PTL

\* After the release none of the stage's own listeners is left (restart,
\* close).
THEOREM OwnListenersEnded == Spec => []ReleaseEndsOwnListeners
<1>1. SessionInv => ReleaseEndsOwnListeners
  <2> SUFFICES ASSUME SessionInv, phase = "released" PROVE own \cap alive = {}
    BY DEF ReleaseEndsOwnListeners
  <2>1. be.pid = 0 /\ 0 \notin alive
    BY DEF SessionInv, Phases, TypeOK, Listeners
  <2> QED BY <2>1 DEF SessionInv, Ownership
<1> QED BY <1>1, SessionInvariant, PTL

\* Only its own listeners are ended by a stage; any other one that goes away
\* died on its own (tryRestart, session.close).
THEOREM SharedLeftAlone == Spec => SharedListenerLeftAlone
<1> DEFINE Lost == \A l \in alive \ alive' : l \in own \/ crashes' > crashes
<1>1. SessionInv /\ [Next]_vars => [Lost]_vars
  <2> SUFFICES ASSUME SessionInv, Next PROVE Lost
    BY DEF vars
  <2>1. CASE alive \subseteq alive'
    BY <2>1
  <2>2. ASSUME NEW b \in Backends, b.pid # 0, b.pid < next \/ b.pid \in Started,
               NEW o \in LaunchOutcomes(b), Launched(b, o)
        PROVE  Lost
    <3>1. alive \ alive' # {} => crashes' > crashes
      BY <2>2, LaunchedFacts DEF SessionInv
    <3> QED BY <3>1
  <2>3. crashes \in Nat
    BY DEF SessionInv, TypeOK
  <2>4. ASSUME NEW b \in Opened, NEW o \in LaunchOutcomes(b), Launched(b, o) PROVE Lost
    BY <2>2, <2>4, OpenedFacts DEF SessionInv
  <2>5. CASE Crash
    BY <2>3, <2>5 DEF Crash
  <2>6. CASE EnsureSession
    BY <2>1, <2>4, <2>6 DEF EnsureSession, world
  <2>7. CASE TryRestart
    <3>1. ASSUME NEW l \in Started, NEW o \in LaunchOutcomes(Restarted(l)),
                 Launched(Restarted(l), o)
          PROVE  Lost
      <4>1. l \in {0} \cup Listeners /\ l # 0 /\ be \in Backends
        BY DEF Started, Listeners, SessionInv, TypeOK
      <4>2. Restarted(l) \in Backends
        BY <4>1, BackendUpdates, Literals, TableTypes DEF Restarted
      <4>3. Restarted(l).pid = l
        BY <4>1 DEF Restarted, Backends
      <4> QED BY <2>2, <3>1, <4>1, <4>2, <4>3
    <3> QED BY <2>1, <2>7, <3>1 DEF TryRestart, world
  <2>8. CASE Script
    BY <2>1, <2>3, <2>8 DEF Script
  <2>9. CASE Setup
    BY <2>1, <2>4, <2>9 DEF Setup, world
  <2>10. CASE NewMounted
    <3> DEFINE b == [New EXCEPT !.specs = infos, !.pid = env, !.external = env # 0]
    <3>1. env \in {0} \cup Listeners /\ infos \in Tables /\ (env # 0) \in BOOLEAN /\ env < next
      BY DEF SessionInv, TypeOK, Pids
    <3>2. b \in Backends
      BY <3>1, BackendUpdates, NewFacts
    <3>3. b.pid = env
      BY NewFacts DEF Backends
    <3>4. UNCHANGED world \/ (env # 0 /\ \E o \in LaunchOutcomes(b) : Launched(b, o))
      BY <2>10 DEF NewMounted
    <3> HIDE DEF b
    <3> QED BY <2>1, <2>2, <3>1, <3>2, <3>3, <3>4 DEF world
  <2>11. CASE ReleaseDevices
    BY <2>1, <2>11 DEF ReleaseDevices, SessionInv, Ownership
  <2>12. CASE Inspect \/ EnsureMounted \/ MountVirtualFS \/ Failed
    BY <2>1, <2>12 DEF Inspect, EnsureMounted, MountVirtualFS, Failed, world
  <2>13. CASE Call
    <3>1. alive' = alive
      BY <2>13 DEF Call, Begin, Mount, world, ReadFile, Exists, IsDir, Glob, Readlink, ReadDir,
                   StatFS, Download, WriteFile, Remove, RemoveAll, Rename, Symlink, Chmod,
                   MkdirAll, Upload, RunCommand, FSTrim, FSCheck, FSType, BlkidAttr, DeviceRead,
                   DeviceWrite, RescanBlock, ProbeMount, Decrypt, UnlockClevis, UnmountAll
    <3> QED BY <2>1, <3>1
  <2>14. CASE UnmountFilesystems \/ NextStage \/ ParentRestarts \/ Terminating
    BY <2>1, <2>14 DEF UnmountFilesystems, NextStage, ParentRestarts, Terminating, world, vars
  <2> QED BY <2>5, <2>6, <2>7, <2>8, <2>9, <2>10, <2>11, <2>12, <2>13, <2>14
          DEF Next, OpStep, Life
<1> QED BY <1>1, SessionInvariant, PTL DEF Spec, SharedListenerLeftAlone
=============================================================================
