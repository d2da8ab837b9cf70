------------------------------ MODULE AgentRpc ------------------------------
(***************************************************************************)
(* The qemu backend's session with its appliance                           *)
(* (src/pkg/backend/plugins/qemu/session.go and client.go) and the agent   *)
(* at the other end (src/pkg/qemuagent/server/server.go,                   *)
(* src/cmd/kc-guest-agent/bootstrap_linux.go): boot or adoption, readiness *)
(* probes, calls under the client's mutex, and the end of the session.     *)
(*                                                                         *)
(* A response carries no request number: the host takes the next frame it  *)
(* reads for the answer to the last one it wrote.  The model numbers the   *)
(* requests 1, 2, ... and lets a response be the number it answers, which  *)
(* no action of the host looks at: it only goes to the history.            *)
(*                                                                         *)
(* A session that adopts its VM does not start from a clean channel.       *)
(* Sessions before it may have left requests under way, and kc-v2v, which  *)
(* booted the VM, keeps its own client (register.go, sharedListener) while *)
(* QEMU serves one connection of the socket at a time.                     *)
(***************************************************************************)
EXTENDS Integers, Sequences

CONSTANTS
    Callers,    \* goroutines of the host that share the client
    Free,       \* the holder of a mutex nobody holds
    MaxProbes,  \* probes that fit in the boot deadline
    MaxInherited, \* requests that sessions before an adoption left under way
    MaxFrames   \* bound on the requests of a behaviour

ASSUME AgentAssumption ==
    /\ Free \notin Callers
    /\ MaxProbes \in Nat \ {0} /\ MaxInherited \in Nat /\ MaxFrames \in Nat
    /\ MaxInherited + MaxProbes < MaxFrames

VARIABLES
    adopted,   \* ownedExternally: another process booted the VM
    pc,        \* the session: boot, ready, kill
    proc,      \* the qemu process
    dir,       \* the private directory of the sockets exists
    startFailed, \* cmd.Start failed
    mu,        \* agentClient.mu: the caller that holds it
    pending,   \* request each caller waits for, 0 for none
    sent,      \* requests written so far, those of earlier sessions included
    probes,    \* attempts of waitAgentReady
    chardev,   \* the connection QEMU serves: the session's, another, none
    wire,      \* written by the host, not yet in the guest
    inbox,     \* in the guest's port, not yet read by the agent
    outbox,    \* written by the agent, not yet read by the host
    agent,     \* the agent's serve loop
    serving,   \* request the agent handles
    executed,  \* history: requests the agent handled, in order
    answers,   \* history: <<request, request its response was for>>
    inherited, \* history: requests under way when the session began
    late,      \* history: probes given up while waiting for the answer
    oversized  \* history: some response did not fit in MaxMessageSize

hostVars == <<pc, mu, pending, sent, probes>>
vmVars == <<adopted, proc, dir, startFailed>>
linkVars == <<chardev, wire, inbox, outbox>>
agentVars == <<agent, serving, executed>>
history == <<answers, inherited, late, oversized>>
vars == <<hostVars, vmVars, linkVars, agentVars, history>>

Frames == 1 .. MaxFrames

\* The session, the channel and the agent are well formed; a request is never
\* numbered beyond the bound.
TypeOK ==
    /\ pc \in {"start", "probe", "ping", "retry", "ready", "kill", "wait",
               "reap", "ended"}
    /\ proc \in {"none", "running", "exited"}
    /\ {adopted, dir, startFailed, oversized} \subseteq BOOLEAN
    /\ chardev \in {"session", "other", "free"}
    /\ mu \in Callers \cup {Free}
    /\ pending \in [Callers -> {0} \cup Frames]
    /\ sent \in {0} \cup Frames /\ probes \in 0 .. MaxProbes
    /\ {wire, inbox, outbox, executed} \subseteq Seq(Frames)
    /\ agent \in {"down", "closed", "read", "write", "leave"}
    /\ serving \in {0} \cup Frames
    /\ answers \in SUBSET (Frames \X Frames)
    /\ inherited \in 0 .. MaxInherited /\ late \in 0 .. MaxProbes

\* Consecutive requests, m + 1 .. n.
Requests(m, n) == [i \in 1 .. n - m |-> m + i]

\* newVMSession starts from nothing; adoptVMSession from a VM whose agent may
\* be anywhere in its loop, with the requests of earlier sessions between the
\* host and the agent, and perhaps kc-v2v's client still connected.
Init ==
    /\ adopted \in BOOLEAN
    /\ pc = IF adopted THEN "probe" ELSE "start"
    /\ proc = IF adopted THEN "running" ELSE "none"
    /\ dir = adopted /\ startFailed = FALSE
    /\ mu = Free /\ pending = [c \in Callers |-> 0] /\ probes = 0
    /\ inherited \in IF adopted THEN 0 .. MaxInherited ELSE {0}
    /\ sent = inherited
    /\ chardev \in IF adopted THEN {"other", "free"} ELSE {"free"}
    /\ agent \in IF adopted THEN {"closed", "read", "write", "leave"} ELSE {"down"}
    /\ serving = IF agent = "write" THEN 1 ELSE 0
    /\ \E read \in serving .. inherited :
          /\ agent = "closed" => read = 0
          /\ inbox = Requests(serving, read) /\ wire = Requests(read, inherited)
    /\ executed = Requests(0, serving) /\ outbox = <<>>
    /\ answers = {} /\ late = 0 /\ oversized = FALSE

-----------------------------------------------------------------------------
(* boot and waitAgentReady.                                                *)

\* boot up to cmd.Start: the appliance files may be missing, the directory
\* may not be created, the binary may not start.  Only the last leaves the
\* directory behind: boot returns without kill.
Launch ==
    /\ pc = "start"
    /\ \/ pc' = "ended" /\ UNCHANGED <<vmVars, agent>>
       \/ /\ pc' = "ended" /\ dir' = TRUE /\ startFailed' = TRUE
          /\ UNCHANGED <<adopted, proc, agent>>
       \/ /\ pc' = "probe" /\ dir' = TRUE /\ proc' = "running"
          /\ agent' = "closed"
          /\ UNCHANGED <<adopted, startFailed>>
    /\ UNCHANGED <<mu, pending, sent, probes, linkVars, serving, executed,
                   history>>

\* What follows when waitAgentReady gives up: boot kills the VM,
\* adoptVMSession only returns the error.
GiveUp_NoKill == pc' = "ended"
GiveUp == pc' = IF adopted THEN "ended" ELSE "kill"

\* processExited, asked before every attempt of an owned session.
ExitedDuringBoot ==
    /\ pc = "probe" /\ ~adopted /\ proc = "exited"
    /\ GiveUp
    /\ UNCHANGED <<mu, pending, sent, probes, vmVars, linkVars, agentVars,
                   history>>

\* A connection is refused before QEMU listens and after it exited.
DialFails ==
    /\ pc = "probe" /\ (~adopted => proc = "running")
    /\ probes' = probes + 1 /\ pc' = "retry"
    /\ UNCHANGED <<mu, pending, sent, vmVars, linkVars, agentVars, history>>

\* Write a frame on the connection.
WriteMsg_Twice == sent' = sent + 1 /\ wire' = wire \o <<sent + 1, sent + 1>>
WriteMsg == sent' = sent + 1 /\ wire' = Append(wire, sent + 1)

\* A fresh connection and pingReady's request on it.  Both succeed whether
\* QEMU serves the connection or leaves it in the socket's backlog.
DialAndPing ==
    /\ pc = "probe" /\ proc = "running"
    /\ WriteMsg
    /\ probes' = probes + 1 /\ pc' = "ping"
    /\ UNCHANGED <<mu, pending, vmVars, chardev, inbox, outbox, agentVars,
                   history>>

\* ReadMsg: the next frame answers request r, as far as the host can tell.
ReadMsg(r) ==
    /\ outbox # <<>>
    /\ answers' = answers \cup {<<r, Head(outbox)>>}
    /\ outbox' = Tail(outbox)

\* pingReady succeeds on any response.
PingAnswered ==
    /\ pc = "ping" /\ ReadMsg(sent)
    /\ pc' = "ready"
    /\ UNCHANGED <<mu, pending, sent, probes, vmVars, chardev, wire, inbox,
                   agentVars, inherited, late, oversized>>

\* Closing a connection loses what the host has not read; what it wrote and
\* the guest has not taken may still reach the guest or be lost.
Disconnect ==
    /\ chardev' = (IF chardev = "session" THEN "free" ELSE chardev)
    /\ outbox' = <<>>
    /\ wire' \in {wire, <<>>} /\ UNCHANGED inbox

\* pingReady fails, after 3 seconds or because QEMU went away.
PingFails ==
    /\ pc = "ping"
    /\ Disconnect
    /\ late' = late + 1 /\ pc' = "retry"
    /\ UNCHANGED <<mu, pending, sent, probes, vmVars, agentVars, answers,
                   inherited, oversized>>

\* The deadline, then the sleep before the next attempt.
DeadlinePassed ==
    /\ pc = "retry" /\ GiveUp
    /\ UNCHANGED <<mu, pending, sent, probes, vmVars, linkVars, agentVars,
                   history>>

TryAgain ==
    /\ pc = "retry" /\ probes < MaxProbes
    /\ pc' = "probe"
    /\ UNCHANGED <<mu, pending, sent, probes, vmVars, linkVars, agentVars,
                   history>>

-----------------------------------------------------------------------------
(* call: one request and one response under the client's mutex.            *)

Lock_Missing(c) == mu' = c
Lock(c) == mu = Free /\ mu' = c
Unlock == mu' = Free

\* A request that cannot be written (too large, QEMU gone) returns an error
\* and changes nothing.
CallWrites(c) ==
    /\ pc = "ready" /\ pending[c] = 0 /\ proc = "running"
    /\ sent < MaxFrames
    /\ Lock(c) /\ WriteMsg
    /\ pending' = [pending EXCEPT ![c] = sent + 1]
    /\ UNCHANGED <<pc, probes, vmVars, chardev, inbox, outbox, agentVars,
                   history>>

CallReads(c) ==
    /\ pending[c] # 0 /\ ReadMsg(pending[c])
    /\ pending' = [pending EXCEPT ![c] = 0] /\ Unlock
    /\ UNCHANGED <<pc, sent, probes, vmVars, chardev, wire, inbox, agentVars,
                   inherited, late, oversized>>

\* QEMU is gone and the socket is drained: ReadMsg returns an error.
CallFails(c) ==
    /\ pending[c] # 0 /\ proc = "exited" /\ outbox = <<>>
    /\ pending' = [pending EXCEPT ![c] = 0] /\ Unlock
    /\ UNCHANGED <<pc, sent, probes, vmVars, linkVars, agentVars, history>>

-----------------------------------------------------------------------------
(* close and kill.                                                         *)

\* close: the client's own close takes the mutex, so it waits for a call in
\* flight.  An adopted VM is left alone.
Close_KillsAdopted ==
    /\ pc = "ready" /\ mu = Free
    /\ Disconnect
    /\ pc' = "kill"
    /\ UNCHANGED <<mu, pending, sent, probes, vmVars, agentVars, history>>
Close ==
    /\ pc = "ready" /\ mu = Free
    /\ Disconnect
    /\ pc' = IF adopted THEN "ended" ELSE "kill"
    /\ UNCHANGED <<mu, pending, sent, probes, vmVars, agentVars, history>>

\* SIGTERM, which the process may act on or not.
SigTerm ==
    /\ pc = "kill" /\ pc' = "wait"
    /\ UNCHANGED <<mu, pending, sent, probes, vmVars, linkVars, agentVars,
                   history>>

\* After five seconds, SIGKILL.
SigKill ==
    /\ pc = "wait" /\ proc = "running" /\ pc' = "reap"
    /\ UNCHANGED <<mu, pending, sent, probes, vmVars, linkVars, agentVars,
                   history>>

\* The waiter has seen the process exit: remove the sockets and their
\* directory.
Remove ==
    /\ pc \in {"wait", "reap"} /\ proc = "exited"
    /\ dir' = FALSE
    /\ pc' = "ended"
    /\ UNCHANGED <<mu, pending, sent, probes, adopted, proc, startFailed,
                   linkVars, agentVars, history>>

\* QEMU exits: on a signal, or on its own.  What it had written to the
\* connection stays readable.
ProcessExits ==
    /\ proc = "running"
    /\ proc' = "exited" /\ agent' = "down" /\ serving' = 0
    /\ wire' = <<>> /\ inbox' = <<>>
    /\ UNCHANGED <<hostVars, adopted, dir, startFailed, chardev, outbox,
                   executed, history>>

-----------------------------------------------------------------------------
(* QEMU's end of the socket, the agent's serve loop and the virtio-serial  *)
(* port it reads.                                                          *)

\* QEMU (server=on) serves one connection at a time.
Accept ==
    /\ pc = "ping" /\ proc = "running" /\ chardev = "free"
    /\ chardev' = "session"
    /\ UNCHANGED <<hostVars, vmVars, wire, inbox, outbox, agentVars, history>>

\* The connection that an adopting session found is closed, if it ever is.
OtherLeaves ==
    /\ chardev = "other" /\ proc = "running"
    /\ chardev' = "free"
    /\ UNCHANGED <<hostVars, vmVars, wire, inbox, outbox, agentVars, history>>

\* QEMU passes a frame on to the guest once the port is open there.  What the
\* session wrote waits in its connection while QEMU serves another.
Deliver ==
    /\ wire # <<>> /\ agent \in {"read", "write", "leave"} /\ chardev # "other"
    /\ inbox' = Append(inbox, Head(wire)) /\ wire' = Tail(wire)
    /\ UNCHANGED <<hostVars, vmVars, chardev, outbox, agentVars, history>>

\* serveOnce opens the port.
AgentOpens ==
    /\ agent = "closed" /\ agent' = "read"
    /\ UNCHANGED <<hostVars, vmVars, linkVars, serving, executed, history>>

\* Serve reads a request and handles it.
AgentHandles ==
    /\ agent = "read" /\ inbox # <<>>
    /\ serving' = Head(inbox) /\ inbox' = Tail(inbox)
    /\ executed' = Append(executed, Head(inbox))
    /\ agent' = "write"
    /\ UNCHANGED <<hostVars, vmVars, chardev, wire, outbox, history>>

\* The port is at end of file while no host is connected: Serve returns.
AgentEOF ==
    /\ agent = "read" /\ inbox = <<>> /\ chardev = "free"
    /\ agent' = "leave"
    /\ UNCHANGED <<hostVars, vmVars, linkVars, serving, executed, history>>

\* serveOnce closes the port, which drops what was not read; run opens it
\* again after its sleep.
AgentLeaves ==
    /\ agent = "leave" /\ agent' = "closed" /\ inbox' = <<>>
    /\ UNCHANGED <<hostVars, vmVars, chardev, wire, outbox, serving, executed,
                   history>>

\* Serve writes the response: to whatever connection QEMU serves by then.  With
\* none the write waits, or the response is lost; another one reads it as an
\* answer of its own.
AgentReplies_OneShot ==
    /\ agent = "write"
    /\ outbox' = IF chardev = "session" THEN Append(outbox, serving) ELSE outbox
    /\ agent' = "leave" /\ serving' = 0
    /\ UNCHANGED <<hostVars, vmVars, chardev, wire, inbox, executed, history>>
AgentReplies ==
    /\ agent = "write"
    /\ outbox' = IF chardev = "session" THEN Append(outbox, serving) ELSE outbox
    /\ agent' = "read" /\ serving' = 0
    /\ UNCHANGED <<hostVars, vmVars, chardev, wire, inbox, executed, history>>

\* The probes are the session's first requests: those given up, and the last
\* one.
IsPing(r) == r \in inherited + 1 .. inherited + late + 1

\* A response that does not fit in a frame is not written: WriteMsg returns
\* an error, with which Serve returns and serveOnce closes the port.
ReplyTooLarge ==
    /\ agent = "write" /\ ~IsPing(serving)
    /\ agent' = "leave" /\ serving' = 0
    /\ oversized' = TRUE
    /\ UNCHANGED <<hostVars, vmVars, linkVars, executed, answers, inherited,
                   late>>

-----------------------------------------------------------------------------
Boot ==
    \/ Launch \/ ExitedDuringBoot \/ DialFails \/ DialAndPing
    \/ PingAnswered \/ PingFails \/ DeadlinePassed \/ TryAgain
Call(c) == CallWrites(c) \/ CallReads(c) \/ CallFails(c)
Kill == SigTerm \/ SigKill \/ Remove
Channel == Accept \/ OtherLeaves \/ Deliver
Agent ==
    \/ AgentOpens \/ AgentHandles \/ AgentEOF \/ AgentLeaves
    \/ AgentReplies \/ ReplyTooLarge

Next ==
    \/ Boot \/ Close \/ Kill \/ ProcessExits \/ Channel \/ Agent
    \/ \E c \in Callers : Call(c)

\* The host's goroutines and the agent run; time passes, so deadlines do; a
\* process that was sent SIGKILL exits.  Nothing makes callers call, the
\* session close or another client leave.
Fairness ==
    /\ WF_vars(Boot) /\ WF_vars(Kill)
    /\ \A c \in Callers : WF_vars(CallReads(c) \/ CallFails(c))
    /\ WF_vars(Accept) /\ WF_vars(Deliver)
    /\ WF_vars(AgentOpens \/ AgentHandles \/ AgentEOF \/ AgentLeaves
                 \/ AgentReplies \/ ReplyTooLarge)
    /\ WF_vars(ProcessExits /\ pc = "reap")

Spec == Init /\ [][Next]_vars /\ Fairness

-----------------------------------------------------------------------------
(* Properties.                                                             *)

\* An answer is never that of a later request, and it is behind by at most the
\* probes that timed out and the requests earlier sessions left under way.  So
\* on a VM of its own, without a timeout, every call gets its own answer,
\* whatever the callers' interleaving (client.go, agentClient.call).  This is
\* less than the comment on waitAgentReady hopes for (session.go:227): a fresh
\* connection does not keep the answer to an older request away, neither that
\* of an earlier probe nor that of a session before, and from then on every
\* call reads the answer of a request before it.
AnswersLag ==
    \A a \in answers : a[2] \in (a[1] - late - inherited) .. a[1]

\* The agent handles no request twice and none out of order, across
\* connections too (server.go, Serve).
ExecutedOnceInOrder ==
    \A i, j \in DOMAIN executed : i < j => executed[i] < executed[j]

\* However an owned session ends, no VM runs on and no socket directory is
\* left, unless the binary could not even be started (session.go, kill).
NoVMLeftBehind ==
    ~adopted /\ pc = "ended" =>
        /\ proc # "running"
        /\ dir => startFailed

\* A session that adopted its VM leaves the VM, and the sockets of the
\* process that booted it, alone (session.go, close and kill).
AdoptedLeftAlone ==
    [][adopted => /\ UNCHANGED dir
                  /\ pc' \notin {"kill", "wait", "reap"}]_vars

\* Nobody waits for ever.  Boot or adoption ends, with a client or an error
\* (waitAgentReady).  call has no deadline of its own: it returns because the
\* agent answers every request of a ready client, however many probes it
\* answered late, and because the socket closes when the VM dies.  The
\* exception is a response too large for a frame: nothing is sent in its place,
\* although Serve promises one response per request (server.go:22).  And kill
\* ends although SIGTERM may be ignored.
SessionReturns ==
    /\ <>(pc \in {"ready", "ended"})
    /\ \A c \in Callers : pending[c] # 0 ~> pending[c] = 0 \/ oversized
    /\ pc = "kill" ~> pc = "ended"
=============================================================================
