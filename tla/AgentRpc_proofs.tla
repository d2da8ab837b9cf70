--------------------------- MODULE AgentRpc_proofs --------------------------
(***************************************************************************)
(* Proofs about AgentRpc for any set of callers, any number of probes and  *)
(* of inherited requests and any bound on the requests: the type           *)
(* invariant, the three safety invariants and the action property that     *)
(* MCAgentRpc checks for two callers, three probes and two requests of     *)
(* earlier sessions.                                                       *)
(*                                                                         *)
(* None of the invariants is inductive.  A response carries no request     *)
(* number, so what a call gets depends on everything that is under way     *)
(* between the two ends: the responses not read yet, the request the agent *)
(* handles and the requests not read yet.  InOrder says that these are     *)
(* numbered in increasing order, and Lag how far the oldest of them can be *)
(* behind the request the host wrote last.                                 *)
(***************************************************************************)
EXTENDS AgentRpc, TLAPS

Increasing(s) == \A i, j \in 1 .. Len(s) : i < j => s[i] < s[j]
Before(s, t) == \A i \in 1 .. Len(s), j \in 1 .. Len(t) : s[i] < t[j]
AtMost(s, n) == \A i \in 1 .. Len(s) : s[i] <= n
AtLeast(s, n) == \A i \in 1 .. Len(s) : n <= s[i]

\* How the session goes on from each step of boot, close and kill.
Session ==
    /\ pc = "start" => ~adopted /\ proc = "none" /\ ~dir
    /\ pc \in {"kill", "wait", "reap"} => ~adopted
    /\ ~adopted /\ pc = "ended" => proc # "running" /\ (dir => startFailed)

\* A caller waits exactly while it holds the mutex, and for the request that
\* was written last; nobody waits unless the client is ready.
Waiting ==
    /\ \A c \in Callers : (pending[c] # 0) <=> (mu = c)
    /\ mu # Free => pc = "ready" /\ pending[mu] = sent

\* Without a VM nothing is under way towards the agent.
VMGone == proc # "running" => wire = <<>> /\ inbox = <<>> /\ agent = "down"

\* The requests handled so far, and what is under way, are numbered in the
\* order the host wrote them.
InOrder ==
    /\ Increasing(executed) /\ AtMost(executed, sent)
    /\ Increasing(outbox) /\ Increasing(inbox) /\ Increasing(wire)
    /\ AtMost(outbox, sent) /\ AtMost(inbox, sent) /\ AtMost(wire, sent)
    /\ Before(outbox, inbox) /\ Before(outbox, wire) /\ Before(inbox, wire)
    /\ Before(executed, inbox) /\ Before(executed, wire)
    /\ agent = "write" =>
          /\ serving \in 1 .. sent /\ AtMost(outbox, serving - 1)
          /\ AtLeast(inbox, serving + 1) /\ AtLeast(wire, serving + 1)

\* Each probe writes one request.  Each probe given up, and each request of an
\* earlier session, leaves at most one answer behind: nothing under way is
\* older than that.
Oldest == IF mu = Free THEN sent - late - inherited + 1 ELSE sent - late - inherited
Lag ==
    /\ pc \in {"start", "probe"} => probes < MaxProbes
    /\ pc \in {"start", "probe", "retry"} => sent = inherited + late /\ late <= probes
    /\ pc = "ping" => sent = inherited + late + 1 /\ late < probes
    /\ pc = "ready" =>
          /\ AtLeast(outbox, Oldest) /\ AtLeast(inbox, Oldest) /\ AtLeast(wire, Oldest)
          /\ agent = "write" => Oldest <= serving

AgentInv == TypeOK /\ Session /\ Waiting /\ VMGone /\ InOrder /\ Lag /\ AnswersLag

USE AgentAssumption

-----------------------------------------------------------------------------
(* Lemmas about queues of requests.                                        *)

\* An empty queue satisfies everything.
LEMMA EmptyQueue ==
    /\ <<>> \in Seq(Frames) /\ Increasing(<<>>)
    /\ \A n : AtMost(<<>>, n) /\ AtLeast(<<>>, n)
    /\ \A t : Before(<<>>, t) /\ Before(t, <<>>)
BY DEF Increasing, AtMost, AtLeast, Before

\* Requests are numbers.
LEMMA QueueOfNumbers ==
    ASSUME NEW s \in Seq(Frames)
    PROVE  Len(s) \in Nat /\ \A i \in 1 .. Len(s) : s[i] \in Nat \ {0}
BY DEF Frames

\* Bounds may be relaxed, and requests are numbered from 1.
LEMMA Bounds ==
    ASSUME NEW s \in Seq(Frames), NEW m \in Int, NEW n \in Int, m <= n
    PROVE  /\ AtMost(s, m) => AtMost(s, n)
           /\ AtLeast(s, n) => AtLeast(s, m)
           /\ AtLeast(s, 1)
BY DEF AtMost, AtLeast, Frames

\* Writing at the end of a queue.
LEMMA WriteQueue ==
    ASSUME NEW s \in Seq(Frames), NEW x \in Frames
    PROVE  /\ Append(s, x) \in Seq(Frames)
           /\ Increasing(s) /\ AtMost(s, x - 1) => Increasing(Append(s, x))
           /\ \A n \in Int : /\ AtMost(s, n) /\ x <= n => AtMost(Append(s, x), n)
                             /\ AtLeast(s, n) /\ n <= x => AtLeast(Append(s, x), n)
           /\ \A t \in Seq(Frames) :
                 /\ Before(t, s) /\ AtMost(t, x - 1) => Before(t, Append(s, x))
                 /\ Before(s, t) /\ AtLeast(t, x + 1) => Before(Append(s, x), t)
<1> DEFINE a == Append(s, x)
<1>1. /\ a \in Seq(Frames) /\ Len(a) = Len(s) + 1 /\ a[Len(s) + 1] = x
      /\ \A i \in 1 .. Len(s) : a[i] = s[i]
      /\ x \in Nat
    BY DEF Frames
<1> HIDE DEF a
<1>2. ASSUME Increasing(s), AtMost(s, x - 1) PROVE Increasing(a)
    <2> SUFFICES ASSUME NEW i \in 1 .. Len(a), NEW j \in 1 .. Len(a), i < j
                 PROVE  a[i] < a[j]
        BY DEF Increasing
    <2>1. i \in 1 .. Len(s)
        BY <1>1
    <2>2. CASE j = Len(s) + 1
        BY <1>1, <1>2, <2>1, <2>2, QueueOfNumbers DEF AtMost
    <2>3. CASE j \in 1 .. Len(s)
        BY <1>1, <1>2, <2>1, <2>3 DEF Increasing
    <2> QED BY <1>1, <2>2, <2>3
<1>3. ASSUME NEW n \in Int
      PROVE  /\ AtMost(s, n) /\ x <= n => AtMost(a, n)
             /\ AtLeast(s, n) /\ n <= x => AtLeast(a, n)
    BY <1>1 DEF AtMost, AtLeast
<1>4. ASSUME NEW t \in Seq(Frames)
      PROVE  /\ Before(t, s) /\ AtMost(t, x - 1) => Before(t, a)
             /\ Before(s, t) /\ AtLeast(t, x + 1) => Before(a, t)
    <2>1. ASSUME Before(t, s), AtMost(t, x - 1),
                 NEW i \in 1 .. Len(t), NEW j \in 1 .. Len(a)
          PROVE  t[i] < a[j]
        <3>1. t[i] \in Nat
            BY QueueOfNumbers
        <3>2. CASE j \in 1 .. Len(s)
            BY <1>1, <2>1, <3>2 DEF Before
        <3>3. CASE j = Len(s) + 1
            BY <1>1, <2>1, <3>1, <3>3 DEF AtMost
        <3> QED BY <1>1, <3>2, <3>3
    <2>2. ASSUME Before(s, t), AtLeast(t, x + 1),
                 NEW i \in 1 .. Len(a), NEW j \in 1 .. Len(t)
          PROVE  a[i] < t[j]
        <3>1. t[j] \in Nat
            BY QueueOfNumbers
        <3>2. CASE i \in 1 .. Len(s)
            BY <1>1, <2>2, <3>2 DEF Before
        <3>3. CASE i = Len(s) + 1
            BY <1>1, <2>2, <3>1, <3>3 DEF AtLeast
        <3> QED BY <1>1, <3>2, <3>3
    <2> QED BY <2>1, <2>2 DEF Before
<1> QED BY <1>1, <1>2, <1>3, <1>4 DEF a

\* Reading from the front of a queue.
LEMMA ReadQueue ==
    ASSUME NEW s \in Seq(Frames), s # <<>>
    PROVE  /\ Tail(s) \in Seq(Frames) /\ Head(s) \in Frames
           /\ Increasing(s) => Increasing(Tail(s)) /\ AtLeast(Tail(s), Head(s) + 1)
           /\ \A n \in Int : /\ AtMost(s, n) => AtMost(Tail(s), n) /\ Head(s) <= n
                             /\ AtLeast(s, n) => AtLeast(Tail(s), n) /\ n <= Head(s)
           /\ \A t \in Seq(Frames) :
                 /\ Before(t, s) => Before(t, Tail(s)) /\ AtMost(t, Head(s) - 1)
                 /\ Before(s, t) => Before(Tail(s), t) /\ AtLeast(t, Head(s) + 1)
<1> DEFINE r == Tail(s)  h == Head(s)
<1>1. /\ Len(s) \in Nat \ {0} /\ r \in Seq(Frames) /\ Len(r) = Len(s) - 1
      /\ h = s[1] /\ h \in Frames /\ 1 \in 1 .. Len(s)
      /\ \A i \in 1 .. Len(r) : i + 1 \in 1 .. Len(s) /\ r[i] = s[i + 1]
    OBVIOUS
<1> HIDE DEF r, h
<1>2. ASSUME Increasing(s) PROVE Increasing(r) /\ AtLeast(r, h + 1)
    <2>1. Increasing(r)
        BY <1>1, <1>2 DEF Increasing
    <2>2. AtLeast(r, h + 1)
        BY <1>1, <1>2, QueueOfNumbers DEF Increasing, AtLeast
    <2> QED BY <2>1, <2>2
<1>3. ASSUME NEW n \in Int
      PROVE  /\ AtMost(s, n) => AtMost(r, n) /\ h <= n
             /\ AtLeast(s, n) => AtLeast(r, n) /\ n <= h
    BY <1>1 DEF AtMost, AtLeast
<1>4. ASSUME NEW t \in Seq(Frames)
      PROVE  /\ Before(t, s) => Before(t, r) /\ AtMost(t, h - 1)
             /\ Before(s, t) => Before(r, t) /\ AtLeast(t, h + 1)
    <2>1. ASSUME Before(t, s) PROVE Before(t, r) /\ AtMost(t, h - 1)
        <3>1. Before(t, r)
            BY <1>1, <2>1 DEF Before
        <3>2. \A i \in 1 .. Len(t) : t[i] \in Nat /\ t[i] < h
            BY <1>1, <2>1, QueueOfNumbers DEF Before
        <3>3. AtMost(t, h - 1)
            BY <1>1, <3>2 DEF AtMost, Frames
        <3> QED BY <3>1, <3>3
    <2>2. ASSUME Before(s, t) PROVE Before(r, t) /\ AtLeast(t, h + 1)
        <3>1. Before(r, t)
            BY <1>1, <2>2 DEF Before
        <3>2. \A i \in 1 .. Len(t) : t[i] \in Nat /\ h < t[i]
            BY <1>1, <2>2, QueueOfNumbers DEF Before
        <3>3. AtLeast(t, h + 1)
            BY <1>1, <3>2 DEF AtLeast, Frames
        <3> QED BY <3>1, <3>3
    <2> QED BY <2>1, <2>2
<1> QED BY <1>1, <1>2, <1>3, <1>4 DEF r, h

\* Requests that earlier sessions left somewhere on the channel.
LEMMA InheritedRequests ==
    ASSUME NEW m \in Nat, NEW n \in Nat, m <= n, n <= MaxFrames
    PROVE  /\ Requests(m, n) \in Seq(Frames) /\ Increasing(Requests(m, n))
           /\ AtMost(Requests(m, n), n) /\ AtLeast(Requests(m, n), m + 1)
           /\ \A t \in Seq(Frames) : AtMost(t, m) => Before(t, Requests(m, n))
<1> DEFINE r == Requests(m, n)
<1>1. n - m \in Nat /\ \A i \in 1 .. n - m : m + i \in Frames
    BY DEF Frames
<1>2. /\ r \in Seq(Frames) /\ Len(r) = n - m
      /\ \A i \in 1 .. n - m : r[i] = m + i
    BY <1>1 DEF Requests
<1> HIDE DEF r
<1>3. Increasing(r) /\ AtMost(r, n) /\ AtLeast(r, m + 1)
    BY <1>1, <1>2 DEF Increasing, AtMost, AtLeast
<1>4. ASSUME NEW t \in Seq(Frames), AtMost(t, m) PROVE Before(t, r)
    <2>1. \A i \in 1 .. Len(t) : t[i] \in Nat /\ t[i] <= m
        BY <1>4, QueueOfNumbers DEF AtMost
    <2> QED BY <1>1, <1>2, <2>1 DEF Before
<1> QED BY <1>2, <1>3, <1>4 DEF r

-----------------------------------------------------------------------------
(* What the channel's operations do to the order.                          *)

\* The queues and counters as the queue lemmas need them.
LEMMA QueueTypes ==
    ASSUME TypeOK
    PROVE  /\ wire \in Seq(Frames) /\ inbox \in Seq(Frames)
           /\ outbox \in Seq(Frames) /\ executed \in Seq(Frames)
           /\ sent \in Nat /\ late \in Nat /\ probes \in Nat /\ serving \in Nat
           /\ sent <= MaxFrames
BY DEF TypeOK, Frames

\* The requests inherited are a number of requests.
LEMMA InheritedType == TypeOK => inherited \in Nat
BY DEF TypeOK

\* Writing a request, numbered after all others.
LEMMA WriteMsgOrder ==
    ASSUME TypeOK, InOrder, WriteMsg, sent < MaxFrames,
           UNCHANGED <<inbox, outbox, agentVars>>
    PROVE  /\ InOrder' /\ sent' \in Frames /\ wire' \in Seq(Frames)
           /\ \A n \in Int : AtLeast(wire, n) /\ n <= sent + 1 => AtLeast(wire', n)
<1> DEFINE x == sent + 1
<1> USE QueueTypes
<1>0. x \in Frames /\ x \in Nat /\ x - 1 = sent /\ sent <= x /\ sent \in Int
    BY DEF Frames
<1>1. /\ x \in Frames /\ sent' = x /\ wire' = Append(wire, x) /\ x \in Nat
      /\ x - 1 = sent /\ sent <= x /\ sent \in Int
    BY <1>0 DEF WriteMsg
<1>2. /\ AtMost(executed, x) /\ AtMost(outbox, x) /\ AtMost(inbox, x)
      /\ AtMost(wire, x)
    BY <1>1, Bounds DEF InOrder
<1> HIDE DEF x
<1>3. /\ Increasing(wire') /\ AtMost(wire', x)
      /\ Before(outbox, wire') /\ Before(inbox, wire') /\ Before(executed, wire')
      /\ \A n \in Int : AtLeast(wire, n) /\ n <= x => AtLeast(wire', n)
    BY <1>1, <1>2, WriteQueue DEF InOrder
<1>4. agent = "write" => serving \in 1 .. x /\ serving + 1 <= x /\ serving + 1 \in Int
    BY <1>1 DEF InOrder
<1> QED BY <1>1, <1>2, <1>3, <1>4, WriteQueue DEF InOrder, agentVars, x

\* Reading a response.
LEMMA ReadMsgOrder ==
    ASSUME TypeOK, InOrder, outbox # <<>>, outbox' = Tail(outbox),
           UNCHANGED <<sent, wire, inbox, agentVars>>
    PROVE  /\ InOrder' /\ outbox' \in Seq(Frames) /\ Head(outbox) \in 1 .. sent
           /\ AtLeast(outbox', Head(outbox) + 1) /\ AtLeast(inbox, Head(outbox) + 1)
           /\ AtLeast(wire, Head(outbox) + 1)
           /\ agent = "write" => Head(outbox) + 1 <= serving
<1> USE QueueTypes
<1>1. /\ outbox' \in Seq(Frames) /\ Head(outbox) \in Frames
      /\ Increasing(outbox') /\ AtLeast(outbox', Head(outbox) + 1)
      /\ AtMost(outbox', sent) /\ Head(outbox) <= sent
      /\ Before(outbox', inbox) /\ Before(outbox', wire)
      /\ AtLeast(inbox, Head(outbox) + 1) /\ AtLeast(wire, Head(outbox) + 1)
    BY ReadQueue DEF InOrder
<1>2. agent = "write" => /\ AtMost(outbox', serving - 1)
                         /\ Head(outbox) <= serving - 1
    BY ReadQueue DEF InOrder
<1>3. Head(outbox) \in 1 .. sent /\ (agent = "write" => Head(outbox) + 1 <= serving)
    BY <1>1, <1>2 DEF Frames
<1> QED BY <1>1, <1>2, <1>3 DEF InOrder, agentVars

\* Losing what is under way, on any part of the channel.
LEMMA LossOrder ==
    ASSUME TypeOK, InOrder, wire' \in {wire, <<>>}, inbox' \in {inbox, <<>>},
           outbox' \in {outbox, <<>>}, UNCHANGED <<sent, executed>>,
           agent' = "write" => agent = "write" /\ serving' = serving
    PROVE  /\ InOrder' /\ wire' \in Seq(Frames) /\ inbox' \in Seq(Frames)
           /\ outbox' \in Seq(Frames)
BY EmptyQueue, QueueTypes DEF InOrder

\* A frame moves into the guest.
LEMMA DeliverOrder ==
    ASSUME TypeOK, InOrder, Deliver
    PROVE  /\ InOrder' /\ wire' \in Seq(Frames) /\ inbox' \in Seq(Frames)
           /\ \A n \in Int : AtLeast(wire, n) /\ AtLeast(inbox, n) =>
                                AtLeast(wire', n) /\ AtLeast(inbox', n)
<1> DEFINE h == Head(wire)
<1> USE QueueTypes
<1>1. /\ wire # <<>> /\ wire' = Tail(wire) /\ inbox' = Append(inbox, h)
      /\ UNCHANGED <<sent, outbox, agent, serving, executed>>
    BY DEF Deliver, hostVars, agentVars
<1>2. /\ wire' \in Seq(Frames) /\ h \in Frames
      /\ Increasing(wire') /\ AtLeast(wire', h + 1) /\ AtMost(wire', sent) /\ h <= sent
      /\ \A n \in Int : AtLeast(wire, n) => AtLeast(wire', n) /\ n <= h
      /\ \A t \in Seq(Frames) : Before(t, wire) => Before(t, wire') /\ AtMost(t, h - 1)
    BY <1>1, ReadQueue DEF InOrder
<1> HIDE DEF h
<1>3. /\ inbox' \in Seq(Frames) /\ Increasing(inbox') /\ AtMost(inbox', sent)
      /\ \A n \in Int : AtLeast(wire, n) /\ AtLeast(inbox, n) => AtLeast(inbox', n)
      /\ Before(outbox, inbox') /\ Before(executed, inbox') /\ Before(inbox', wire')
    <2>1. /\ Increasing(inbox) /\ AtMost(inbox, h - 1) /\ AtMost(inbox, sent)
          /\ Before(outbox, inbox) /\ AtMost(outbox, h - 1)
          /\ Before(executed, inbox) /\ AtMost(executed, h - 1)
          /\ Before(inbox, wire') /\ sent \in Int
        BY <1>2 DEF InOrder
    <2> QED BY <1>1, <1>2, <2>1, WriteQueue
<1>4. agent = "write" => AtLeast(wire', serving + 1) /\ AtLeast(inbox', serving + 1)
    BY <1>2, <1>3 DEF InOrder
<1> QED BY <1>1, <1>2, <1>3, <1>4 DEF InOrder

\* The agent reads a request and handles it.
LEMMA HandleOrder ==
    ASSUME TypeOK, InOrder, AgentHandles
    PROVE  /\ InOrder' /\ inbox' \in Seq(Frames) /\ executed' \in Seq(Frames)
           /\ serving' \in Frames
           /\ \A n \in Int : AtLeast(inbox, n) => AtLeast(inbox', n) /\ n <= serving'
<1> DEFINE h == Head(inbox)
<1> USE QueueTypes
<1>1. /\ inbox # <<>> /\ inbox' = Tail(inbox) /\ executed' = Append(executed, h)
      /\ serving' = h /\ agent' = "write" /\ UNCHANGED <<sent, outbox, wire>>
    BY DEF AgentHandles, hostVars
<1>2. /\ inbox' \in Seq(Frames) /\ h \in Frames
      /\ Increasing(inbox') /\ AtLeast(inbox', h + 1) /\ AtMost(inbox', sent) /\ h <= sent
      /\ \A n \in Int : AtLeast(inbox, n) => AtLeast(inbox', n) /\ n <= h
      /\ \A t \in Seq(Frames) : Before(t, inbox) => Before(t, inbox') /\ AtMost(t, h - 1)
      /\ Before(inbox', wire) /\ AtLeast(wire, h + 1)
    BY <1>1, ReadQueue DEF InOrder
<1> HIDE DEF h
<1>3. /\ executed' \in Seq(Frames) /\ Increasing(executed') /\ AtMost(executed', sent)
      /\ Before(executed', inbox') /\ Before(executed', wire)
    <2>1. /\ Increasing(executed) /\ AtMost(executed, h - 1) /\ AtMost(executed, sent)
          /\ Before(executed, inbox') /\ Before(executed, wire) /\ sent \in Int
        BY <1>2 DEF InOrder
    <2> QED BY <1>1, <1>2, <2>1, WriteQueue
<1>4. h \in 1 .. sent
    BY <1>2 DEF Frames
<1> QED BY <1>1, <1>2, <1>3, <1>4 DEF InOrder

\* The agent writes a response, or drops it.
LEMMA ReplyOrder ==
    ASSUME TypeOK, InOrder, AgentReplies \/ ReplyTooLarge
    PROVE  /\ InOrder' /\ outbox' \in Seq(Frames)
           /\ \A n \in Int : AtLeast(outbox, n) /\ n <= serving => AtLeast(outbox', n)
<1> USE QueueTypes
<1>1. /\ UNCHANGED <<sent, wire, inbox, executed>> /\ agent = "write" /\ agent' # "write"
      /\ outbox' = outbox \/ outbox' = Append(outbox, serving)
    BY DEF AgentReplies, ReplyTooLarge, hostVars, linkVars
<1>2. /\ serving \in Frames /\ serving <= sent /\ AtMost(outbox, serving - 1)
      /\ AtLeast(inbox, serving + 1) /\ AtLeast(wire, serving + 1)
    BY <1>1 DEF InOrder, Frames
<1>3. CASE outbox' = outbox
    BY <1>1, <1>3 DEF InOrder
<1>4. CASE outbox' = Append(outbox, serving)
    <2>1. /\ outbox' \in Seq(Frames) /\ Increasing(outbox') /\ AtMost(outbox', sent)
          /\ Before(outbox', inbox) /\ Before(outbox', wire)
          /\ \A n \in Int : AtLeast(outbox, n) /\ n <= serving => AtLeast(outbox', n)
        BY <1>2, <1>4, WriteQueue DEF InOrder
    <2> QED BY <1>1, <2>1 DEF InOrder
<1> QED BY <1>1, <1>3, <1>4

-----------------------------------------------------------------------------
(* One lemma per group of actions.                                         *)

\* The session starts with nothing under way but the requests it inherits, in
\* the order they were written.
LEMMA AgentInitInv == Init => AgentInv
<1> SUFFICES ASSUME Init PROVE AgentInv
    OBVIOUS
<1>1. /\ inherited \in 0 .. MaxInherited /\ inherited <= MaxFrames
      /\ inherited \in Nat /\ sent = inherited
    BY DEF Init
<1>2. PICK read \in serving .. inherited :
          inbox = Requests(serving, read) /\ wire = Requests(read, inherited)
    BY DEF Init
<1>3. serving \in 0 .. 1 /\ (agent = "write" => serving = 1)
    BY DEF Init
<1>4. /\ serving \in Nat /\ read \in Nat /\ serving <= read /\ read <= inherited
      /\ read <= MaxFrames /\ serving <= MaxFrames
    BY <1>1, <1>2, <1>3
<1>5. /\ executed \in Seq(Frames) /\ Increasing(executed) /\ AtMost(executed, serving)
    BY <1>4, InheritedRequests DEF Init
<1>6. /\ inbox \in Seq(Frames) /\ Increasing(inbox) /\ AtMost(inbox, read)
      /\ AtLeast(inbox, serving + 1) /\ Before(executed, inbox)
    BY <1>2, <1>4, <1>5, InheritedRequests
<1>7. AtMost(executed, read)
    BY <1>4, <1>5, Bounds
<1>8. /\ wire \in Seq(Frames) /\ Increasing(wire) /\ AtMost(wire, sent)
      /\ AtLeast(wire, read + 1) /\ Before(executed, wire) /\ Before(inbox, wire)
    BY <1>1, <1>2, <1>4, <1>5, <1>6, <1>7, InheritedRequests
<1>9. /\ AtMost(executed, sent) /\ AtMost(inbox, sent) /\ AtLeast(wire, serving + 1)
    BY <1>1, <1>4, <1>5, <1>6, <1>8, Bounds
<1>10. outbox = <<>>
    BY DEF Init
<1>11. TypeOK
    <2>1. {adopted, dir, startFailed, oversized} \subseteq BOOLEAN
        BY DEF Init
    <2>2. /\ pc \in {"start", "probe"} /\ proc \in {"none", "running"}
          /\ agent \in {"down", "closed", "read", "write", "leave"}
          /\ chardev \in {"session", "other", "free"}
        BY DEF Init
    <2>3. /\ probes = 0 /\ late = 0 /\ 0 \in 0 .. MaxProbes
          /\ sent \in {0} \cup Frames /\ serving \in {0} \cup Frames
        BY <1>1, <1>4 DEF Init, Frames
    <2> QED BY <1>1, <1>5, <1>6, <1>8, <1>10, <2>1, <2>2, <2>3, EmptyQueue DEF Init, TypeOK
<1>12. Session /\ Waiting /\ AnswersLag
    BY DEF Init, Session, Waiting, AnswersLag
<1>13. VMGone
    <2>1. proc # "running" => inherited = 0 /\ agent = "down"
        BY DEF Init
    <2>2. proc # "running" => read = 0 /\ serving = 0
        BY <1>2, <1>4, <2>1
    <2>3. Requests(0, 0) = <<>>
        BY DEF Requests
    <2> QED BY <1>2, <2>1, <2>2, <2>3 DEF VMGone
<1>14. InOrder
    <2>1. agent = "write" => serving \in 1 .. sent
        BY <1>1, <1>3, <1>4
    <2> QED BY <1>5, <1>6, <1>8, <1>9, <1>10, <2>1, EmptyQueue DEF InOrder
<1>15. Lag
    BY <1>1 DEF Init, Lag
<1> QED BY <1>11, <1>12, <1>13, <1>14, <1>15 DEF AgentInv

\* The steps of boot and kill that leave the channel alone.
LEMMA HostInv ==
    AgentInv /\ (Launch \/ ExitedDuringBoot \/ DialFails \/ DeadlinePassed \/ TryAgain \/ Kill)
        => AgentInv'
<1> SUFFICES ASSUME AgentInv,
                    Launch \/ ExitedDuringBoot \/ DialFails \/ DeadlinePassed \/ TryAgain
                        \/ Kill
             PROVE  AgentInv'
    OBVIOUS
<1> USE DEF AgentInv, Kill, Launch, ExitedDuringBoot, DialFails, DeadlinePassed, TryAgain,
            GiveUp, SigTerm, SigKill, Remove, vmVars, linkVars, agentVars, history
<1>1. /\ UNCHANGED <<adopted, chardev, wire, inbox, outbox, mu, pending, sent, serving,
                     executed, answers, inherited, late, oversized>>
      /\ pc # "ready" /\ pc' # "ready" /\ agent' \in {agent, "closed"} /\ pc' # "ping"
      /\ probes' \in {probes, probes + 1}
    BY DEF TypeOK
<1>2. InOrder'
    BY <1>1, LossOrder
<1>3. TypeOK'
    <2>1. probes' \in 0 .. MaxProbes
        BY QueueTypes DEF TypeOK, Lag
    <2>2. {adopted, dir, startFailed, oversized}' \subseteq BOOLEAN
        BY <1>1 DEF TypeOK
    <2> QED BY <1>1, <2>1, <2>2 DEF TypeOK
<1>4. Session'
    BY DEF Session, TypeOK
<1>5. Waiting'
    BY <1>1 DEF Waiting
<1>6. VMGone'
    BY DEF VMGone, Session, TypeOK
<1>7. Lag'
    <2>1. /\ UNCHANGED <<sent, inherited, late>>
          /\ sent \in Nat /\ inherited \in Nat /\ late \in Nat /\ probes \in Nat
        BY <1>1, QueueTypes, InheritedType
    <2>2. pc' \in {"start", "probe", "retry"} =>
            late' <= probes' /\ sent' = inherited' + late'
        BY <2>1 DEF Lag, TypeOK
    <2>3. pc' \in {"start", "probe"} => probes' < MaxProbes
        BY <2>1 DEF Lag
    <2> QED BY <1>1, <2>2, <2>3 DEF Lag
<1>8. AnswersLag'
    BY <1>1 DEF AnswersLag
<1> QED BY <1>2, <1>3, <1>4, <1>5, <1>6, <1>7, <1>8

\* A probe: the connection, its request, its answer or its timeout.
LEMMA ProbeInv == AgentInv /\ (DialAndPing \/ PingAnswered \/ PingFails) => AgentInv'
<1> SUFFICES ASSUME AgentInv, DialAndPing \/ PingAnswered \/ PingFails
             PROVE  AgentInv'
    OBVIOUS
<1> USE DEF AgentInv, vmVars
<1>0. mu = Free /\ \A c \in Callers : pending[c] = 0
    BY DEF Waiting, DialAndPing, PingAnswered, PingFails
<1>1. CASE DialAndPing
    <2>1. sent < MaxFrames
        <3>1. inherited \in 0 .. MaxInherited /\ late \in Nat /\ probes \in Nat
            BY QueueTypes DEF TypeOK
        <3>2. sent = inherited + late /\ late <= probes /\ probes < MaxProbes
            BY <1>1 DEF DialAndPing, Lag
        <3> QED BY <3>1, <3>2
    <2>2. InOrder' /\ sent' \in Frames /\ wire' \in Seq(Frames)
        BY <1>1, <2>1, WriteMsgOrder DEF DialAndPing
    <2>3. TypeOK'
        BY <1>1, <2>2 DEF DialAndPing, WriteMsg, TypeOK, Lag, agentVars, history
    <2>4. Session' /\ Waiting' /\ VMGone'
        BY <1>0, <1>1 DEF DialAndPing, Session, Waiting, VMGone, agentVars
    <2>5. Lag'
        BY <1>1, QueueTypes DEF DialAndPing, WriteMsg, Lag, history
    <2>6. AnswersLag'
        BY <1>1 DEF DialAndPing, AnswersLag, history
    <2> QED BY <2>2, <2>3, <2>4, <2>5, <2>6
<1>2. CASE PingAnswered
    <2>1. /\ InOrder' /\ outbox' \in Seq(Frames) /\ Head(outbox) \in 1 .. sent
          /\ AtLeast(outbox', Head(outbox) + 1) /\ AtLeast(inbox, Head(outbox) + 1)
          /\ AtLeast(wire, Head(outbox) + 1)
          /\ agent = "write" => Head(outbox) + 1 <= serving
        BY <1>2, ReadMsgOrder DEF PingAnswered, ReadMsg
    <2>2. sent = inherited + late + 1 /\ sent \in Frames /\ Head(outbox) \in Frames
        BY <1>2, <2>1, QueueTypes DEF PingAnswered, Lag, Frames
    <2>3. TypeOK'
        BY <1>2, <2>1, <2>2 DEF PingAnswered, ReadMsg, TypeOK, agentVars
    <2>4. Session' /\ Waiting' /\ VMGone'
        BY <1>0, <1>2 DEF PingAnswered, Session, Waiting, VMGone, agentVars
    <2>5. Lag'
        <3>0. sent \in Nat /\ late \in Nat /\ inherited \in Nat
            BY QueueTypes, InheritedType
        <3>1. Oldest' = 2 /\ 2 <= Head(outbox) + 1
            <4>1. UNCHANGED <<mu, sent, late, inherited>> /\ Head(outbox) \in Nat \ {0}
                BY <1>2, <2>2 DEF PingAnswered, Frames
            <4> QED BY <1>0, <2>2, <3>0, <4>1 DEF Oldest
        <3>2. /\ AtLeast(outbox', 2) /\ AtLeast(inbox, 2) /\ AtLeast(wire, 2)
              /\ agent = "write" => 2 <= serving
            BY <2>1, <3>1, Bounds, QueueTypes
        <3> QED BY <1>2, <3>1, <3>2 DEF PingAnswered, Lag, agentVars
    <2>6. AnswersLag'
        <3>1. UNCHANGED <<late, inherited>>
              /\ answers' = answers \cup {<<sent, Head(outbox)>>}
            BY <1>2 DEF PingAnswered, ReadMsg
        <3>2. \A a \in answers : a[2] \in (a[1] - late - inherited) .. a[1]
            BY DEF AnswersLag
        <3>3. Head(outbox) \in (sent - late - inherited) .. sent
            <4>1. sent \in Nat /\ late \in Nat /\ inherited \in Nat
                BY QueueTypes, InheritedType
            <4> HIDE DEF AgentInv
            <4> QED BY <2>1, <2>2, <4>1
        <3> QED BY <3>1, <3>2, <3>3 DEF AnswersLag
    <2> QED BY <2>1, <2>3, <2>4, <2>5, <2>6
<1>3. CASE PingFails
    <2>1. /\ InOrder' /\ wire' \in Seq(Frames) /\ inbox' \in Seq(Frames)
          /\ outbox' \in Seq(Frames)
        BY <1>3, LossOrder DEF PingFails, Disconnect, agentVars
    <2>2. sent = inherited + late + 1 /\ late < probes /\ late' = late + 1
        BY <1>3 DEF PingFails, Lag
    <2>3. TypeOK'
        <3>1. late' \in 0 .. MaxProbes
            BY <2>2, QueueTypes DEF TypeOK
        <3> QED BY <1>3, <2>1, <3>1 DEF PingFails, Disconnect, TypeOK, agentVars
    <2>4. Session' /\ Waiting' /\ VMGone'
        BY <1>0, <1>3 DEF PingFails, Disconnect, Session, Waiting, VMGone, agentVars
    <2>5. Lag'
        BY <1>3, <2>2, QueueTypes, InheritedType DEF PingFails, Lag
    <2>6. AnswersLag'
        BY <1>3, QueueTypes DEF PingFails, AnswersLag, TypeOK, Frames
    <2> QED BY <2>1, <2>3, <2>4, <2>5, <2>6
<1> QED BY <1>1, <1>2, <1>3

\* A call under the client's mutex: its request, its response, its failure.
LEMMA CallInv == AgentInv /\ (\E c \in Callers : Call(c)) => AgentInv'
<1> SUFFICES ASSUME AgentInv, NEW c \in Callers, Call(c) PROVE AgentInv'
    OBVIOUS
<1> USE DEF AgentInv, vmVars
<1>1. CASE CallWrites(c)
    <2>1. /\ pc = "ready" /\ pc' = "ready" /\ mu = Free /\ mu' = c /\ sent < MaxFrames
          /\ sent' = sent + 1 /\ UNCHANGED <<inherited, late>>
          /\ pending' = [pending EXCEPT ![c] = sent + 1]
        BY <1>1 DEF CallWrites, Lock, WriteMsg, history
    <2>2. /\ InOrder' /\ sent' \in Frames /\ wire' \in Seq(Frames)
          /\ \A n \in Int : AtLeast(wire, n) /\ n <= sent + 1 => AtLeast(wire', n)
        BY <1>1, <2>1, WriteMsgOrder DEF CallWrites
    <2>3. TypeOK'
        BY <1>1, <2>1, <2>2 DEF CallWrites, TypeOK, agentVars, history
    <2>4. Waiting'
        BY <2>1, <2>2 DEF Waiting, TypeOK, Frames
    <2>5. Session' /\ VMGone'
        BY <1>1 DEF CallWrites, Session, VMGone, agentVars
    <2>6. Lag'
        <3>0. sent \in Nat /\ late \in Nat /\ inherited \in Nat
            BY QueueTypes, InheritedType
        <3>1. Oldest' = Oldest /\ Oldest \in Int /\ Oldest <= sent + 1
            BY <2>1, <3>0 DEF Oldest
        <3> QED BY <1>1, <2>1, <2>2, <3>1 DEF CallWrites, Lag, agentVars
    <2>7. AnswersLag'
        BY <1>1 DEF CallWrites, AnswersLag, history
    <2> QED BY <2>2, <2>3, <2>4, <2>5, <2>6, <2>7
<1>2. CASE CallReads(c)
    <2>1. pc = "ready" /\ mu = c /\ pending[c] = sent
        BY <1>2 DEF CallReads, Waiting
    <2>2. /\ UNCHANGED <<pc, sent, inherited, late, wire, inbox, probes>> /\ UNCHANGED agentVars
          /\ mu' = Free /\ pending' = [pending EXCEPT ![c] = 0]
          /\ answers' = answers \cup {<<sent, Head(outbox)>>}
          /\ outbox # <<>> /\ outbox' = Tail(outbox)
        BY <1>2, <2>1 DEF CallReads, ReadMsg, Unlock
    <2>3. /\ InOrder' /\ outbox' \in Seq(Frames) /\ Head(outbox) \in 1 .. sent
          /\ AtLeast(outbox', Head(outbox) + 1) /\ AtLeast(inbox, Head(outbox) + 1)
          /\ AtLeast(wire, Head(outbox) + 1)
          /\ agent = "write" => Head(outbox) + 1 <= serving
        BY <2>2, ReadMsgOrder
    <2>4. sent \in Frames /\ Head(outbox) \in Frames
        BY <2>3, QueueTypes DEF Frames
    <2>5. sent - late - inherited <= Head(outbox)
        BY <2>1, <2>2, ReadQueue, QueueTypes, InheritedType DEF Lag, Oldest
    <2>6. TypeOK'
        BY <1>2, <2>2, <2>3, <2>4 DEF CallReads, TypeOK, agentVars
    <2>7. Waiting'
        BY <2>1, <2>2 DEF Waiting, TypeOK
    <2>8. Session' /\ VMGone'
        BY <1>2 DEF CallReads, Session, VMGone, agentVars
    <2>9. Lag'
        <3> DEFINE h == Head(outbox)  m == sent - late - inherited + 1
        <3>0. sent \in Nat /\ late \in Nat /\ inherited \in Nat /\ serving \in Nat
            BY QueueTypes, InheritedType
        <3>1. h \in Nat /\ m \in Int /\ m <= h + 1 /\ h + 1 \in Int /\ serving \in Nat
            BY <2>4, <2>5, <3>0 DEF Frames
        <3>2. Oldest' = m
            BY <2>2 DEF Oldest
        <3>3. /\ AtLeast(outbox', h + 1) /\ AtLeast(inbox, h + 1) /\ AtLeast(wire, h + 1)
              /\ agent = "write" => h + 1 <= serving
            BY <2>3
        <3> HIDE DEF h, m
        <3>4. /\ AtLeast(outbox', m) /\ AtLeast(inbox, m) /\ AtLeast(wire, m)
              /\ agent = "write" => m <= serving
            BY <2>3, <3>1, <3>3, Bounds, QueueTypes
        <3> QED BY <2>1, <2>2, <3>2, <3>4 DEF Lag, agentVars
    <2>10. AnswersLag'
        BY <2>2, <2>3, <2>5, QueueTypes DEF AnswersLag
    <2> QED BY <2>3, <2>6, <2>7, <2>8, <2>9, <2>10
<1>3. CASE CallFails(c)
    <2>1. pc = "ready" /\ mu = c
        BY <1>3 DEF CallFails, Waiting
    <2>2. /\ UNCHANGED <<pc, sent, probes, inherited, late, wire, inbox, outbox, agent, serving, executed>>
          /\ outbox = <<>> /\ wire = <<>> /\ inbox = <<>> /\ agent = "down"
          /\ mu' = Free /\ pending' = [pending EXCEPT ![c] = 0]
        BY <1>3 DEF CallFails, VMGone, Unlock, linkVars, agentVars, history
    <2>3. InOrder'
        BY <2>2 DEF InOrder
    <2>4. TypeOK'
        BY <1>3, <2>2 DEF CallFails, TypeOK, linkVars, agentVars, history
    <2>5. Waiting'
        BY <2>1, <2>2 DEF Waiting, TypeOK
    <2>6. Session' /\ VMGone'
        BY <1>3, <2>2 DEF CallFails, Session, VMGone
    <2>7. Lag'
        BY <2>1, <2>2, EmptyQueue DEF Lag
    <2>8. AnswersLag'
        BY <1>3 DEF CallFails, AnswersLag, history
    <2> QED BY <2>3, <2>4, <2>5, <2>6, <2>7, <2>8
<1> QED BY <1>1, <1>2, <1>3 DEF Call

\* The session closes, QEMU exits or turns to another connection, the agent
\* opens or closes its port.
LEMMA LossInv ==
    AgentInv /\ (\/ Close \/ ProcessExits \/ Accept \/ OtherLeaves
                 \/ AgentOpens \/ AgentEOF \/ AgentLeaves)
        => AgentInv'
<1> SUFFICES ASSUME AgentInv,
                    \/ Close \/ ProcessExits \/ Accept \/ OtherLeaves
                    \/ AgentOpens \/ AgentEOF \/ AgentLeaves
             PROVE  AgentInv'
    OBVIOUS
<1> USE DEF AgentInv, Close, Disconnect, ProcessExits, Accept, OtherLeaves, AgentOpens,
            AgentEOF, AgentLeaves,
            hostVars, vmVars, linkVars, agentVars, history
<1>1. /\ UNCHANGED <<adopted, dir, startFailed, mu, pending, sent, probes, executed, answers,
                     inherited, late, oversized>>
      /\ wire' \in {wire, <<>>} /\ inbox' \in {inbox, <<>>} /\ outbox' \in {outbox, <<>>}
      /\ agent' = "write" => agent = "write" /\ serving' = serving
      /\ serving' \in {serving, 0} /\ chardev' \in {chardev, "session", "free"}
      /\ pc' = pc \/ (mu = Free /\ pc' \in {"kill", "ended"} /\ (adopted <=> pc' = "ended"))
    BY DEF TypeOK
<1>2. /\ InOrder' /\ wire' \in Seq(Frames) /\ inbox' \in Seq(Frames)
      /\ outbox' \in Seq(Frames)
    BY <1>1, LossOrder
<1>3. TypeOK'
    <2>1. {adopted, dir, startFailed, oversized}' \subseteq BOOLEAN
        BY <1>1 DEF TypeOK
    <2> QED BY <1>1, <1>2, <2>1 DEF TypeOK
<1>4. Session'
    BY <1>1 DEF Session, TypeOK
<1>5. Waiting'
    BY <1>1 DEF Waiting
<1>6. VMGone'
    BY DEF VMGone
<1>7. Lag'
    BY <1>1, EmptyQueue DEF Lag, Oldest
<1>8. AnswersLag'
    BY <1>1 DEF AnswersLag
<1> QED BY <1>2, <1>3, <1>4, <1>5, <1>6, <1>7, <1>8

\* The agent takes a request, handles it and answers.
LEMMA ServeInv ==
    AgentInv /\ (Deliver \/ AgentHandles \/ AgentReplies \/ ReplyTooLarge) => AgentInv'
<1> SUFFICES ASSUME AgentInv, Deliver \/ AgentHandles \/ AgentReplies \/ ReplyTooLarge
             PROVE  AgentInv'
    OBVIOUS
<1> USE DEF AgentInv, hostVars, vmVars, linkVars
<1>1. /\ UNCHANGED <<hostVars, vmVars, chardev, answers, inherited, late>>
      /\ proc = "running"
    BY DEF Deliver, AgentHandles, AgentReplies, ReplyTooLarge, VMGone, history
<1>2. Oldest' = Oldest /\ Oldest \in Int
    BY <1>1, QueueTypes, InheritedType DEF Oldest
<1>3. Session' /\ Waiting' /\ VMGone' /\ AnswersLag'
    BY <1>1 DEF Session, Waiting, VMGone, AnswersLag
<1>4. CASE Deliver
    <2>1. /\ InOrder' /\ wire' \in Seq(Frames) /\ inbox' \in Seq(Frames)
          /\ \A n \in Int : AtLeast(wire, n) /\ AtLeast(inbox, n) =>
                               AtLeast(wire', n) /\ AtLeast(inbox', n)
        BY <1>4, DeliverOrder
    <2>2. TypeOK'
        BY <1>4, <2>1 DEF Deliver, TypeOK, agentVars, history
    <2>3. Lag'
        BY <1>1, <1>2, <1>4, <2>1 DEF Deliver, Lag, agentVars
    <2> QED BY <1>3, <2>1, <2>2, <2>3
<1>5. CASE AgentHandles
    <2>1. /\ InOrder' /\ inbox' \in Seq(Frames) /\ executed' \in Seq(Frames)
          /\ serving' \in Frames
          /\ \A n \in Int : AtLeast(inbox, n) => AtLeast(inbox', n) /\ n <= serving'
        BY <1>5, HandleOrder
    <2>2. TypeOK'
        BY <1>5, <2>1 DEF AgentHandles, TypeOK, history
    <2>3. Lag'
        BY <1>1, <1>2, <1>5, <2>1 DEF AgentHandles, Lag
    <2> QED BY <1>3, <2>1, <2>2, <2>3
<1>6. CASE AgentReplies \/ ReplyTooLarge
    <2>1. /\ InOrder' /\ outbox' \in Seq(Frames)
          /\ \A n \in Int : AtLeast(outbox, n) /\ n <= serving => AtLeast(outbox', n)
        BY <1>6, ReplyOrder
    <2>2. TypeOK'
        BY <1>6, <2>1 DEF AgentReplies, ReplyTooLarge, TypeOK, history
    <2>3. Lag'
        BY <1>1, <1>2, <1>6, <2>1 DEF AgentReplies, ReplyTooLarge, Lag
    <2> QED BY <1>3, <2>1, <2>2, <2>3
<1> QED BY <1>4, <1>5, <1>6

\* Every step of the session, of QEMU and of the agent keeps the invariant.
LEMMA AgentStepInv == AgentInv /\ [Next]_vars => AgentInv'
<1>1. AgentInv /\ UNCHANGED vars => AgentInv'
    <2> SUFFICES ASSUME AgentInv, UNCHANGED vars PROVE AgentInv'
        OBVIOUS
    <2> USE DEF AgentInv, vars, hostVars, vmVars, linkVars, agentVars, history
    <2>1. TypeOK' /\ Session'
        BY DEF TypeOK, Session
    <2>2. Waiting' /\ VMGone' /\ AnswersLag'
        BY DEF Waiting, VMGone, AnswersLag
    <2>3. InOrder' /\ Lag'
        BY DEF InOrder, Lag, Oldest
    <2> QED BY <2>1, <2>2, <2>3
<1> QED
    BY <1>1, HostInv, ProbeInv, CallInv, LossInv, ServeInv
       DEF Next, Boot, Channel, Agent

\* The facts about the session and about what is under way between the host
\* and the agent hold throughout every session.
THEOREM AgentInvariant == Spec => []AgentInv
BY AgentInitInv, AgentStepInv, PTL DEF Spec

-----------------------------------------------------------------------------
\* The session, the channel and the agent stay well formed; the probes of
\* waitAgentReady stay within its deadline.
THEOREM AgentTypeCorrect == Spec => []TypeOK
BY AgentInvariant, PTL DEF AgentInv

\* However many probes timed out, whatever earlier sessions left under way on
\* an adopted VM and whatever the callers' interleaving, an answer is at most
\* that many requests behind the call that reads it, and never ahead of it: on
\* a VM of its own, without a timeout, every call gets its own answer.
THEOREM AnswersLagBehind == Spec => []AnswersLag
BY AgentInvariant, PTL DEF AgentInv

\* The agent handles no request twice and none out of order, across
\* reconnections and closed ports.
THEOREM OnceInOrder == Spec => []ExecutedOnceInOrder
<1>1. AgentInv => ExecutedOnceInOrder
    <2> SUFFICES ASSUME AgentInv PROVE ExecutedOnceInOrder
        OBVIOUS
    <2>1. DOMAIN executed = 1 .. Len(executed)
        BY QueueTypes DEF AgentInv
    <2> QED BY <2>1 DEF AgentInv, InOrder, Increasing, ExecutedOnceInOrder
<1> QED BY <1>1, AgentInvariant, PTL

\* An owned session that ended, on whichever path, leaves neither its VM nor
\* the directory of its sockets, unless the binary could not be started.
THEOREM NoVMLeft == Spec => []NoVMLeftBehind
<1>1. AgentInv => NoVMLeftBehind
    BY DEF AgentInv, Session, NoVMLeftBehind
<1> QED BY <1>1, AgentInvariant, PTL

\* A session that adopted a VM never kills it and never touches its sockets.
THEOREM AdoptedAlone == Spec => AdoptedLeftAlone
<1>1. AgentInv /\ AgentInv' /\ [Next]_vars =>
        [adopted => UNCHANGED dir /\ pc' \notin {"kill", "wait", "reap"}]_vars
    <2> SUFFICES ASSUME AgentInv, AgentInv', Next, adopted
                 PROVE  UNCHANGED dir /\ pc' \notin {"kill", "wait", "reap"}
        OBVIOUS
    <2> USE DEF Boot, Launch, ExitedDuringBoot, DialFails, DialAndPing, PingAnswered,
                PingFails, DeadlinePassed, TryAgain, Close, Kill, SigTerm, SigKill, Remove,
                ProcessExits, Channel, Accept, OtherLeaves, Deliver, Agent, AgentOpens, AgentHandles, AgentEOF,
                AgentLeaves, AgentReplies, ReplyTooLarge, Call, CallWrites, CallReads,
                CallFails, vmVars
    <2>1. adopted' = adopted
        BY DEF Next
    <2>2. pc \notin {"start", "kill", "wait", "reap"}
        BY DEF AgentInv, Session
    <2>3. UNCHANGED dir
        BY <2>2 DEF Next
    <2>4. pc' \notin {"kill", "wait", "reap"}
        BY <2>1 DEF AgentInv, Session
    <2> QED BY <2>3, <2>4
<1> QED BY <1>1, AgentInvariant, PTL DEF Spec, AdoptedLeftAlone
=============================================================================
