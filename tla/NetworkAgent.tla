----------------------------- MODULE NetworkAgent -----------------------------
(***************************************************************************)
(* The managed network agent: it prepares the LAN interface of its network *)
(* namespace, acquires a lease (or uses a static address) and keeps the    *)
(* kernel address and the status file alive with heartbeats.  Around it    *)
(* are the kernel, which expires an address that is not refreshed, DHCP    *)
(* servers, a wire that loses, repeats and delays, other parties that add  *)
(* default routes, and the death of the process at any point.              *)
(*                                                                         *)
(* Time is a tick of half a second or less; all timestamps are kept as     *)
(* ages or remaining times.  Retransmission and request timers are not     *)
(* kept: what they allow may happen at any time.                           *)
(***************************************************************************)
EXTENDS NetworkOwner, FiniteSets

CONSTANTS
    Servers, Xids,
    Modes,                             \* the configured address modes
    StaticNetwork,
    LeaseTime, RenewTime, RebindTime,  \* of every acknowledgement
    Margin,                            \* shortest remainder worth installing (5 s)
    StartPause, ProbeTime,
    MaxWire                            \* bound: messages on the wire

ASSUME AgentAssumption ==
    /\ Modes \subseteq {"dhcp", "static"} /\ StaticNetwork \in Networks
    /\ None \notin Servers
    /\ LeaseTime \in Nat /\ RenewTime \in Nat /\ RebindTime \in Nat
    /\ 0 < RenewTime /\ RenewTime < RebindTime /\ RebindTime < LeaseTime
    /\ Margin \in Nat /\ Margin > KernelLifetime
    /\ StartPause \in Nat /\ StartPause > KernelLifetime
    /\ ProbeTime \in Nat
    \* A static address is held as a lease that does not run.
    /\ "static" \in Modes => LeaseTime >= KernelLifetime

VARIABLES
    stage,    \* where Run and runDHCP are
    mode,
    mac,      \* has the interface the device's MAC
    boot,     \* has it Docker's bootstrap address
    routes,   \* default routes of the namespace: "aux", "own", "foreign"
    lease,    \* the installed lease: network, server, time until it expires
    pending,  \* the offer being requested, or the network being probed
    xid,
    age,      \* time since the attempt began, while an answer to it may be used
    wait,     \* what is left of a pause or a probe
    wire,     \* messages under way
    grants    \* per network, time left of the longest grant of any server

agent == <<stage, mode, lease, pending, xid, age, wait, gen>>
kernel == <<mac, boot, routes, address>>
vars == <<agent, kernel, status, wire, grants>>

NoLease == [net |-> None, server |-> None, left |-> 0]
NoOffer == [net |-> None, server |-> None]

Preparing == {"paused", "planned", "readdressed", "clearing", "verifying"}
Requesting == {"requesting", "renewing", "rebinding"}
Looping == {"init", "selecting", "bound"} \cup Requesting
Stages == {"down", "probing", "declined", "static"} \cup Preparing \cup Looping

Messages ==
    [kind : {"discover"}, xid : Xids]
    \cup [kind : {"request"}, xid : Xids, net : Networks, server : Servers \cup {None}]
    \cup [kind : {"offer", "ack", "nak"}, xid : Xids, net : Networks, server : Servers]

AgentTypeOK ==
    /\ stage \in Stages /\ mode \in Modes
    /\ mac \in BOOLEAN /\ boot \in BOOLEAN /\ routes \subseteq {"aux", "own", "foreign"}
    /\ address \in Addresses /\ status \in StatusFiles
    /\ lease \in {NoLease} \cup [net : Networks, server : Servers \cup {None}, left : 0..LeaseTime]
    /\ pending \in {NoOffer} \cup [net : Networks, server : Servers \cup {None}]
    /\ xid \in Xids /\ age \in 0..LeaseTime /\ wait \in Nat
    /\ gen \in Generations \cup {None}
    /\ wire \subseteq Messages
    /\ grants \in [Networks -> 0..LeaseTime]

Held == lease # NoLease

\* An offer and the age of an attempt are forgotten once nothing reads them.
AttemptOver == pending' = NoOffer /\ age' = 0

AgentInit ==
    /\ Init
    /\ stage = "down" /\ mode \in Modes
    /\ mac \in BOOLEAN /\ boot = TRUE /\ routes \in SUBSET {"aux"}
    /\ lease = NoLease /\ pending = NoOffer
    /\ xid \in Xids /\ age = 0 /\ wait = 0
    /\ wire = {}
    /\ grants = [n \in Networks |-> 0]

-------------------------------------------------------------------------------
\* Starting: the pause and the preparation of the interface.

\* The device's MAC identifies the interface, or else the bootstrap address
\* alone on it.
Selectable == mac \/ (boot /\ address = NoAddress)

\* No address but the bootstrap one, and no default route but the auxiliary one
\* and, on an interface with the device's MAC, one an earlier agent left.
Preparable == Selectable /\ address = NoAddress /\ ("own" \in routes => mac)

\* A mistaken start: the pause is shorter than the life of the address left behind.
StartTooSoon ==
    /\ stage = "down" /\ Selectable
    /\ stage' = "paused" /\ wait' = KernelLifetime - 1
    /\ UNCHANGED <<mode, lease, pending, xid, age, gen, kernel, status, wire, grants>>

Start ==
    /\ stage = "down" /\ Selectable
    /\ stage' = "paused" /\ wait' = StartPause
    /\ UNCHANGED <<mode, lease, pending, xid, age, gen, kernel, status, wire, grants>>

\* One step of the preparation.
Prepare(from, to) ==
    /\ stage = from
    /\ stage' = to
    /\ UNCHANGED <<lease, pending, xid, age, wait, gen, address, status, wire, grants>>

\* The end of the pause; the mode of this process matters from here on.
Plan ==
    /\ Prepare("paused", "planned")
    /\ wait = 0 /\ Preparable /\ "foreign" \notin routes
    /\ mode' \in Modes
    /\ UNCHANGED <<mac, boot, routes>>

InstallMAC ==
    /\ Prepare("planned", "readdressed")
    /\ mac' = TRUE
    /\ UNCHANGED <<mode, boot, routes>>

Recheck ==
    /\ Prepare("readdressed", "clearing")
    /\ "foreign" \notin routes
    /\ UNCHANGED <<mode, mac, boot, routes>>

RemoveRoute(r) ==
    /\ Prepare("clearing", "clearing")
    /\ r \in routes \ {"foreign"}
    /\ routes' = routes \ {r}
    /\ UNCHANGED <<mode, mac, boot>>

RemoveBootstrap ==
    /\ Prepare("clearing", "verifying")
    /\ routes \subseteq {"foreign"}
    /\ boot' = FALSE
    /\ UNCHANGED <<mode, mac, routes>>

\* The final readback, and the removal of a status file left by an earlier agent.
Verify ==
    /\ stage = "verifying"
    /\ routes = {}
    /\ status' = NoStatus
    /\ IF mode = "static"
       THEN /\ stage' = "probing" /\ wait' = ProbeTime
            /\ pending' = [net |-> StaticNetwork, server |-> None]
       ELSE stage' = "init" /\ UNCHANGED <<wait, pending>>
    /\ UNCHANGED <<mode, lease, xid, age, gen, kernel, wire, grants>>

-------------------------------------------------------------------------------
\* The owner of the address.

\* A mistaken lifetime, as long as the lease.
LifetimeUncapped(left) == left - (left % Second)

\* What is left of the lease, at most KernelLifetime, in whole seconds.
Lifetime(left) ==
    LET most == IF left < KernelLifetime THEN left ELSE KernelLifetime
    IN  most - (most % Second)

Beat(net, left, g) == Announce(g, net, Lifetime(left))

\* A mistaken withdrawal that leaves the file.
WithdrawAddressOnly ==
    /\ address' = NoAddress /\ routes' = routes \ {"own"}
    /\ lease' = NoLease /\ UNCHANGED status

\* The file first, then the route and the address.
Withdraw ==
    /\ status' = NoStatus
    /\ IF Held
       THEN address' = NoAddress /\ routes' = routes \ {"own"}
       ELSE UNCHANGED <<address, routes>>
    /\ lease' = NoLease

\* What is left of a lease acknowledged in the present attempt is worth installing.
InTime == mode = "static" \/ LeaseTime - age > Margin

\* A mistaken installation, with one generation per process.
InstallSameName(net, server, left) ==
    /\ lease' = [net |-> net, server |-> server, left |-> left]
    /\ gen' \in IF gen = None THEN Generations ELSE {gen}
    /\ routes' = routes \cup {"own"}
    /\ Beat(net, left, gen')

\* The lease of an acknowledgement; a changed network is withdrawn first and
\* gets a new generation.
Install(net, server, left) ==
    /\ lease' = [net |-> net, server |-> server, left |-> left]
    /\ IF net = lease.net
       THEN gen' = gen /\ UNCHANGED routes
       ELSE gen' \in Generations \ {gen} /\ "own" \notin routes /\ routes' = routes \cup {"own"}
    /\ Beat(net, left, gen')

Heartbeat ==
    /\ stage \in Looping \cup {"static"} /\ Held
    /\ IF Lifetime(lease.left) = 0
       THEN Withdraw /\ stage' = "init" /\ UNCHANGED gen
            /\ AttemptOver
       ELSE Beat(lease.net, lease.left, gen) /\ UNCHANGED <<stage, lease, gen, pending, age, routes>>
    /\ UNCHANGED <<mode, xid, wait, mac, boot, wire, grants>>

ExpireLease ==
    /\ stage \in Looping /\ Held /\ lease.left = 0
    /\ Withdraw /\ stage' = "init" /\ AttemptOver
    /\ UNCHANGED <<mode, xid, wait, gen, mac, boot, wire, grants>>

\* The end of the process: a refused preparation, an error, a conflict, a signal
\* or a crash, with the deferred withdrawal complete, in part, or not at all.
Stop ==
    /\ stage # "down" /\ stage' = "down"
    /\ lease' = NoLease /\ AttemptOver
    /\ \/ Withdraw
       \/ status' = NoStatus /\ routes' \in {routes, routes \ {"own"}} /\ UNCHANGED address
       \/ UNCHANGED <<address, routes, status>>
    /\ UNCHANGED <<mode, xid, wait, gen, mac, boot, wire, grants>>

\* A heartbeat or an installation that fails after it gave the kernel an address.
StopConfiguring ==
    /\ stage # "down" /\ stage' = "down"
    /\ \/ /\ Held /\ Lifetime(lease.left) > 0
          /\ address' = [net |-> lease.net, left |-> Lifetime(lease.left)]
          /\ UNCHANGED <<status, routes>>
       \/ /\ stage = "probing" /\ wait = 0 /\ InTime
          /\ address' = [net |-> pending.net, left |-> KernelLifetime]
          /\ routes' \in {routes, routes \cup {"own"}}
          /\ UNCHANGED status
    /\ lease' = NoLease /\ AttemptOver
    /\ UNCHANGED <<mode, xid, wait, gen, mac, boot, wire, grants>>

-------------------------------------------------------------------------------
\* The DHCP client.  What it sends and receives is on the wire until it is lost.

Send(m) == wire' = wire \cup {m} /\ Cardinality(wire') <= MaxWire

\* A random transaction identifier is none of those under way.
FreshXid == xid' \in Xids /\ \A m \in wire : m.xid # xid'

\* The first discover of an attempt, or a repeated one.
Discover ==
    /\ \/ stage = "init" /\ FreshXid
       \/ stage = "selecting" /\ xid' = xid
    /\ stage' = "selecting" /\ age' = 0
    /\ Send([kind |-> "discover", xid |-> xid'])
    /\ UNCHANGED <<mode, lease, pending, wait, gen, kernel, status, grants>>

TakeOffer(m) ==
    /\ stage = "selecting" /\ m.kind = "offer" /\ m.xid = xid
    /\ stage' = "requesting" /\ age' = 0
    /\ pending' = [net |-> m.net, server |-> m.server]
    /\ Send([kind |-> "request", xid |-> xid, net |-> m.net, server |-> m.server])
    /\ UNCHANGED <<mode, lease, xid, wait, gen, kernel, status, grants>>

RequestTimeout ==
    /\ stage = "requesting" /\ stage' = "init" /\ AttemptOver
    /\ UNCHANGED <<mode, lease, xid, wait, gen, kernel, status, wire, grants>>

\* A renewal begins after RenewTime when bound, a rebinding after RebindTime
\* whatever the client is doing.
Extend(to) ==
    /\ Held /\ lease.left > 0
    /\ stage' = to /\ AttemptOver /\ FreshXid
    /\ UNCHANGED <<mode, lease, wait, gen, kernel, status, wire, grants>>

BeginRenew == stage = "bound" /\ LeaseTime - lease.left >= RenewTime /\ Extend("renewing")

BeginRebind ==
    /\ stage \in Looping \ {"rebinding"}
    /\ LeaseTime - lease.left >= RebindTime
    /\ Extend("rebinding")

\* A mistaken renewal: every repeated request restarts the attempt.
SendRenewalRestarting ==
    /\ stage \in {"renewing", "rebinding"} /\ Held
    /\ Send([kind |-> "request", xid |-> xid, net |-> lease.net,
             server |-> IF stage = "renewing" THEN lease.server ELSE None])
    /\ age' = 0
    /\ UNCHANGED <<stage, mode, lease, pending, xid, wait, gen, kernel, status, grants>>

\* The first request of a renewal or rebinding, or a repeated one.
SendRenewal ==
    /\ stage \in {"renewing", "rebinding"} /\ Held
    /\ Send([kind |-> "request", xid |-> xid, net |-> lease.net,
             server |-> IF stage = "renewing" THEN lease.server ELSE None])
    /\ UNCHANGED <<agent, kernel, status, grants>>

\* An answer to the present request from the server it went to.
Answers(m) ==
    /\ stage \in Requesting /\ m.xid = xid
    /\ stage = "requesting" => m.server = pending.server
    /\ stage = "renewing" => m.server = lease.server

TakeNak(m) ==
    /\ m.kind = "nak" /\ Answers(m)
    /\ Withdraw /\ stage' = "init" /\ AttemptOver
    /\ UNCHANGED <<mode, xid, wait, gen, mac, boot, wire, grants>>

\* The acknowledgement of the lease held extends it, or comes too late.
TakeExtension(m) ==
    /\ m.kind = "ack" /\ Answers(m)
    /\ m.net = lease.net
    /\ stage = "requesting" => m.net = pending.net
    /\ IF InTime
       THEN Install(m.net, m.server, LeaseTime - age) /\ stage' = "bound"
       ELSE stage' = "init" /\ UNCHANGED <<lease, gen, address, routes, status>>
    /\ AttemptOver
    /\ UNCHANGED <<mode, xid, wait, mac, boot, wire, grants>>

\* Another network: the one held is withdrawn before the new one is probed.
TakeChange(m) ==
    /\ m.kind = "ack" /\ Answers(m)
    /\ m.net # lease.net
    /\ stage = "requesting" => m.net = pending.net
    /\ Withdraw
    /\ stage' = "probing" /\ wait' = ProbeTime
    /\ pending' = [net |-> m.net, server |-> m.server]
    /\ UNCHANGED <<mode, xid, age, gen, mac, boot, wire, grants>>

ProbeDone ==
    /\ stage = "probing" /\ wait = 0
    /\ IF ~InTime
       THEN stage' = "init" /\ UNCHANGED <<lease, gen, address, routes, status>>
       ELSE /\ Install(pending.net, pending.server, LeaseTime - age)
            /\ stage' = IF mode = "dhcp" THEN "bound" ELSE "static"
    /\ AttemptOver
    /\ UNCHANGED <<mode, xid, wait, mac, boot, wire, grants>>

\* Someone else uses the probed address (a static one ends the process: Stop).
ProbeConflict ==
    /\ stage = "probing" /\ mode = "dhcp"
    /\ stage' = "declined" /\ AttemptOver /\ wait' = ProbeTime
    /\ UNCHANGED <<mode, lease, xid, gen, kernel, status, wire, grants>>

Resume ==
    /\ stage = "declined" /\ wait = 0 /\ stage' = "init"
    /\ UNCHANGED <<mode, lease, pending, xid, age, wait, gen, kernel, status, wire, grants>>

-------------------------------------------------------------------------------
\* Around the agent.

Reply(kind, m, s, net) ==
    /\ Send([kind |-> kind, xid |-> m.xid, net |-> net, server |-> s])
    /\ UNCHANGED <<agent, kernel, status>>

Offer(m, s, net) == m.kind = "discover" /\ Reply("offer", m, s, net) /\ UNCHANGED grants

\* A server may acknowledge another network than the one asked for.
Ack(m, s, net) ==
    /\ m.kind = "request" /\ m.server \in {s, None}
    /\ Reply("ack", m, s, net)
    /\ grants' = [grants EXCEPT ![net] = LeaseTime]

Nak(m, s) ==
    /\ m.kind = "request" /\ m.server \in {s, None}
    /\ Reply("nak", m, s, m.net) /\ UNCHANGED grants

Lose(m) == wire' = wire \ {m} /\ UNCHANGED <<agent, kernel, status, grants>>

\* Another party sets or removes a default route while the agent prepares.
ForeignRoute ==
    /\ stage \in Preparing
    /\ routes' \in {routes \cup {"foreign"}, routes \ {"foreign"}} \ {routes}
    /\ UNCHANGED <<agent, mac, boot, address, status, wire, grants>>

Awaiting == mode = "dhcp" /\ stage \in Requesting \cup {"probing"}

\* Time passes, whether or not the agent keeps up.  The kernel drops an address
\* at the end of its lifetime, and with it perhaps the route through it.
ClockTick ==
    /\ Tick
    /\ lease' = IF mode = "dhcp" THEN [lease EXCEPT !.left = Less(@)] ELSE lease
    /\ wait' = Less(wait)
    /\ age' = IF Awaiting /\ age < LeaseTime THEN age + 1 ELSE age
    /\ grants' = [n \in Networks |-> Less(grants[n])]
    /\ IF address.left = 1 THEN routes' \in {routes, routes \ {"own"}} ELSE UNCHANGED routes
    /\ UNCHANGED <<stage, mode, pending, xid, mac, boot, wire>>

Configuring ==
    \/ Start \/ Plan \/ InstallMAC \/ Recheck \/ RemoveBootstrap \/ Verify
    \/ \E r \in routes : RemoveRoute(r)

Owning == Heartbeat \/ ExpireLease \/ Stop \/ StopConfiguring

Leasing ==
    \/ Discover \/ RequestTimeout \/ BeginRenew \/ BeginRebind \/ SendRenewal
    \/ ProbeDone \/ ProbeConflict \/ Resume
    \/ \E m \in wire : TakeOffer(m) \/ TakeNak(m) \/ TakeExtension(m) \/ TakeChange(m)

Surroundings ==
    \/ ForeignRoute \/ ClockTick
    \/ \E m \in wire : \/ Lose(m)
                       \/ \E s \in Servers : Nak(m, s)
                       \/ \E s \in Servers, n \in Networks : Offer(m, s, n) \/ Ack(m, s, n)

AgentNext == Configuring \/ Owning \/ Leasing \/ Surroundings
AgentSpec == AgentInit /\ [][AgentNext]_vars

-------------------------------------------------------------------------------
(* An address got by DHCP is never alive beyond what a server granted: the    *)
(* lease is counted from the request (run_linux.go:447), repeated requests    *)
(* do not move that moment, and a heartbeat rounds down (run_linux.go:117).   *)
AddressGranted ==
    mode = "dhcp" /\ address # NoAddress => address.left <= grants[address.net]

(* However the previous process ended, the next one finds the interface and,  *)
(* after its pause, nothing of it but what it may remove itself               *)
(* (run_linux.go:211-215, link_linux.go:137-147, 289, 298-302, 433-437).      *)
Recoverable ==
    /\ mac \/ boot
    /\ (stage = "paused" /\ wait = 0) => Preparable

(* A current status file is backed by an address that lives about as long     *)
(* (run_linux.go:61-65, 122-126).                                             *)
StatusBacked == Backed(status, address)

(* The agent keeps the promise its reader works from (NetworkOwner).          *)
ImplementsOwner == Init /\ [][Next]_owned
===============================================================================
