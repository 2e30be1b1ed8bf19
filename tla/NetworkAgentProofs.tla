--------------------------- MODULE NetworkAgentProofs ---------------------------
(* The managed network agent keeps the promise its reader works from, never     *)
(* holds an address beyond its grant and leaves nothing a restart cannot deal   *)
(* with, for any networks, servers, lease times and lifetimes.                  *)
EXTENDS NetworkAgent, TLAPS

-------------------------------------------------------------------------------
\* What the owner promises.

OwnerTypeOK == address \in Addresses /\ status \in StatusFiles /\ gen \in Generations \cup {None}

OwnerInv == OwnerTypeOK /\ StatusBacked

(* What is cut off a duration to make it whole seconds.                         *)
LEMMA Remainder ==
    ASSUME NEW n \in Nat, NEW d \in Nat \ {0}
    PROVE  /\ (n % d) \in 0..(d - 1)
           /\ (n % d) <= n
           /\ (n - (n % d)) % d = 0
           /\ n % d = 0 /\ n > 0 => n >= d
<1>1. (n % d) \in 0..(d - 1) /\ (n % d) <= n
  OBVIOUS
<1>2. (n - (n % d)) % d = 0
  <2>1. PICK q \in Nat : q = n \div d
    OBVIOUS
  <2>2. n - (n % d) = d * q
    BY <2>1
  <2>3. (d * q) % d = 0
    OBVIOUS
  <2> QED
    BY <2>2, <2>3
<1>3. n % d = 0 /\ n > 0 => n >= d
  OBVIOUS
<1> QED
  BY <1>1, <1>2, <1>3

(* A positive number of ticks that is whole seconds is a second at least, so    *)
(* that a status is never announced already expired.                            *)
LEMMA WholeSeconds ==
    /\ KernelLifetime \in Lifetimes
    /\ \A lifetime \in Lifetimes : lifetime \in Second..KernelLifetime
<1>1. Second \in Nat \ {0} /\ KernelLifetime \in Nat \ {0} /\ KernelLifetime % Second = 0
  BY OwnerAssumption
<1> QED
  BY <1>1, Remainder DEF Lifetimes

(* The lifetime of a heartbeat is what is left, cut to whole seconds.           *)
LEMMA LifetimeRounds ==
    ASSUME NEW left \in Nat
    PROVE  /\ Lifetime(left) \in {0} \cup Lifetimes
           /\ Lifetime(left) <= left
           /\ left < KernelLifetime => Lifetime(left) > left - Second
           /\ left >= KernelLifetime => Lifetime(left) = KernelLifetime
<1> DEFINE most == IF left < KernelLifetime THEN left ELSE KernelLifetime
<1>1. /\ most \in 0..KernelLifetime /\ most <= left
      /\ left < KernelLifetime => most = left
      /\ left >= KernelLifetime => most = KernelLifetime
  BY OwnerAssumption
<1>2. Lifetime(left) = most - (most % Second)
  BY DEF Lifetime
<1> HIDE DEF most
<1>3. /\ (most % Second) \in 0..(Second - 1) /\ (most % Second) <= most
      /\ (most - (most % Second)) % Second = 0
  <2>1. most \in Nat /\ Second \in Nat \ {0}
    BY <1>1, OwnerAssumption
  <2> QED
    BY <2>1, Remainder
<1>4. Lifetime(left) \in {0} \cup Lifetimes
  BY <1>1, <1>2, <1>3, OwnerAssumption DEF Lifetimes
<1>5. left >= KernelLifetime => Lifetime(left) = KernelLifetime
  BY <1>1, <1>2, OwnerAssumption
<1> QED
  BY <1>1, <1>2, <1>3, <1>4, <1>5, OwnerAssumption

(* Every step of the owner keeps a current status backed by its address.        *)
LEMMA StepOwner == OwnerInv /\ [Next]_owned => OwnerInv'
<1> SUFFICES ASSUME OwnerInv, [Next]_owned PROVE OwnerInv'
  OBVIOUS
<1> USE OwnerAssumption DEF OwnerInv, OwnerTypeOK, StatusBacked, Backed, Current, Slack,
            Addresses, StatusFiles, NoAddress, NoStatus
<1>1. CASE Tick
  <2>1. address # NoAddress => address.left \in 1..KernelLifetime /\ address.net \in Networks
    OBVIOUS
  <2>2. \/ address' = NoAddress /\ address.left <= 1
        \/ /\ address' = [net |-> address.net, left |-> address.left - 1]
           /\ address.left > 1 /\ address # NoAddress
    BY <1>1, <2>1 DEF Tick, AddressAfterTick
  <2>3. \/ status' = status /\ status.left = 0
        \/ /\ status' = [gen |-> status.gen, net |-> status.net, left |-> status.left - 1]
           /\ status.left > 0 /\ status # NoStatus
    BY <1>1 DEF Tick, Less
  <2>4. OwnerTypeOK'
    BY <1>1, <2>1, <2>2, <2>3 DEF Tick
  <2>5. StatusBacked'
    BY <1>1, <2>1, <2>2, <2>3
  <2> QED
    BY <2>4, <2>5
<1>2. CASE Withhold
  <2>1. status' = NoStatus /\ gen' = gen
    BY <1>2 DEF Withhold
  <2>2. Lifetimes \subseteq 1..KernelLifetime
    BY DEF Lifetimes
  <2>3. address' \in Addresses
    BY <1>2, <2>2 DEF Withhold
  <2> QED
    BY <2>1, <2>3
<1>3. CASE Confirm
  BY <1>3, WholeSeconds DEF Confirm, Announce
<1>4. CASE Publish
  BY <1>4, WholeSeconds DEF Publish, Announce
<1>5. CASE \E lifetime \in Lifetimes : Refresh(lifetime) /\ Backed(status', address')
  BY <1>5, WholeSeconds DEF Refresh
<1>6. CASE UNCHANGED owned
  BY <1>6 DEF owned
<1> QED
  BY <1>1, <1>2, <1>3, <1>4, <1>5, <1>6 DEF Next

(* Whoever keeps the promise of NetworkOwner never leaves a current status      *)
(* without an address that lives about as long (run_linux.go:61-65, 122-126).   *)
THEOREM OwnerBacksStatus == ImplementsOwner => []StatusBacked
<1>1. Init => OwnerInv
  BY DEF Init, OwnerInv, OwnerTypeOK, StatusBacked, Backed, Current, Addresses, StatusFiles, NoStatus
<1>2. OwnerInv => StatusBacked
  BY DEF OwnerInv
<1> QED
  BY <1>1, <1>2, StepOwner, PTL DEF ImplementsOwner

-------------------------------------------------------------------------------
\* The agent: what relates its lease, its timers and the wire.

\* What is held was announced, and the file expires before the lease.
Announced ==
    Held => /\ gen \in Generations /\ status.gen = gen /\ status.net = lease.net
            /\ Current(status) => status.left + GuardTime <= lease.left

\* Nothing is held where nothing is renewed.
Unheld == stage \in {"down", "probing"} \cup Preparing => ~Held

\* The age of an attempt counts only under DHCP, and a static lease does not run.
ModeFits ==
    /\ mode = "static" => stage \notin Looping \cup {"declined"}
    /\ mode = "dhcp" => stage # "static"
    /\ mode = "static" /\ Held => lease.left = LeaseTime
    /\ age # 0 => mode = "dhcp" /\ stage \in Requesting \cup {"probing"}

\* A network is probed before it is announced.
ProbingUnannounced == stage = "probing" => status = NoStatus /\ pending.net \in Networks

\* The interface is identified before anything is installed on it.
MacInstalled ==
    /\ stage \notin {"down", "paused", "planned"} => mac
    /\ address # NoAddress \/ "own" \in routes \/ ~boot => mac

\* The pause ends after the address a predecessor left.
PauseOutlasts == stage = "paused" /\ address # NoAddress => address.left < wait

\* Before the first request of an attempt nobody can have acknowledged it.
FreshAttempt ==
    stage = "selecting" => \A m \in wire : m.xid = xid => m.kind \in {"discover", "offer"}

\* An acknowledgement of the present attempt was granted after the attempt began.
AckGranted(m) == m.kind = "ack" /\ m.xid = xid => LeaseTime - age <= grants[m.net]

\* A lease that is held, or about to be, ends no later than its grant.
LeaseGranted ==
    mode = "dhcp" =>
        /\ Held => lease.left <= grants[lease.net]
        /\ stage = "probing" => LeaseTime - age <= grants[pending.net]
        /\ stage \in Requesting => \A m \in wire : AckGranted(m)

AgentInv ==
    /\ AgentTypeOK /\ StatusBacked
    /\ Announced /\ Unheld /\ ModeFits /\ ProbingUnannounced
    /\ MacInstalled /\ PauseOutlasts /\ FreshAttempt /\ LeaseGranted /\ AddressGranted

\* Before the first start nothing is held or announced.
LEMMA InitAgent == AgentInit => AgentInv
<1> SUFFICES ASSUME AgentInit PROVE AgentInv
  OBVIOUS
<1> USE OwnerAssumption, AgentAssumption DEF AgentInit, Init
<1>1. AgentTypeOK
  BY DEF AgentTypeOK, Addresses, StatusFiles, Stages
<1>2. StatusBacked
  BY DEF StatusBacked, Backed, Current, NoStatus
<1>3. ~Held
  BY DEF Held
<1>4. Announced /\ Unheld /\ ModeFits /\ ProbingUnannounced
  BY <1>3 DEF Announced, Unheld, ModeFits, ProbingUnannounced, Looping, Requesting
<1>5. MacInstalled /\ PauseOutlasts /\ FreshAttempt /\ LeaseGranted /\ AddressGranted
  BY <1>3 DEF MacInstalled, PauseOutlasts, FreshAttempt, LeaseGranted, AddressGranted, Requesting
<1> QED
  BY <1>1, <1>2, <1>4, <1>5 DEF AgentInv

(* The pause and the preparation touch neither address nor lease, and leave the *)
(* MAC on the interface (link_linux.go).                                        *)
LEMMA ConfiguringStep ==
    ASSUME AgentInv, Configuring
    PROVE  AgentInv'
<1> USE OwnerAssumption, AgentAssumption
<1> USE DEF Preparing, Looping, Requesting, kernel, Configuring,
            Start, Plan, Prepare, InstallMAC, Recheck, RemoveRoute, RemoveBootstrap, Verify
<1>1. /\ UNCHANGED <<lease, address, gen, age, xid, wire, grants>>
      /\ stage \in {"down"} \cup Preparing /\ ~Held /\ age = 0
      /\ stage' \in Preparing \cup {"init", "probing"}
      /\ status' \in {status, NoStatus}
  BY DEF AgentInv, Unheld, ModeFits
<1>2. AgentTypeOK'
  <2>1. mode' \in Modes /\ mac' \in BOOLEAN /\ boot' \in BOOLEAN
    BY DEF AgentInv, AgentTypeOK
  <2>2. routes' \subseteq {"aux", "own", "foreign"}
    BY DEF AgentInv, AgentTypeOK
  <2>3. /\ pending' \in {NoOffer} \cup [net : Networks, server : Servers \cup {None}]
        /\ wait' \in Nat
    BY DEF AgentInv, AgentTypeOK
  <2>4. stage' \in Stages /\ status' \in StatusFiles
    BY <1>1 DEF AgentInv, AgentTypeOK, Stages, StatusFiles
  <2> QED
    BY <1>1, <2>1, <2>2, <2>3, <2>4 DEF AgentInv, AgentTypeOK
<1>3. ~Held'
  BY <1>1 DEF Held
<1>4. StatusBacked' /\ Announced' /\ Unheld'
  BY <1>1, <1>3 DEF AgentInv, StatusBacked, Backed, Current, NoStatus, Announced, Unheld
<1>5. ModeFits' /\ ProbingUnannounced'
  BY <1>1, <1>3 DEF AgentInv, AgentTypeOK, ModeFits, ProbingUnannounced
<1>6. MacInstalled' /\ PauseOutlasts'
  BY <1>1 DEF AgentInv, AgentTypeOK, Addresses, NoAddress, Preparable, Selectable, MacInstalled, PauseOutlasts
<1>7. FreshAttempt' /\ LeaseGranted' /\ AddressGranted'
  BY <1>1, <1>3 DEF AgentInv, AgentTypeOK, Preparable, FreshAttempt, LeaseGranted, AddressGranted
<1> QED
  BY <1>2, <1>4, <1>5, <1>6, <1>7 DEF AgentInv

(* What a message carries, by its kind.                                         *)
LEMMA MessageFields ==
    ASSUME NEW m \in Messages
    PROVE  /\ m.kind \in {"discover", "request", "offer", "ack", "nak"} /\ m.xid \in Xids
           /\ m.kind # "discover" => m.net \in Networks /\ m.server \in Servers \cup {None}
           /\ m.kind \in {"offer", "ack", "nak"} => m.server \in Servers
<1>1. CASE m \in [kind : {"discover"}, xid : Xids]
  BY <1>1
<1>2. CASE m \in [kind : {"request"}, xid : Xids, net : Networks, server : Servers \cup {None}]
  BY <1>2
<1>3. CASE m \in [kind : {"offer", "ack", "nak"}, xid : Xids, net : Networks, server : Servers]
  BY <1>3
<1> QED
  BY <1>1, <1>2, <1>3 DEF Messages

(* What the client sends, and what it gives up, leaves the address, the file    *)
(* and the lease alone; a new attempt takes an identifier that is not in use    *)
(* (run_linux.go:313-400).                                                      *)
Asking ==
    \/ Discover \/ RequestTimeout \/ BeginRenew \/ BeginRebind \/ SendRenewal
    \/ ProbeConflict \/ Resume \/ \E m \in wire : TakeOffer(m)

\* The requests of the agent, and its timers, keep the invariant.
LEMMA AskingStep ==
    ASSUME AgentInv, Asking
    PROVE  AgentInv'
<1> USE OwnerAssumption, AgentAssumption
<1> USE DEF Looping, Requesting, Preparing, kernel, agent, AttemptOver, Asking,
            Discover, RequestTimeout, BeginRenew, BeginRebind, Extend, SendRenewal,
            ProbeConflict, Resume, TakeOffer
<1>1. /\ UNCHANGED <<mode, lease, gen, kernel, status, grants>>
      /\ stage' \in Looping \cup {"declined"} /\ mode = "dhcp"
      /\ age' \in {0, age}
  BY DEF AgentInv, AgentTypeOK, ModeFits
<1>2. AgentTypeOK'
  <2>1. wire' \subseteq Messages
    <3>1. CASE SendRenewal
      BY <3>1 DEF Send, Messages, AgentInv, AgentTypeOK, Held, NoLease
    <3>2. CASE Discover
      BY <3>2 DEF FreshXid, Send, Messages, AgentInv, AgentTypeOK
    <3>3. CASE \E m \in wire : TakeOffer(m)
      <4>1. PICK m \in wire : TakeOffer(m)
        BY <3>3
      <4>2. xid \in Xids /\ m.net \in Networks /\ m.server \in Servers /\ wire \subseteq Messages
        BY <4>1, MessageFields DEF AgentInv, AgentTypeOK
      <4>3. [kind |-> "request", xid |-> xid, net |-> m.net, server |-> m.server] \in Messages
        BY <4>2 DEF Messages
      <4> QED
        BY <4>1, <4>2, <4>3 DEF Send
    <3> QED
      BY <3>1, <3>2, <3>3 DEF AgentInv, AgentTypeOK
  <2>2. xid' \in Xids /\ wait' \in Nat
    BY DEF FreshXid, AgentInv, AgentTypeOK
  <2>3. pending' \in {NoOffer} \cup [net : Networks, server : Servers \cup {None}]
    <3>1. CASE \E m \in wire : TakeOffer(m)
      BY <3>1, MessageFields DEF AgentInv, AgentTypeOK
    <3> QED
      BY <3>1 DEF AgentInv, AgentTypeOK
  <2> QED
    BY <1>1, <2>1, <2>2, <2>3 DEF AgentInv, AgentTypeOK, Stages
<1>3. StatusBacked' /\ Announced' /\ Unheld' /\ ProbingUnannounced'
  BY <1>1 DEF AgentInv, AgentTypeOK, StatusBacked, Held, Announced, Unheld, ProbingUnannounced
<1>4. ModeFits'
  BY <1>1 DEF AgentInv, AgentTypeOK, ModeFits, Held
<1>5. MacInstalled' /\ PauseOutlasts' /\ AddressGranted'
  BY <1>1 DEF AgentInv, AgentTypeOK, MacInstalled, PauseOutlasts, AddressGranted
<1>6. FreshAttempt'
  BY <1>1 DEF AgentInv, FreshAttempt, FreshXid, Send
<1>7. LeaseGranted'
  BY <1>1 DEF AgentInv, AgentTypeOK, LeaseGranted, AckGranted, Held, FreshAttempt, FreshXid, Send
<1> QED
  BY <1>2, <1>3, <1>4, <1>5, <1>6, <1>7 DEF AgentInv

(* What is withdrawn is not held any more, and nothing is announced.            *)
LEMMA WithdrawWithholds ==
    ASSUME AgentInv, Withdraw, gen' = gen
    PROVE  Withhold /\ ~Held' /\ status' = NoStatus /\ address' \in {address, NoAddress} /\ routes' \subseteq routes
BY DEF Withdraw, Withhold, Held, NoLease

(* Installing a lease confirms the network announced, or publishes another one. *)
LEMMA InstallAnnounces ==
    ASSUME AgentInv, NEW net \in Networks, NEW server, NEW left \in Nat, left >= KernelLifetime,
           Install(net, server, left)
    PROVE  /\ Confirm \/ Publish
           /\ lease' = [net |-> net, server |-> server, left |-> left]
           /\ address' = [net |-> net, left |-> KernelLifetime]
           /\ routes' \subseteq routes \cup {"own"}
           /\ gen' \in Generations /\ status'.gen = gen' /\ status'.net = net
           /\ status'.left = KernelLifetime - GuardTime
<1>1. Lifetime(left) = KernelLifetime /\ KernelLifetime \in Lifetimes
  BY LifetimeRounds, WholeSeconds
<1>2. Announce(gen', net, KernelLifetime) /\ lease' = [net |-> net, server |-> server, left |-> left]
  BY <1>1 DEF Install, Beat
<1>3. CASE net = lease.net
  <2>1. Held
    BY <1>3, OwnerAssumption DEF Held, NoLease
  <2>2. status.gen = gen /\ gen \in Generations /\ status.net = net /\ gen' = gen /\ routes' = routes
    BY <1>3, <2>1 DEF Install, AgentInv, Announced
  <2>3. status # NoStatus
    BY <2>2, OwnerAssumption DEF NoStatus
  <2>4. Confirm
    BY <1>1, <1>2, <2>2, <2>3 DEF Confirm
  <2> QED
    BY <1>2, <2>2, <2>4 DEF Announce
<1>4. CASE net # lease.net
  <2>1. gen' \in Generations \ {gen} /\ routes' = routes \cup {"own"}
    BY <1>4 DEF Install
  <2>2. Publish
    BY <1>1, <1>2, <2>1 DEF Publish
  <2> QED
    BY <1>2, <2>1, <2>2 DEF Announce
<1> QED
  BY <1>3, <1>4

(* A heartbeat confirms the network it announces, or withdraws it.              *)
LEMMA HeartbeatConfirms ==
    ASSUME AgentInv, Heartbeat
    PROVE  \/ Withdraw /\ stage' = "init" /\ gen' = gen /\ AttemptOver
           \/ /\ Confirm /\ Announce(gen, lease.net, Lifetime(lease.left))
              /\ Lifetime(lease.left) \in Lifetimes
              /\ UNCHANGED <<stage, lease, gen, pending, age, routes>>
<1>1. Held /\ lease.left \in Nat
  BY DEF Heartbeat, Held, AgentInv, AgentTypeOK
<1>2. CASE Lifetime(lease.left) = 0
  BY <1>2 DEF Heartbeat
<1>3. CASE Lifetime(lease.left) # 0
  <2>1. Lifetime(lease.left) \in Lifetimes
    BY <1>1, <1>3, LifetimeRounds
  <2>2. /\ Announce(gen, lease.net, Lifetime(lease.left))
        /\ UNCHANGED <<stage, lease, gen, pending, age, routes>>
    BY <1>3 DEF Heartbeat, Beat
  <2>3. gen \in Generations /\ status.gen = gen /\ status.net = lease.net
    BY <1>1 DEF AgentInv, Announced
  <2>4. status # NoStatus
    BY <2>3, OwnerAssumption DEF NoStatus
  <2> QED
    BY <2>1, <2>2, <2>3, <2>4 DEF Confirm
<1> QED
  BY <1>2, <1>3

(* A heartbeat that fails after the kernel has the address leaves a file that   *)
(* this address still backs.                                                    *)
LEMMA FailedBeatRefreshes ==
    ASSUME AgentInv, Held, Lifetime(lease.left) > 0,
           address' = [net |-> lease.net, left |-> Lifetime(lease.left)],
           status' = status, gen' = gen
    PROVE  \E lifetime \in Lifetimes : Refresh(lifetime) /\ Backed(status', address')
<1>1. /\ gen \in Generations /\ status.gen = gen /\ status.net = lease.net
      /\ Current(status) => status.left + GuardTime <= lease.left
  BY DEF AgentInv, Announced
<1>2. status # NoStatus /\ status \in StatusFiles /\ lease.left \in Nat
  BY <1>1, OwnerAssumption DEF NoStatus, AgentInv, AgentTypeOK, Held
<1>3. Lifetime(lease.left) \in Lifetimes
  BY <1>2, LifetimeRounds
<1>4. Refresh(Lifetime(lease.left))
  BY <1>1, <1>2, <1>3 DEF Refresh
<1>5. Backed(status', address')
  <2>1. CASE lease.left < KernelLifetime
    <3>1. Lifetime(lease.left) > lease.left - Second /\ Lifetime(lease.left) \in Nat
      BY <1>2, <1>3, <2>1, LifetimeRounds DEF Lifetimes
    <3> QED
      BY <1>1, <1>2, <3>1, OwnerAssumption DEF Backed, Current, Slack, StatusFiles, NoStatus
  <2>2. CASE lease.left >= KernelLifetime
    <3>1. Lifetime(lease.left) = KernelLifetime
      BY <1>2, <2>2, LifetimeRounds
    <3> QED
      BY <1>1, <1>2, <3>1, OwnerAssumption DEF Backed, Current, Slack, StatusFiles, NoStatus
  <2> QED
    BY <1>2, <2>1, <2>2, OwnerAssumption
<1> QED
  BY <1>3, <1>4, <1>5

(* What is installed lasts for a heartbeat at least.                            *)
LEMMA InTimeLasts ==
    ASSUME AgentInv, InTime
    PROVE  LeaseTime - age \in Nat /\ LeaseTime - age >= KernelLifetime
<1>1. LeaseTime \in Nat /\ age \in 0..LeaseTime /\ mode \in Modes
  BY AgentAssumption DEF AgentInv, AgentTypeOK
<1>2. CASE mode = "static"
  <2>1. age = 0
    BY <1>2 DEF AgentInv, ModeFits
  <2> QED
    BY <1>1, <1>2, <2>1, AgentAssumption
<1>3. CASE mode # "static"
  BY <1>1, <1>3, AgentAssumption, OwnerAssumption DEF InTime
<1> QED
  BY <1>2, <1>3

Installing == ProbeDone \/ \E m \in wire : TakeExtension(m) \/ TakeChange(m)
Ending == ExpireLease \/ Stop \/ StopConfiguring \/ \E m \in wire : TakeNak(m)

(* Every step of the agent is one its reader was promised.                      *)
LEMMA StepKeepsPromise == AgentInv /\ [AgentNext]_vars => [Next]_owned
<1> SUFFICES ASSUME AgentInv, [AgentNext]_vars PROVE Next \/ UNCHANGED owned
  OBVIOUS
<1>1. CASE Configuring
  <2>1. CASE Verify
    BY <2>1 DEF Verify, kernel, Withhold, Next
  <2> QED
    BY <1>1, <2>1 DEF Configuring, Start, Plan, Prepare, InstallMAC, Recheck, RemoveRoute, RemoveBootstrap,
       kernel, owned
<1>2. CASE Asking
  BY <1>2 DEF Asking, Discover, RequestTimeout, BeginRenew, BeginRebind, Extend, SendRenewal,
     ProbeConflict, Resume, TakeOffer, kernel, agent, owned
<1>3. CASE Heartbeat
  BY <1>3, HeartbeatConfirms, WithdrawWithholds DEF Next
<1>4. CASE Ending
  <2>1. CASE ExpireLease \/ \E m \in wire : TakeNak(m)
    BY <2>1, WithdrawWithholds DEF ExpireLease, TakeNak, Next
  <2>2. CASE Stop
    <3>1. CASE Withdraw
      BY <2>2, <3>1, WithdrawWithholds DEF Stop, Next
    <3> QED
      BY <2>2, <3>1 DEF Stop, Withhold, Next, owned
  <2>3. CASE StopConfiguring
    <3>1. CASE Held /\ Lifetime(lease.left) > 0 /\ address' = [net |-> lease.net, left |-> Lifetime(lease.left)]
               /\ UNCHANGED <<status, routes>>
      BY <2>3, <3>1, FailedBeatRefreshes DEF StopConfiguring, Next
    <3>2. CASE stage = "probing" /\ address' = [net |-> pending.net, left |-> KernelLifetime] /\ UNCHANGED status
      <4>1. status' = NoStatus /\ gen' = gen /\ pending.net \in Networks
        BY <2>3, <3>2 DEF StopConfiguring, AgentInv, ProbingUnannounced
      <4>2. KernelLifetime \in Lifetimes
        BY WholeSeconds
      <4> QED
        BY <3>2, <4>1, <4>2 DEF Withhold, Next
    <3> QED
      BY <2>3, <3>1, <3>2 DEF StopConfiguring
  <2> QED
    BY <1>4, <2>1, <2>2, <2>3 DEF Ending
<1>5. CASE Installing
  <2>1. CASE ProbeDone
    <3>1. CASE InTime
      <4>1. pending.net \in Networks
        BY <2>1 DEF ProbeDone, AgentInv, ProbingUnannounced
      <4>2. Install(pending.net, pending.server, LeaseTime - age)
        BY <2>1, <3>1 DEF ProbeDone
      <4> QED
        BY <3>1, <4>1, <4>2, InTimeLasts, InstallAnnounces DEF Next
    <3> QED
      BY <2>1, <3>1 DEF ProbeDone, owned
  <2>2. ASSUME NEW m \in wire, TakeExtension(m) PROVE Next \/ UNCHANGED owned
    <3>1. m.net \in Networks
      BY <2>2, MessageFields DEF TakeExtension, AgentInv, AgentTypeOK
    <3>2. CASE InTime
      BY <2>2, <3>1, <3>2, InTimeLasts, InstallAnnounces DEF TakeExtension, Next
    <3> QED
      BY <2>2, <3>2 DEF TakeExtension, owned
  <2>3. ASSUME NEW m \in wire, TakeChange(m) PROVE Next
    BY <2>3, WithdrawWithholds DEF TakeChange, Next
  <2> QED
    BY <1>5, <2>1, <2>2, <2>3 DEF Installing
<1>6. CASE Surroundings
  BY <1>6 DEF Surroundings, Offer, Ack, Nak, Reply, Lose, ForeignRoute, ClockTick, agent, kernel, owned, Next
<1>7. CASE UNCHANGED vars
  BY <1>7 DEF vars, agent, kernel, owned
<1> QED
  BY <1>1, <1>2, <1>3, <1>4, <1>5, <1>6, <1>7
     DEF AgentNext, Configuring, Owning, Leasing, Asking, Ending, Installing

(* What is kept with the promise: the types of the address and the file, and    *)
(* the address behind a current file.                                           *)
LEMMA OwnedStep ==
    ASSUME AgentInv, [AgentNext]_vars
    PROVE  OwnerTypeOK' /\ StatusBacked'
<1>1. OwnerInv
  BY DEF AgentInv, AgentTypeOK, OwnerInv, OwnerTypeOK
<1> QED
  BY <1>1, StepOwner, StepKeepsPromise DEF OwnerInv

(* The end of a lease or of the process: what was held is withdrawn, or left    *)
(* for the next process to outlast (run_linux.go:61-80).                        *)
LEMMA EndingStep ==
    ASSUME AgentInv, Ending
    PROVE  AgentInv'
<1> USE OwnerAssumption, AgentAssumption
<1>1. /\ UNCHANGED <<mode, xid, wait, gen, mac, boot, wire, grants>>
      /\ AttemptOver /\ ~Held' /\ lease' = NoLease
      /\ stage' = "down" \/ (stage' = "init" /\ mode = "dhcp" /\ stage \in Looping)
  BY DEF Ending, ExpireLease, Stop, StopConfiguring, TakeNak, Answers, Requesting, Withdraw, Held,
         AgentInv, ModeFits, AgentTypeOK, Looping
<1>2. routes' \subseteq {"aux", "own", "foreign"} /\ ("own" \in routes' => "own" \in routes \/ mac)
  BY DEF Ending, ExpireLease, Stop, StopConfiguring, TakeNak, Withdraw, AgentInv, AgentTypeOK,
         MacInstalled
<1>3. \/ address' \in {address, NoAddress}
      \/ /\ Held /\ Lifetime(lease.left) > 0 /\ stage # "down"
         /\ address' = [net |-> lease.net, left |-> Lifetime(lease.left)]
      \/ stage = "probing" /\ InTime /\ address' = [net |-> pending.net, left |-> KernelLifetime]
  BY DEF Ending, ExpireLease, Stop, StopConfiguring, TakeNak, Withdraw
<1>4. AgentTypeOK' /\ StatusBacked'
  <2>1. OwnerTypeOK' /\ StatusBacked'
    BY OwnedStep DEF Ending, AgentNext, Owning, Leasing
  <2> QED
    BY <1>1, <1>2, <2>1 DEF AttemptOver, AgentInv, AgentTypeOK, OwnerTypeOK, Stages, Looping
<1>5. Announced' /\ Unheld' /\ ModeFits' /\ ProbingUnannounced'
  BY <1>1 DEF AttemptOver, Announced, Unheld, ModeFits, ProbingUnannounced, Looping, Requesting
<1>6. MacInstalled'
  <2>1. address' # NoAddress => mac
    BY <1>3 DEF AgentInv, MacInstalled, Unheld, Preparing
  <2> QED
    BY <1>1, <1>2, <2>1 DEF AgentInv, MacInstalled, Looping, Requesting
<1>7. AddressGranted'
  <2>1. CASE address' \in {address, NoAddress}
    BY <1>1, <2>1 DEF AgentInv, AddressGranted
  <2>2. CASE Held /\ address' = [net |-> lease.net, left |-> Lifetime(lease.left)]
    <3>1. lease.left \in Nat /\ lease.net \in Networks /\ (mode = "dhcp" => lease.left <= grants[lease.net])
      BY <2>2 DEF AgentInv, AgentTypeOK, Held, LeaseGranted
    <3>2. Lifetime(lease.left) \in Nat /\ Lifetime(lease.left) <= lease.left
      BY <3>1, LifetimeRounds DEF Lifetimes
    <3> QED
      BY <1>1, <2>2, <3>1, <3>2 DEF AgentInv, AgentTypeOK, AddressGranted
  <2>3. CASE stage = "probing" /\ InTime /\ address' = [net |-> pending.net, left |-> KernelLifetime]
    BY <1>1, <2>3, InTimeLasts
       DEF AgentInv, AgentTypeOK, LeaseGranted, ProbingUnannounced, AddressGranted
  <2> QED
    BY <1>3, <2>1, <2>2, <2>3
<1>8. PauseOutlasts' /\ FreshAttempt' /\ LeaseGranted'
  BY <1>1 DEF PauseOutlasts, FreshAttempt, LeaseGranted, Requesting
<1> QED
  BY <1>4, <1>5, <1>6, <1>7, <1>8 DEF AgentInv

(* A heartbeat gives the kernel no more than what is left of the lease          *)
(* (run_linux.go:117-126).                                                      *)
LEMMA HeartbeatStep ==
    ASSUME AgentInv, Heartbeat
    PROVE  AgentInv'
<1> USE OwnerAssumption, AgentAssumption
<1>1. UNCHANGED <<mode, xid, wait, mac, boot, wire, grants>> /\ Held
  BY DEF Heartbeat
<1>2. OwnerTypeOK' /\ StatusBacked'
  BY OwnedStep DEF AgentNext, Owning
<1>3. CASE Withdraw /\ stage' = "init" /\ gen' = gen /\ AttemptOver
  <2>1. ~Held' /\ lease' = NoLease /\ address' \in {address, NoAddress} /\ routes' \subseteq routes /\ mode = "dhcp"
    <3>1. Lifetime(lease.left) = 0
      BY <1>3, OwnerAssumption DEF Heartbeat, Withdraw, Beat, Announce, NoStatus, AgentInv, Announced
    <3>2. mode # "static"
      <4> SUFFICES ASSUME mode = "static" PROVE FALSE
        OBVIOUS
      <4>1. lease.left = LeaseTime /\ LeaseTime >= KernelLifetime
        BY <1>1 DEF AgentInv, AgentTypeOK, ModeFits
      <4> QED
        BY <3>1, <4>1, LifetimeRounds
    <3> QED
      BY <1>3, <3>2, WithdrawWithholds DEF Withdraw, AgentInv, AgentTypeOK
  <2>2. AgentTypeOK'
    BY <1>1, <1>2, <1>3, <2>1 DEF AttemptOver, AgentInv, AgentTypeOK, OwnerTypeOK, Stages, Looping
  <2>3. Announced' /\ Unheld' /\ ModeFits' /\ ProbingUnannounced'
    BY <1>1, <1>3, <2>1 DEF AttemptOver, Announced, Unheld, ModeFits, ProbingUnannounced, Looping, Requesting
  <2>4. MacInstalled' /\ PauseOutlasts' /\ FreshAttempt' /\ LeaseGranted' /\ AddressGranted'
    BY <1>1, <1>3, <2>1 DEF AgentInv, MacInstalled, PauseOutlasts, FreshAttempt, LeaseGranted, AddressGranted,
       Requesting, Heartbeat, Looping
  <2> QED
    BY <1>2, <2>2, <2>3, <2>4 DEF AgentInv
<1>4. CASE /\ Confirm /\ Announce(gen, lease.net, Lifetime(lease.left))
           /\ Lifetime(lease.left) \in Lifetimes
           /\ UNCHANGED <<stage, lease, gen, pending, age, routes>>
  <2>1. lease.left \in Nat /\ lease.net \in Networks
    BY <1>1 DEF AgentInv, AgentTypeOK, Held
  <2>2. Lifetime(lease.left) \in Nat /\ Lifetime(lease.left) <= lease.left
    BY <2>1, LifetimeRounds DEF Lifetimes
  <2>3. /\ address' = [net |-> lease.net, left |-> Lifetime(lease.left)]
        /\ status'.gen = gen /\ status'.net = lease.net /\ status'.left = Lifetime(lease.left) - GuardTime
    BY <1>4 DEF Announce
  <2>4. AgentTypeOK'
    BY <1>1, <1>2, <1>4 DEF AgentInv, AgentTypeOK, OwnerTypeOK
  <2>5. Announced' /\ Unheld' /\ ModeFits' /\ ProbingUnannounced'
    BY <1>1, <1>4, <2>1, <2>2, <2>3
       DEF AgentInv, Announced, Unheld, ModeFits, ProbingUnannounced, Held, Heartbeat
  <2>6. stage \notin {"down", "probing"} \cup Preparing
    BY <1>1 DEF AgentInv, Unheld
  <2>7. MacInstalled' /\ PauseOutlasts' /\ FreshAttempt' /\ LeaseGranted'
    BY <1>1, <1>4, <2>6 DEF AgentInv, MacInstalled, PauseOutlasts, FreshAttempt, LeaseGranted, AckGranted,
       Held, Preparing
  <2>8. AddressGranted'
    BY <1>1, <2>1, <2>2, <2>3 DEF AgentInv, AgentTypeOK, AddressGranted, LeaseGranted
  <2> QED
    BY <1>2, <2>4, <2>5, <2>7, <2>8 DEF AgentInv
<1> QED
  BY <1>3, <1>4, HeartbeatConfirms

(* The installation of a lease acknowledged in time: it ends with its grant,    *)
(* and another network is probed, unannounced, before (run_linux.go:82-115,     *)
(* 420-467).                                                                    *)
LEMMA InstallingStep ==
    ASSUME AgentInv, Installing
    PROVE  AgentInv'
<1> USE OwnerAssumption, AgentAssumption
<1>1. /\ UNCHANGED <<mode, xid, mac, boot, wire, grants>> /\ mac
      /\ stage \in Requesting \cup {"probing"} /\ (stage # "probing" => mode = "dhcp")
  BY DEF Installing, ProbeDone, TakeExtension, TakeChange, Answers, Requesting, Looping,
         AgentInv, AgentTypeOK, MacInstalled, ModeFits
<1>2. OwnerTypeOK' /\ StatusBacked'
  BY OwnedStep DEF Installing, AgentNext, Leasing
<1>3. CASE \E net \in Networks, server \in Servers \cup {None} :
              /\ InTime /\ Install(net, server, LeaseTime - age) /\ AttemptOver /\ wait' = wait
              /\ stage' = (IF mode = "dhcp" THEN "bound" ELSE "static")
              /\ mode = "dhcp" => LeaseTime - age <= grants[net]
  <2>1. PICK net \in Networks, server \in Servers \cup {None} :
              /\ InTime /\ Install(net, server, LeaseTime - age) /\ AttemptOver /\ wait' = wait
              /\ stage' = (IF mode = "dhcp" THEN "bound" ELSE "static")
              /\ mode = "dhcp" => LeaseTime - age <= grants[net]
    BY <1>3
  <2>2. LeaseTime - age \in Nat /\ LeaseTime - age >= KernelLifetime
    BY <2>1, InTimeLasts
  <2>3. /\ lease' = [net |-> net, server |-> server, left |-> LeaseTime - age]
        /\ address' = [net |-> net, left |-> KernelLifetime]
        /\ routes' \subseteq routes \cup {"own"}
        /\ gen' \in Generations /\ status'.gen = gen' /\ status'.net = net
        /\ status'.left = KernelLifetime - GuardTime
    BY <2>1, <2>2, InstallAnnounces
  <2>4. AgentTypeOK'
    BY <1>1, <1>2, <2>1, <2>2, <2>3 DEF AttemptOver, AgentInv, AgentTypeOK, OwnerTypeOK, Stages, Looping
  <2>5. Announced' /\ Unheld' /\ ProbingUnannounced'
    BY <2>1, <2>2, <2>3 DEF Announced, Unheld, ProbingUnannounced, Preparing
  <2>6. ModeFits'
    BY <1>1, <2>1, <2>3 DEF AttemptOver, ModeFits, Looping, Requesting, AgentInv, AgentTypeOK
  <2>7. MacInstalled' /\ PauseOutlasts' /\ FreshAttempt'
    BY <1>1, <2>1, <2>3 DEF MacInstalled, PauseOutlasts, FreshAttempt
  <2>8. LeaseGranted' /\ AddressGranted'
    BY <1>1, <2>1, <2>2, <2>3 DEF AgentInv, AgentTypeOK, LeaseGranted, AddressGranted, Requesting
  <2> QED
    BY <1>2, <2>4, <2>5, <2>6, <2>7, <2>8 DEF AgentInv
<1>4. CASE ~InTime /\ stage' = "init" /\ UNCHANGED <<lease, gen, address, routes, status, wait>> /\ AttemptOver
  <2>1. mode = "dhcp"
    BY <1>4 DEF InTime, AgentInv, AgentTypeOK
  <2>2. AgentTypeOK'
    BY <1>1, <1>2, <1>4 DEF AttemptOver, AgentInv, AgentTypeOK, Stages, Looping
  <2>3. Announced' /\ Unheld' /\ ModeFits' /\ ProbingUnannounced'
    BY <1>1, <1>4, <2>1 DEF AttemptOver, AgentInv, Announced, Unheld, ModeFits, ProbingUnannounced, Held, Preparing
  <2>4. MacInstalled' /\ PauseOutlasts' /\ FreshAttempt' /\ LeaseGranted' /\ AddressGranted'
    BY <1>1, <1>4 DEF AgentInv, MacInstalled, PauseOutlasts, FreshAttempt, LeaseGranted, AddressGranted,
       Held, Requesting
  <2> QED
    BY <1>2, <2>2, <2>3, <2>4 DEF AgentInv
<1>5. CASE \E m \in wire : TakeChange(m)
  <2>1. PICK m \in wire : TakeChange(m)
    BY <1>5
  <2>2. m.net \in Networks /\ m.server \in Servers
    BY <2>1, MessageFields DEF TakeChange, AgentInv, AgentTypeOK
  <2>3. ~Held' /\ lease' = NoLease /\ status' = NoStatus /\ address' \in {address, NoAddress} /\ routes' \subseteq routes
    BY <2>1, WithdrawWithholds DEF TakeChange, Withdraw
  <2>4. /\ stage' = "probing" /\ wait' = ProbeTime /\ age' = age /\ gen' = gen
        /\ pending' = [net |-> m.net, server |-> m.server]
        /\ stage \in Requesting /\ mode = "dhcp" /\ m.kind = "ack" /\ m.xid = xid
    BY <1>1, <2>1 DEF TakeChange, Answers, Requesting
  <2>5. AgentTypeOK'
    BY <1>1, <1>2, <2>2, <2>3, <2>4 DEF AgentInv, AgentTypeOK, OwnerTypeOK, Stages
  <2>6. Announced' /\ Unheld' /\ ModeFits' /\ ProbingUnannounced'
    BY <1>1, <2>2, <2>3, <2>4 DEF Announced, Unheld, ModeFits, ProbingUnannounced, Looping, Requesting
  <2>7. MacInstalled' /\ PauseOutlasts' /\ FreshAttempt' /\ AddressGranted'
    BY <1>1, <2>3, <2>4 DEF AgentInv, MacInstalled, PauseOutlasts, FreshAttempt, AddressGranted
  <2>8. LeaseGranted'
    BY <1>1, <2>3, <2>4 DEF AgentInv, LeaseGranted, AckGranted, Requesting
  <2> QED
    BY <1>2, <2>5, <2>6, <2>7, <2>8 DEF AgentInv
<1>6. CASE ProbeDone
  <2>1. pending.net \in Networks /\ pending.server \in Servers \cup {None}
    BY <1>6 DEF ProbeDone, AgentInv, AgentTypeOK, ProbingUnannounced, NoOffer
  <2>2. mode = "dhcp" => LeaseTime - age <= grants[pending.net]
    BY <1>6 DEF ProbeDone, AgentInv, LeaseGranted
  <2> QED
    BY <1>3, <1>4, <1>6, <2>1, <2>2 DEF ProbeDone
<1>7. CASE \E m \in wire : TakeExtension(m)
  <2>1. PICK m \in wire : TakeExtension(m)
    BY <1>7
  <2>2. m.net \in Networks /\ m.server \in Servers
    BY <2>1, MessageFields DEF TakeExtension, AgentInv, AgentTypeOK
  <2>3. mode = "dhcp" /\ stage \in Requesting /\ m.kind = "ack" /\ m.xid = xid
    BY <1>1, <2>1 DEF TakeExtension, Answers, Requesting
  <2>4. LeaseTime - age <= grants[m.net]
    BY <2>1, <2>3 DEF AgentInv, LeaseGranted, AckGranted
  <2> QED
    BY <1>3, <1>4, <2>1, <2>2, <2>3, <2>4 DEF TakeExtension
<1> QED
  BY <1>5, <1>6, <1>7 DEF Installing

(* Messages come and go: a server's grant begins when it acknowledges, and      *)
(* nothing that was under way before an attempt has its identifier.             *)
Delivering ==
    \E m \in wire : \/ Lose(m)
                    \/ \E s \in Servers : Nak(m, s)
                    \/ \E s \in Servers, n \in Networks : Offer(m, s, n) \/ Ack(m, s, n)

\* What servers put on the wire, and what it loses, keeps the invariant.
LEMMA DeliveringStep ==
    ASSUME AgentInv, Delivering
    PROVE  AgentInv'
<1> USE OwnerAssumption, AgentAssumption
<1>1. UNCHANGED <<agent, kernel, status>>
  BY DEF Delivering, Lose, Nak, Offer, Ack, Reply
<1>2. PICK m \in wire : \/ Lose(m)
                        \/ \E s \in Servers : Nak(m, s)
                        \/ \E s \in Servers, n \in Networks : Offer(m, s, n) \/ Ack(m, s, n)
  BY DEF Delivering
<1>3. m \in Messages /\ m.xid \in Xids /\ (m.kind # "discover" => m.net \in Networks)
  BY MessageFields DEF AgentInv, AgentTypeOK
<1>4. \/ wire' \subseteq wire /\ grants' = grants
      \/ \E s \in Servers, n \in Networks :
            \/ /\ wire' = wire \cup {[kind |-> "nak", xid |-> m.xid, net |-> n, server |-> s]}
               /\ grants' = grants /\ m.kind = "request"
            \/ /\ wire' = wire \cup {[kind |-> "offer", xid |-> m.xid, net |-> n, server |-> s]}
               /\ grants' = grants
            \/ /\ wire' = wire \cup {[kind |-> "ack", xid |-> m.xid, net |-> n, server |-> s]}
               /\ grants' = [grants EXCEPT ![n] = LeaseTime] /\ m.kind = "request"
  BY <1>2, <1>3 DEF Lose, Nak, Offer, Ack, Reply, Send
<1>5. wire' \subseteq Messages
  BY <1>3, <1>4 DEF Messages, AgentInv, AgentTypeOK
<1>6. grants' \in [Networks -> 0..LeaseTime] /\ \A n \in Networks : grants[n] <= grants'[n]
  BY <1>4 DEF AgentInv, AgentTypeOK
<1>7. AgentTypeOK' /\ StatusBacked'
  BY <1>1, <1>5, <1>6 DEF agent, kernel, AgentInv, AgentTypeOK, StatusBacked
<1>8. Announced' /\ Unheld' /\ ModeFits' /\ ProbingUnannounced' /\ MacInstalled' /\ PauseOutlasts'
  BY <1>1 DEF agent, kernel, AgentInv, Announced, Unheld, Held, ModeFits, ProbingUnannounced, MacInstalled, PauseOutlasts
<1>9. FreshAttempt'
  BY <1>1, <1>4 DEF agent, AgentInv, FreshAttempt
<1>10. AddressGranted'
  BY <1>1, <1>6 DEF agent, kernel, AgentInv, AgentTypeOK, Addresses, NoAddress, AddressGranted
<1>11. LeaseGranted'
  <2> SUFFICES ASSUME mode = "dhcp"
               PROVE  /\ Held => lease.left <= grants'[lease.net]
                      /\ stage = "probing" => LeaseTime - age <= grants'[pending.net]
                      /\ stage \in Requesting => \A k \in wire' : AckGranted(k)'
    BY <1>1 DEF agent, LeaseGranted, Held
  <2>1. Held => lease.left <= grants'[lease.net]
    BY <1>6 DEF AgentInv, AgentTypeOK, LeaseGranted, Held
  <2>2. stage = "probing" => LeaseTime - age <= grants'[pending.net]
    BY <1>6 DEF AgentInv, AgentTypeOK, LeaseGranted, ProbingUnannounced
  <2>3. ASSUME stage \in Requesting, NEW k \in wire', k.kind = "ack", k.xid = xid
        PROVE  LeaseTime - age <= grants'[k.net]
    <3>1. k.net \in Networks
      BY <1>5, <2>3, MessageFields
    <3>2. CASE k \in wire
      BY <1>6, <2>3, <3>1, <3>2 DEF AgentInv, AgentTypeOK, LeaseGranted, AckGranted
    <3>3. CASE k \notin wire
      BY <1>4, <2>3, <3>1, <3>3 DEF AgentInv, AgentTypeOK
    <3> QED
      BY <3>2, <3>3
  <2> QED
    BY <1>1, <2>1, <2>2, <2>3 DEF agent, AckGranted
<1> QED
  BY <1>7, <1>8, <1>9, <1>10, <1>11 DEF AgentInv

(* Time runs for addresses, files, leases, attempts and grants alike.           *)
LEMMA ClockStep ==
    ASSUME AgentInv, ClockTick
    PROVE  AgentInv'
<1> USE OwnerAssumption, AgentAssumption
<1>1. UNCHANGED <<stage, mode, pending, xid, mac, boot, wire, gen>>
  BY DEF ClockTick, Tick
<1>2. OwnerTypeOK' /\ StatusBacked'
  BY OwnedStep DEF AgentNext, Surroundings
<1>3. /\ Held' <=> Held
      /\ lease'.net = lease.net
      /\ lease' \in {NoLease} \cup [net : Networks, server : Servers \cup {None}, left : 0..LeaseTime]
      /\ Held => lease.net \in Networks /\ lease.left \in 0..LeaseTime
      /\ mode = "dhcp" => lease'.left = Less(lease.left)
      /\ mode = "static" => lease' = lease
  <2>1. lease = NoLease => lease' = NoLease
    BY DEF ClockTick, Less, NoLease
  <2>2. Held => lease.net \in Networks /\ lease.left \in 0..LeaseTime /\ lease.server \in Servers \cup {None}
    BY DEF Held, AgentInv, AgentTypeOK
  <2>3. ASSUME Held
        PROVE  /\ lease' \in [net : Networks, server : Servers \cup {None}, left : 0..LeaseTime]
               /\ lease'.net = lease.net
               /\ mode = "dhcp" => lease'.left = Less(lease.left)
    <3>1. Less(lease.left) \in 0..LeaseTime
      BY <2>2, <2>3 DEF Less
    <3>2. lease' = lease \/ lease' = [lease EXCEPT !.left = Less(@)]
      BY DEF ClockTick
    <3>3. lease \in [net : Networks, server : Servers \cup {None}, left : 0..LeaseTime]
      BY <2>3 DEF Held, AgentInv, AgentTypeOK
    <3>4. [lease EXCEPT !.left = Less(@)]
            = [net |-> lease.net, server |-> lease.server, left |-> Less(lease.left)]
      BY <3>3
    <3>5. mode = "dhcp" => lease' = [lease EXCEPT !.left = Less(@)]
      BY DEF ClockTick
    <3> HIDE DEF Less
    <3> QED
      BY <2>2, <2>3, <3>1, <3>2, <3>3, <3>4, <3>5
  <2>4. mode = "static" => lease' = lease
    BY DEF ClockTick
  <2> QED
    BY <2>1, <2>2, <2>3, <2>4 DEF Held, NoLease, Less
<1>4. grants' \in [Networks -> 0..LeaseTime] /\ \A n \in Networks : grants'[n] = Less(grants[n])
  BY DEF ClockTick, Less, AgentInv, AgentTypeOK
<1>5. /\ age' \in 0..LeaseTime /\ (age' = age \/ Awaiting)
      /\ Awaiting => age' = (IF age < LeaseTime THEN age + 1 ELSE age)
  BY DEF ClockTick, AgentInv, AgentTypeOK
<1>6. wait' \in Nat /\ wait' = Less(wait) /\ routes' \subseteq routes
  BY DEF ClockTick, Less, AgentInv, AgentTypeOK
<1>7. /\ address # NoAddress => address.left \in 1..KernelLifetime /\ address.net \in Networks
      /\ address' # NoAddress => address # NoAddress /\ address'.net = address.net /\ address'.left = address.left - 1
  BY DEF ClockTick, Tick, AddressAfterTick, AgentInv, AgentTypeOK, Addresses, NoAddress
<1>8. /\ status'.gen = status.gen /\ status'.net = status.net /\ status'.left = Less(status.left)
      /\ status.left \in Nat /\ (status = NoStatus => status' = NoStatus)
  BY DEF ClockTick, Tick, Less, AgentInv, AgentTypeOK, StatusFiles, NoStatus
<1>9. AgentTypeOK'
  BY <1>1, <1>2, <1>3, <1>4, <1>5, <1>6 DEF AgentInv, AgentTypeOK, OwnerTypeOK
<1>10. Announced'
  BY <1>1, <1>3, <1>8 DEF AgentInv, AgentTypeOK, Announced, ModeFits, Current, Less
<1>11. Unheld' /\ ModeFits' /\ ProbingUnannounced'
  BY <1>1, <1>3, <1>5, <1>8 DEF AgentInv, Unheld, ModeFits, ProbingUnannounced, Awaiting
<1>12. MacInstalled' /\ PauseOutlasts' /\ FreshAttempt'
  BY <1>1, <1>6, <1>7 DEF AgentInv, AgentTypeOK, MacInstalled, PauseOutlasts, FreshAttempt, Less
<1>13. LeaseGranted'
  <2> SUFFICES ASSUME mode = "dhcp"
               PROVE  /\ Held => lease'.left <= grants'[lease.net]
                      /\ stage = "probing" => LeaseTime - age' <= grants'[pending.net]
                      /\ stage \in Requesting => \A m \in wire : m.kind = "ack" /\ m.xid = xid => LeaseTime - age' <= grants'[m.net]
    BY <1>1, <1>3 DEF LeaseGranted, AckGranted
  <2>1. Held => lease'.left <= grants'[lease.net]
    BY <1>3, <1>4 DEF AgentInv, AgentTypeOK, LeaseGranted, Less
  <2>2. stage = "probing" => LeaseTime - age' <= grants'[pending.net]
    BY <1>4, <1>5 DEF AgentInv, AgentTypeOK, LeaseGranted, ProbingUnannounced, Awaiting, Less
  <2>3. ASSUME stage \in Requesting, NEW m \in wire, m.kind = "ack", m.xid = xid
        PROVE  LeaseTime - age' <= grants'[m.net]
    <3>1. m.net \in Networks /\ LeaseTime - age <= grants[m.net]
      BY <2>3, MessageFields DEF AgentInv, AgentTypeOK, LeaseGranted, AckGranted
    <3> QED
      BY <1>4, <1>5, <2>3, <3>1 DEF AgentInv, AgentTypeOK, Awaiting, Less
  <2> QED
    BY <2>1, <2>2, <2>3
<1>14. AddressGranted'
  BY <1>1, <1>4, <1>7 DEF AgentInv, AgentTypeOK, AddressGranted, Less
<1> QED
  BY <1>2, <1>9, <1>10, <1>11, <1>12, <1>13, <1>14 DEF AgentInv

\* The grid: every step of the agent and of its surroundings keeps the
\* invariant.
LEMMA StepAgent == AgentInv /\ [AgentNext]_vars => AgentInv'
<1> SUFFICES ASSUME AgentInv, [AgentNext]_vars PROVE AgentInv'
  OBVIOUS
<1>1. CASE ForeignRoute
  BY <1>1 DEF ForeignRoute, agent, AgentInv, AgentTypeOK, StatusBacked, Announced, Unheld, Held, ModeFits,
     ProbingUnannounced, MacInstalled, PauseOutlasts, FreshAttempt, LeaseGranted, AckGranted, AddressGranted
<1>2. CASE UNCHANGED vars
  BY <1>2 DEF vars, agent, kernel, AgentInv, AgentTypeOK, StatusBacked, Announced, Unheld, Held, ModeFits,
     ProbingUnannounced, MacInstalled, PauseOutlasts, FreshAttempt, LeaseGranted, AckGranted, AddressGranted
<1> QED
  BY <1>1, <1>2, ConfiguringStep, AskingStep, EndingStep, HeartbeatStep, InstallingStep, DeliveringStep, ClockStep
     DEF AgentNext, Owning, Leasing, Surroundings, Asking, Ending, Installing, Delivering

\* The invariant the theorems about the agent follow from.
LEMMA InvariantAgent == AgentSpec => []AgentInv
BY InitAgent, StepAgent, PTL DEF AgentSpec

(* Whatever a wire, servers, crashes and restarts do, the variables of the      *)
(* agent keep their types.                                                      *)
THEOREM AgentTypeCorrect == AgentSpec => []AgentTypeOK
<1>1. AgentInv => AgentTypeOK
  BY DEF AgentInv
<1> QED
  BY <1>1, InvariantAgent, PTL

(* No address got by DHCP is alive beyond what a server granted, for any lease, *)
(* renewal and rebinding times (run_linux.go:117, 447).                         *)
THEOREM AddressesGranted == AgentSpec => []AddressGranted
<1>1. AgentInv => AddressGranted
  BY DEF AgentInv
<1> QED
  BY <1>1, InvariantAgent, PTL

(* However an agent ended, the next one can prepare the interface               *)
(* (run_linux.go:211-215, link_linux.go:137-147).                               *)
THEOREM AlwaysRecoverable == AgentSpec => []Recoverable
<1>1. AgentInv => Recoverable
  BY DEF AgentInv, AgentTypeOK, Addresses, NoAddress, MacInstalled, PauseOutlasts, Recoverable, Preparable, Selectable
<1> QED
  BY <1>1, InvariantAgent, PTL

(* The agent implements the promise its reader works from: every step is one    *)
(* of NetworkOwner or changes nothing the reader sees.                          *)
THEOREM AgentKeepsPromise == AgentSpec => ImplementsOwner
<1>1. AgentInit => Init
  BY DEF AgentInit
<1>2. AgentInv /\ [AgentNext]_vars => [Next]_owned
  BY StepKeepsPromise
<1> QED
  BY <1>1, <1>2, InvariantAgent, PTL DEF AgentSpec, ImplementsOwner

(* A current status file of the agent is backed by an address.                  *)
THEOREM AgentBacksStatus == AgentSpec => []StatusBacked
BY AgentKeepsPromise, OwnerBacksStatus, PTL

===============================================================================
