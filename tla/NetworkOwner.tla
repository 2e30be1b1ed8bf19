----------------------------- MODULE NetworkOwner -----------------------------
(***************************************************************************)
(* What the managed network agent promises to the gateway, whatever it     *)
(* does to keep the promise: a current status file describes a configured  *)
(* address that lives about as long as the status, and a generation names  *)
(* one configuration.  Durations are in ticks.                             *)
(***************************************************************************)
EXTENDS Integers

CONSTANTS
    Networks,        \* address, prefix and router of the interface
    Generations,     \* random names of configurations
    None,            \* no network, no generation
    KernelLifetime,  \* longest lifetime given to the kernel address (4 s)
    Second,          \* lifetimes are whole seconds
    GuardTime        \* the status expires this much before the address (0.5 s)

ASSUME OwnerAssumption ==
    /\ None \notin Networks /\ None \notin Generations
    /\ Second \in Nat /\ GuardTime \in 1..(Second - 1)
    /\ KernelLifetime \in Nat /\ KernelLifetime % Second = 0 /\ KernelLifetime > 0

VARIABLES
    address,  \* the interface address: its network and remaining lifetime
    status,   \* the status file: generation, network, time until valid_until
    gen       \* the generation published last

owned == <<address, status, gen>>

NoAddress == [net |-> None, left |-> 0]
NoStatus == [gen |-> None, net |-> None, left |-> 0]

Lifetimes == {n \in 1..KernelLifetime : n % Second = 0}
Addresses == {NoAddress} \cup [net : Networks, left : 1..KernelLifetime]
StatusFiles == {NoStatus} \cup
    [gen : Generations, net : Networks, left : 0..(KernelLifetime - GuardTime)]

Current(s) == s.left > 0

\* The address may be refreshed with a lifetime rounded down to whole seconds
\* while the file still shows the previous heartbeat.
Slack == Second - 1 - GuardTime
Backed(s, a) == Current(s) => s.left <= Slack + (IF a.net = s.net THEN a.left ELSE 0)

Less(n) == IF n = 0 THEN 0 ELSE n - 1
AddressAfterTick == IF address.left <= 1 THEN NoAddress ELSE [address EXCEPT !.left = @ - 1]

Init == address = NoAddress /\ status = NoStatus /\ gen = None

Tick ==
    /\ address' = AddressAfterTick
    /\ status' = [status EXCEPT !.left = Less(@)]
    /\ UNCHANGED gen

\* The file is withdrawn; the address is kept, removed, or replaced unannounced.
Withhold ==
    /\ status' = NoStatus
    /\ address' \in {address, NoAddress} \cup [net : Networks, left : Lifetimes]
    /\ UNCHANGED gen

\* A heartbeat: the kernel address is given a lifetime and the file less than that.
Announce(g, n, lifetime) ==
    /\ address' = [net |-> n, left |-> lifetime]
    /\ status' = [gen |-> g, net |-> n, left |-> lifetime - GuardTime]

Confirm ==
    /\ status # NoStatus
    /\ \E lifetime \in Lifetimes : Announce(status.gen, status.net, lifetime)
    /\ UNCHANGED gen

\* A heartbeat that ends before the file is replaced.
Refresh(lifetime) ==
    /\ status # NoStatus
    /\ address' = [net |-> status.net, left |-> lifetime]
    /\ UNCHANGED <<status, gen>>

\* A configuration is published under a name that was not the last one's, even
\* if that one has been withdrawn.
Publish ==
    /\ gen' \in Generations \ {gen}
    /\ \E n \in Networks, lifetime \in Lifetimes : Announce(gen', n, lifetime)

Next ==
    \/ Tick \/ Withhold \/ Confirm \/ Publish
    \/ \E lifetime \in Lifetimes : Refresh(lifetime) /\ Backed(status', address')
Spec == Init /\ [][Next]_owned
===============================================================================
