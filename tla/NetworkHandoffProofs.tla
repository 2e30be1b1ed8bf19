-------------------------- MODULE NetworkHandoffProofs --------------------------
(* How long a gateway goes on without its address, and on which address it      *)
(* sends, over any agent that keeps the promise of NetworkOwner and for any     *)
(* limits and lifetimes.                                                        *)
EXTENDS NetworkHandoff, TLAPS

\* A lifetime is whole seconds, and a second outlasts a tick: the guard time is
\* a tick at least.
LEMMA LifetimeOutlastsTick ==
    /\ \A lifetime \in Lifetimes : lifetime \in 2..KernelLifetime /\ lifetime >= Second
    /\ Slack \in Nat
<1>1. ASSUME NEW n \in Nat \ {0}, n % Second = 0 PROVE n >= Second
  BY <1>1, OwnerAssumption
<1> QED
  BY <1>1, OwnerAssumption DEF Lifetimes, Slack

-------------------------------------------------------------------------------
\* While the clock is left alone, the file is backed as promised.
BackedUnlessStepped == ~stepped => Backed(status, address)

\* The gateway counts its loss from the moment its address is not there.  The
\* address may come back by itself only while there is no file.
LossCounted ==
    gone > 0 => phase = "running" /\ (address.net = initial.net => status = NoStatus)

\* An attempt has a network.
NetworkKnown ==
    phase \in {"starting", "running", "joining"}
        => initial.net \in Networks /\ initial.gen \in Generations

\* As long as an attempt is not cancelled, it is watched.
Watched == phase \in {"starting", "running"} /\ ~cancelled => watching

\* News of the gateway's own network is news of its address, which lasts until
\* the watcher has seen them.
NewsOfAddress ==
    watching /\ ~cancelled /\ news /\ NameOf(status) = initial
        => address.net = initial.net /\ (polled => address.left >= 2)

\* Without news, the loss is not longer than the silence.
SilenceCovers ==
    phase = "running" /\ ~cancelled /\ ~news /\ NameOf(status) = initial => gone <= silent

\* While the clock is left alone, a file that outlives its address runs out with it.
LossBounded ==
    phase = "running" /\ ~stepped /\ Current(status) /\ status.net = initial.net
        /\ address.net # initial.net => gone + status.left <= Slack + 1

HandoffInv ==
    /\ HandoffTypeOK /\ BackedUnlessStepped /\ LossCounted /\ NetworkKnown /\ Watched
    /\ NewsOfAddress /\ SilenceCovers /\ LossBounded /\ AddressLossBounded

-------------------------------------------------------------------------------
(* The limits and names as the proofs use them, without their arithmetic.       *)
LEMMA Limits ==
    /\ None \notin Networks /\ None \notin Generations
    /\ WatchLimit \in Nat /\ Horizon \in Nat /\ KernelLifetime \in Nat /\ Horizon >= KernelLifetime
BY OwnerAssumption, HandoffAssumption

(* What the invariant says of the data every step looks at.                     *)
LEMMA Facts ==
    ASSUME HandoffInv
    PROVE  /\ address.net \in Networks \cup {None} /\ address.left \in 0..KernelLifetime
           /\ address # NoAddress => address.net \in Networks /\ address.left >= 1
           /\ status.net \in Networks \cup {None} /\ status.left \in 0..(Horizon + 1)
           /\ status # NoStatus => status.net \in Networks /\ status.gen \in Generations
           /\ NameOf(status) = initial /\ phase \in {"starting", "running", "joining"}
                => status # NoStatus
           /\ watching => phase \in {"starting", "running", "joining"}
           /\ gone \in 0..(WatchLimit + 1) /\ silent \in 0..(WatchLimit + 1)
<1> USE Limits DEF HandoffInv, HandoffTypeOK
<1>1. address = NoAddress \/ address \in [net : Networks, left : 1..KernelLifetime]
  BY DEF Addresses
<1>2. status = NoStatus
      \/ status \in [gen : Generations, net : Networks, left : 0..(Horizon + 1)]
  OBVIOUS
<1> QED
  BY <1>1, <1>2 DEF NoAddress, NoStatus, NameOf, NetworkKnown

(* A read that succeeds has found a valid status.                               *)
LEMMA ReadFinds ==
    ASSUME NEW r, NEW ok \in BOOLEAN, Read(r, ok), ok
    PROVE  status # NoStatus /\ Valid(status)
<1>1. Valid(status)
  BY Zenon DEF Read
<1>2. NoStatus.left = 0
  BY DEF NoStatus
<1> QED
  BY <1>1, <1>2, HandoffAssumption DEF Valid

(* Reading the file and sending informs disturb nothing.                        *)
LEMMA StepReads ==
    ASSUME HandoffInv,
           \/ \E r \in Readers : Lstat(r)
           \/ \E ok \in BOOLEAN : InformBegins(ok)
           \/ InformEnds
    PROVE  HandoffInv'
<1> USE DEF HandoffInv, HandoffTypeOK
<1>1. UNCHANGED <<owned, phase, initial, used, failed, control, watcher, stepped, gone>>
  BY DEF Lstat, InformBegins, InformEnds, attempt
<1>2. sending' \in BOOLEAN
  BY DEF Lstat, InformBegins, InformEnds, attempt
<1>3. look' \in [Readers -> {"no", "file", "replaced"}]
  BY DEF Lstat, InformBegins, InformEnds, Read
<1> QED
  BY <1>1, <1>2, <1>3 DEF owned, control, watcher, BackedUnlessStepped, LossCounted,
     NetworkKnown, Watched, NewsOfAddress, SilenceCovers, LossBounded, AddressLossBounded

(* The steps of runManaged: an attempt begins uncounted and watched, and its    *)
(* gateway starts on a configured address.                                      *)
LEMMA StepRunManaged ==
    ASSUME HandoffInv,
           \/ \E ok \in BOOLEAN : FirstRead(ok) \/ NewSucceeds(ok) \/ NewFails(ok) \/ RunEnds(ok)
           \/ StartFails \/ Join \/ LeaveWaiting \/ Terminate
    PROVE  HandoffInv'
<1> USE Limits DEF HandoffInv
<1>1. UNCHANGED owned /\ UNCHANGED stepped
  BY DEF FirstRead, NewSucceeds, NewFails, RunEnds, StartFails, Join, LeaveWaiting,
     Terminate, Leave
<1>2. look' \in [Readers -> {"no", "file", "replaced"}]
  BY DEF HandoffTypeOK, FirstRead, NewSucceeds, NewFails, RunEnds, StartFails, Join,
     LeaveWaiting, Terminate, Read
<1>3. CASE \E ok \in BOOLEAN : FirstRead(ok)
  <2>1. PICK ok \in BOOLEAN : FirstRead(ok)
    BY <1>3
  <2>2. CASE ok
    <3>1. status # NoStatus /\ Valid(status)
      BY <2>1, <2>2, ReadFinds DEF FirstRead
    <3>2. NameOf(status).net \in Networks /\ NameOf(status).gen \in Generations
          /\ NameOf(status) \in Named
      BY <3>1, Facts DEF NameOf, Named
    <3>3. phase' = "starting" /\ initial' = NameOf(status) /\ cancelled' = FALSE
          /\ watching' = TRUE /\ polled' = FALSE /\ silent' = 0 /\ news' = FALSE
          /\ UNCHANGED <<used, failed, term, sending, gone>>
      BY <2>1, <2>2 DEF FirstRead
    <3>4. gone = 0
      BY <2>1, Facts DEF FirstRead, LossCounted
    <3>5. HandoffTypeOK'
      <4>1. /\ watching' \in BOOLEAN /\ polled' \in BOOLEAN /\ news' \in BOOLEAN
            /\ cancelled' \in BOOLEAN
        BY <3>3
      <4>2. phase' = "starting" /\ initial' \in Named /\ silent' = 0
            /\ UNCHANGED <<used, failed, term, sending, gone>>
        BY <3>2, <3>3
      <4> QED
        BY <1>1, <1>2, <4>1, <4>2 DEF HandoffTypeOK, owned
    <3> QED
      BY <1>1, <3>2, <3>3, <3>4, <3>5 DEF owned, BackedUnlessStepped, LossCounted,
         NetworkKnown, Watched, NewsOfAddress, SilenceCovers, LossBounded, AddressLossBounded
  <2>3. CASE ~ok
    BY <1>1, <1>2, <2>1, <2>3 DEF FirstRead, HandoffTypeOK, owned, watcher, BackedUnlessStepped,
       LossCounted, NetworkKnown, Watched, NewsOfAddress, SilenceCovers, LossBounded,
       AddressLossBounded
  <2> QED
    BY <2>2, <2>3
<1>4. CASE \E ok \in BOOLEAN : NewSucceeds(ok)
  <2>1. PICK ok \in BOOLEAN : NewSucceeds(ok)
    BY <1>4
  <2>2. /\ phase = "starting" /\ status # NoStatus /\ address.net = initial.net
        /\ phase' = "running" /\ used' = status.gen
        /\ UNCHANGED <<initial, failed, control, sending, watcher, gone>>
    BY <2>1, ReadFinds DEF NewSucceeds
  <2>3. gone = 0
    BY <2>2, Facts DEF LossCounted
  <2>4. HandoffTypeOK'
    BY <1>1, <1>2, <2>2, Facts DEF HandoffTypeOK, owned, control, watcher
  <2> QED
    BY <1>1, <2>2, <2>3, <2>4, Facts DEF owned, control, watcher, BackedUnlessStepped,
       LossCounted, NetworkKnown, Watched, NewsOfAddress, SilenceCovers, LossBounded,
       AddressLossBounded
<1>5. CASE StartFails \/ \E ok \in BOOLEAN : NewFails(ok) \/ RunEnds(ok)
  <2>1. /\ phase \in {"starting", "running"} /\ phase' = "joining"
        /\ failed' \in BOOLEAN /\ cancelled' = TRUE /\ sending' = FALSE /\ gone' = 0
        /\ UNCHANGED <<initial, used, term, watcher>>
    BY <1>5 DEF StartFails, NewFails, RunEnds, Leave, HandoffTypeOK
  <2>2. HandoffTypeOK'
    <3>1. /\ failed' \in BOOLEAN /\ cancelled' \in BOOLEAN /\ sending' \in BOOLEAN
          /\ phase' = "joining" /\ gone' = 0 /\ UNCHANGED <<initial, used, term, watcher>>
      BY <2>1
    <3> QED
      BY <1>1, <1>2, <3>1 DEF HandoffTypeOK, owned, watcher
  <2> QED
    BY <1>1, <2>1, <2>2 DEF owned, watcher, BackedUnlessStepped, LossCounted, NetworkKnown,
       Watched, NewsOfAddress, SilenceCovers, LossBounded, AddressLossBounded
<1>6. CASE Join \/ LeaveWaiting
  <2>1. /\ phase \in {"joining", "waiting"} /\ phase' \in {"exited", "waiting"} /\ ~watching
        /\ initial' \in Named /\ used' \in Generations \cup {None} /\ failed' \in BOOLEAN
        /\ UNCHANGED <<sending, control, watcher, gone>>
    <3>1. CASE Join
      <4>1. /\ phase' \in {"exited", "waiting"} /\ failed' \in BOOLEAN
            /\ initial' \in Named /\ used' \in Generations \cup {None}
        BY <3>1 DEF Join, NameOf, NoStatus, Named
      <4> QED
        BY <3>1, <4>1 DEF Join
    <3>2. CASE LeaveWaiting
      BY <3>2, Facts DEF LeaveWaiting, HandoffTypeOK
    <3> QED
      BY <1>6, <3>1, <3>2
  <2>2. HandoffTypeOK'
    BY <1>1, <1>2, <2>1 DEF HandoffTypeOK, owned, control, watcher
  <2>3. gone = 0
    BY <2>1, Facts DEF LossCounted
  <2> QED
    BY <1>1, <2>1, <2>2, <2>3 DEF owned, control, watcher, BackedUnlessStepped, LossCounted,
       NetworkKnown, Watched, NewsOfAddress, SilenceCovers, LossBounded, AddressLossBounded
<1>7. CASE Terminate
  BY <1>1, <1>7 DEF Terminate, HandoffTypeOK, owned, attempt, watcher, BackedUnlessStepped,
     LossCounted, NetworkKnown, Watched, NewsOfAddress, SilenceCovers, LossBounded,
     AddressLossBounded
<1> QED
  BY <1>3, <1>4, <1>5, <1>6, <1>7

(* The steps of the watcher: it goes on only if it has news of the address, or  *)
(* has been without for no longer than its limit.                               *)
LEMMA StepWatcher ==
    ASSUME HandoffInv, WatcherStops \/ \E ok \in BOOLEAN : WatcherPolls(ok)
    PROVE  HandoffInv'
<1> USE Limits DEF HandoffInv
<1>1. UNCHANGED <<owned, attempt, term, stepped, gone>>
  BY DEF WatcherStops, WatcherPolls, control
<1>2. look' \in [Readers -> {"no", "file", "replaced"}]
  BY DEF HandoffTypeOK, WatcherStops, WatcherPolls, Read
<1>3. CASE NotWatching /\ cancelled' = TRUE
  <2>1. HandoffTypeOK'
    <3>1. /\ watching' \in BOOLEAN /\ polled' \in BOOLEAN /\ news' \in BOOLEAN
          /\ cancelled' \in BOOLEAN /\ silent' = 0 /\ ~watching'
      BY <1>3 DEF NotWatching
    <3> QED
      BY <1>1, <1>2, <3>1 DEF HandoffTypeOK, owned, attempt
  <2> QED
    BY <1>1, <1>3, <2>1 DEF NotWatching, owned, attempt, BackedUnlessStepped, LossCounted,
       NetworkKnown, Watched, NewsOfAddress, SilenceCovers, LossBounded, AddressLossBounded
<1>4. CASE /\ watching /\ ~cancelled /\ NameOf(status) = initial
           /\ silent' = (IF news THEN 0 ELSE silent) /\ silent' <= WatchLimit
           /\ polled' = TRUE /\ news' = FALSE /\ UNCHANGED <<watching, cancelled>>
  <2>1. HandoffTypeOK'
    <3>1. polled' \in BOOLEAN /\ news' \in BOOLEAN
      BY <1>4
    <3>2. silent' \in 0..(WatchLimit + 1)
      BY <1>4 DEF HandoffTypeOK
    <3> QED
      BY <1>1, <1>2, <1>4, <3>1, <3>2 DEF HandoffTypeOK, owned, attempt
  <2>2. phase = "running" => gone <= silent'
    <3>1. CASE news
      <4>1. gone = 0
        BY <1>4, <3>1, Facts DEF NewsOfAddress, LossCounted
      <4> QED
        BY <1>4, <3>1, <4>1
    <3>2. CASE ~news
      BY <1>4, <3>2 DEF SilenceCovers
    <3> QED
      BY <3>1, <3>2
  <2>3. AddressLossBounded'
    BY <1>1, <1>4, <2>1, <2>2, Facts DEF AddressLossBounded, attempt, HandoffTypeOK
  <2> QED
    BY <1>1, <1>4, <2>1, <2>2, <2>3 DEF owned, attempt, BackedUnlessStepped, LossCounted,
       NetworkKnown, Watched, NewsOfAddress, SilenceCovers, LossBounded
<1>5. \/ NotWatching /\ cancelled' = TRUE
      \/ /\ watching /\ ~cancelled /\ NameOf(status) = initial
         /\ silent' = (IF news THEN 0 ELSE silent) /\ silent' <= WatchLimit
         /\ polled' = TRUE /\ news' = FALSE /\ UNCHANGED <<watching, cancelled>>
  <2>1. CASE WatcherStops
    BY <2>1 DEF WatcherStops, control, HandoffTypeOK
  <2>2. CASE \E ok \in BOOLEAN : WatcherPolls(ok)
    <3>1. PICK ok \in BOOLEAN : WatcherPolls(ok)
      BY <2>2
    <3>2. watching /\ ~cancelled
      BY <3>1 DEF WatcherPolls, Read, MayRead
    <3>3. CASE ~ok \/ ~SameNetwork(status) \/ TooSilent(IF news THEN 0 ELSE silent)
      BY <3>1, <3>3 DEF WatcherPolls
    <3>4. CASE ~(~ok \/ ~SameNetwork(status) \/ TooSilent(IF news THEN 0 ELSE silent))
      <4>1. /\ polled' = TRUE /\ news' = FALSE /\ silent' = (IF news THEN 0 ELSE silent)
            /\ UNCHANGED <<watching, cancelled>>
        BY <3>1, <3>4 DEF WatcherPolls
      <4>2. silent' <= WatchLimit
        BY <3>4, <4>1, Facts DEF TooSilent
      <4> QED
        BY <3>2, <3>4, <4>1, <4>2 DEF SameNetwork
    <3> QED
      BY <3>3, <3>4
  <2> QED
    BY <2>1, <2>2
<1> QED
  BY <1>3, <1>4, <1>5

(* What the agent announces is a configured address with news of it, which      *)
(* last until the watcher has read them.                                        *)
LEMMA StepWrites ==
    ASSUME HandoffInv, AgentWrites
    PROVE  HandoffInv'
<1> USE Limits DEF HandoffInv
<1>1. PICK n \in Networks, g \in Generations, lifetime \in Lifetimes :
          /\ address' = [net |-> n, left |-> lifetime]
          /\ status' = [gen |-> g, net |-> n, left |-> lifetime - GuardTime]
  <2>1. CASE Confirm
    BY <2>1, Facts DEF Confirm, Announce
  <2>2. CASE Publish
    BY <2>2 DEF Publish, Announce
  <2> QED
    BY <2>1, <2>2 DEF AgentWrites
<1>2. /\ UNCHANGED <<attempt, control, watching, polled, silent>>
      /\ gone' = (IF address'.net = initial.net THEN 0 ELSE gone)
  BY DEF AgentWrites
<1>3. news' \in BOOLEAN /\ stepped' \in BOOLEAN /\ ~stepped' /\ (watching => news')
      /\ (~watching => ~news')
  BY DEF AgentWrites, HandoffTypeOK
<1>4. look' \in [Readers -> {"no", "file", "replaced"}]
  BY DEF AgentWrites, Overtaken, HandoffTypeOK
<1>5. /\ lifetime \in 2..KernelLifetime /\ GuardTime \in 1..(lifetime - 1)
      /\ lifetime - GuardTime \in 1..Horizon /\ lifetime - GuardTime <= Slack + lifetime
  BY LifetimeOutlastsTick, OwnerAssumption, HandoffAssumption
<1>6. HandoffTypeOK'
  <2>1. address' \in Addresses /\ status' # NoStatus
    BY <1>1, <1>5 DEF Addresses, NoStatus
  <2>2. status' \in [gen : Generations, net : Networks, left : 0..(Horizon + 1)]
    BY <1>1, <1>5
  <2> QED
    BY <1>2, <1>3, <1>4, <2>1, <2>2, Facts DEF HandoffTypeOK, attempt, control
<1>7. BackedUnlessStepped'
  BY <1>1, <1>5 DEF BackedUnlessStepped, Backed
<1>8. LossCounted' /\ NetworkKnown' /\ Watched' /\ AddressLossBounded'
  BY <1>1, <1>2, Facts DEF LossCounted, NetworkKnown, Watched, AddressLossBounded, attempt, control
<1>9. NewsOfAddress' /\ LossBounded'
  BY <1>1, <1>2, <1>5 DEF NewsOfAddress, LossBounded, NameOf, attempt, control
<1>10. SilenceCovers'
  BY <1>2, <1>3 DEF SilenceCovers, Watched, attempt, control
<1> QED
  BY <1>6, <1>7, <1>8, <1>9, <1>10

(* A heartbeat that ends before the file is replaced restores the address of    *)
(* the file.                                                                    *)
LEMMA StepRefreshes ==
    ASSUME HandoffInv, AgentRefreshes
    PROVE  HandoffInv'
<1> USE Limits DEF HandoffInv
<1>1. PICK lifetime \in Lifetimes : Refresh(lifetime)
  BY DEF AgentRefreshes
<1>2. /\ status # NoStatus /\ address' = [net |-> status.net, left |-> lifetime]
      /\ UNCHANGED <<status, attempt, control, watcher, look, stepped>>
      /\ gone' = (IF address'.net = initial.net THEN 0 ELSE gone)
      /\ stepped \/ Backed(status, address')
  BY <1>1 DEF AgentRefreshes, Refresh
<1>3. lifetime \in 2..KernelLifetime
  BY LifetimeOutlastsTick
<1>4. HandoffTypeOK'
  <2>1. address' \in Addresses
    BY <1>2, <1>3, Facts DEF Addresses
  <2> QED
    BY <1>2, <2>1, Facts DEF HandoffTypeOK, attempt, control, watcher
<1>5. BackedUnlessStepped'
  BY <1>2 DEF BackedUnlessStepped, Backed
<1>6. LossCounted' /\ NetworkKnown' /\ Watched' /\ AddressLossBounded'
  BY <1>2, Facts DEF LossCounted, NetworkKnown, Watched, AddressLossBounded, attempt, control,
     watcher
<1>7. NewsOfAddress' /\ SilenceCovers' /\ LossBounded'
  BY <1>2, <1>3, Facts DEF NewsOfAddress, SilenceCovers, LossBounded, NameOf, attempt, control,
     watcher
<1> QED
  BY <1>4, <1>5, <1>6, <1>7

(* Without a file the address may be anything.                                  *)
LEMMA StepWithdraws ==
    ASSUME HandoffInv, AgentWithdraws
    PROVE  HandoffInv'
<1> USE Limits DEF HandoffInv
<1>1. /\ status' = NoStatus /\ UNCHANGED <<attempt, control, watcher, stepped, gone>>
      /\ address' \in {address, NoAddress} \cup [net : Networks, left : Lifetimes]
  BY DEF AgentWithdraws, Withhold
<1>2. address' \in Addresses
  <2>1. Lifetimes \subseteq 1..KernelLifetime
    BY DEF Lifetimes
  <2> QED
    BY <1>1, <2>1 DEF Addresses, HandoffTypeOK
<1>3. HandoffTypeOK'
  <2>1. look' \in [Readers -> {"no", "file", "replaced"}]
    BY DEF AgentWithdraws, Overtaken, HandoffTypeOK
  <2> QED
    BY <1>1, <1>2, <2>1 DEF HandoffTypeOK, attempt, control, watcher
<1>4. NoStatus.left = 0 /\ NameOf(status').gen = None
  BY <1>1 DEF NoStatus, NameOf
<1> QED
  BY <1>1, <1>3, <1>4, Facts DEF BackedUnlessStepped, Backed, Current, LossCounted, NetworkKnown,
     Watched, NewsOfAddress, SilenceCovers, LossBounded, AddressLossBounded, attempt, control,
     watcher

(* The wall clock disturbs only what is promised while it is left alone.        *)
LEMMA StepStepClock ==
    ASSUME HandoffInv, StepClock
    PROVE  HandoffInv'
<1> USE Limits DEF HandoffInv
<1>1. PICK n \in 0..(Horizon + 1) : status' = [status EXCEPT !.left = n]
  BY DEF StepClock
<1>2. /\ status # NoStatus /\ UNCHANGED <<address, gen, attempt, control, watcher, look, gone>>
  BY DEF StepClock
<1>3. stepped' /\ stepped' \in BOOLEAN
  BY DEF StepClock
<1>4. /\ status' \in [gen : Generations, net : Networks, left : 0..(Horizon + 1)]
      /\ status'.gen = status.gen /\ status'.net = status.net /\ NameOf(status') = NameOf(status)
  <2>1. status \in [gen : Generations, net : Networks, left : 0..(Horizon + 1)]
    BY <1>2 DEF HandoffTypeOK
  <2> QED
    BY <1>1, <2>1 DEF NameOf
<1>5. HandoffTypeOK'
  BY <1>2, <1>3, <1>4 DEF HandoffTypeOK, attempt, control, watcher
<1> QED
  BY <1>2, <1>3, <1>4, <1>5 DEF BackedUnlessStepped, LossCounted, NetworkKnown,
     Watched, NewsOfAddress, SilenceCovers, LossBounded, AddressLossBounded, attempt, control,
     watcher

(* A tick runs the address and the status down together, and counts the loss no *)
(* faster than the silence.                                                     *)
LEMMA StepPass ==
    ASSUME HandoffInv, Pass
    PROVE  HandoffInv'
<1> USE Limits DEF HandoffInv
<1>1. /\ UNCHANGED <<attempt, control, watching, news, look, stepped>>
      /\ watching => polled \/ cancelled
      /\ silent' = (IF watching /\ silent <= WatchLimit THEN silent + 1 ELSE silent)
      /\ gone' = (IF phase # "running" \/ address'.net = initial.net THEN 0
                  ELSE IF gone <= WatchLimit THEN gone + 1 ELSE gone)
  BY DEF Pass
<1>2. polled' \in BOOLEAN /\ ~polled'
  BY DEF Pass
<1>3. \/ address' = NoAddress /\ address.left <= 1
      \/ /\ address' = [net |-> address.net, left |-> address.left - 1]
         /\ address.left > 1 /\ address # NoAddress
  <2>1. address = NoAddress \/ address \in [net : Networks, left : 1..KernelLifetime]
    BY DEF HandoffTypeOK, Addresses
  <2> QED
    BY <2>1 DEF Pass, Tick, AddressAfterTick, NoAddress
<1>4. \/ status' = status /\ status.left = 0
      \/ /\ status' = [gen |-> status.gen, net |-> status.net, left |-> status.left - 1]
         /\ status.left > 0 /\ status # NoStatus
  <2>1. status = NoStatus
        \/ status \in [gen : Generations, net : Networks, left : 0..(Horizon + 1)]
    BY DEF HandoffTypeOK
  <2> QED
    BY <2>1 DEF Pass, Tick, Less, NoStatus
<1>5. HandoffTypeOK'
  <2>1. address' \in Addresses
    BY <1>3, Facts DEF Addresses
  <2>2. status' \in {NoStatus} \cup [gen : Generations, net : Networks, left : 0..(Horizon + 1)]
    BY <1>4, Facts DEF HandoffTypeOK
  <2>3. silent' \in 0..(WatchLimit + 1) /\ gone' \in 0..(WatchLimit + 1)
    BY <1>1, Facts
  <2> QED
    BY <1>1, <1>2, <2>1, <2>2, <2>3 DEF HandoffTypeOK, attempt, control
<1>6. NameOf(status') = NameOf(status) /\ status'.net = status.net
      /\ (status' = NoStatus <=> status = NoStatus)
  <2>1. status'.gen = status.gen /\ status'.net = status.net
    BY <1>4
  <2>2. status # NoStatus => status' # NoStatus
    BY <2>1, Facts DEF NoStatus
  <2> QED
    BY <1>4, <2>1, <2>2 DEF NameOf, NoStatus
<1>7. Slack \in Nat
  BY LifetimeOutlastsTick
<1>8. BackedUnlessStepped'
  BY <1>1, <1>3, <1>4, <1>7, Facts DEF BackedUnlessStepped, Backed, Current, NoAddress
<1>9. LossCounted' /\ NetworkKnown' /\ Watched'
  BY <1>1, <1>3, <1>6, Facts DEF LossCounted, NetworkKnown, Watched, NoAddress, attempt, control
<1>10. NewsOfAddress'
  BY <1>1, <1>2, <1>3, <1>6, Facts DEF NewsOfAddress, attempt, control
<1>11. SilenceCovers'
  BY <1>1, <1>6, Facts DEF SilenceCovers, Watched, attempt, control
<1>12. LossBounded'
  <2> SUFFICES ASSUME phase' = "running", ~stepped', Current(status'),
                      status'.net = initial'.net, address'.net # initial'.net
               PROVE  (gone + status.left <= Slack + 1 /\ gone' <= gone + 1)
    BY <1>1, <1>4, <1>5, <1>7, Facts DEF LossBounded, Current, HandoffTypeOK
  <2>1. /\ phase = "running" /\ ~stepped /\ Current(status) /\ status # NoStatus
        /\ status.net = initial.net /\ address'.net # initial.net
    BY <1>1, <1>4, <1>6, Facts DEF Current, attempt
  <2>2. CASE address.net = initial.net
    BY <1>1, <1>3, <1>7, <2>1, <2>2, Facts DEF LossCounted, BackedUnlessStepped, Backed
  <2>3. CASE address.net # initial.net
    BY <1>1, <2>1, <2>3, Facts DEF LossBounded
  <2> QED
    BY <2>2, <2>3
<1> QED
  BY <1>2, <1>5, <1>8, <1>9, <1>10, <1>11, <1>12 DEF AddressLossBounded

-------------------------------------------------------------------------------
(* The invariant is kept by every step of the gateway, of its watcher, of the   *)
(* agent and of the clocks.                                                     *)
LEMMA StepHandoff == HandoffInv /\ [HandoffNext]_vars => HandoffInv'
<1> SUFFICES ASSUME HandoffInv, [HandoffNext]_vars PROVE HandoffInv'
  OBVIOUS
<1>1. CASE UNCHANGED vars
  BY <1>1 DEF vars, owned, attempt, control, watcher, HandoffInv, HandoffTypeOK,
     BackedUnlessStepped, LossCounted, NetworkKnown, Watched, NewsOfAddress, SilenceCovers,
     LossBounded, AddressLossBounded
<1>2. CASE \/ \E r \in Readers : Lstat(r)
           \/ \E ok \in BOOLEAN : InformBegins(ok)
           \/ InformEnds
  BY <1>2, StepReads
<1>3. CASE \/ \E ok \in BOOLEAN : FirstRead(ok) \/ NewSucceeds(ok) \/ NewFails(ok) \/ RunEnds(ok)
           \/ StartFails \/ Join \/ LeaveWaiting \/ Terminate
  BY <1>3, StepRunManaged
<1>4. CASE WatcherStops \/ \E ok \in BOOLEAN : WatcherPolls(ok)
  BY <1>4, StepWatcher
<1>5. CASE AgentWrites
  BY <1>5, StepWrites
<1>6. CASE AgentRefreshes
  BY <1>6, StepRefreshes
<1>7. CASE AgentWithdraws
  BY <1>7, StepWithdraws
<1>8. CASE Pass
  BY <1>8, StepPass
<1>9. CASE StepClock
  BY <1>9, StepStepClock
<1> QED
  BY <1>1, <1>2, <1>3, <1>4, <1>5, <1>6, <1>7, <1>8, <1>9 DEF HandoffNext

\* A gateway that waits for its first status has lost nothing.
LEMMA InitHandoff == HandoffInit => HandoffInv
<1> SUFFICES ASSUME HandoffInit PROVE HandoffInv
  OBVIOUS
<1> USE Limits DEF HandoffInit, Init
<1>1. HandoffTypeOK
  <2>1. /\ failed \in BOOLEAN /\ cancelled \in BOOLEAN /\ term \in BOOLEAN /\ sending \in BOOLEAN
        /\ watching \in BOOLEAN /\ polled \in BOOLEAN /\ news \in BOOLEAN /\ stepped \in BOOLEAN
        /\ ~watching
    OBVIOUS
  <2>2. initial \in Named /\ used \in Generations \cup {None}
    BY DEF NameOf, NoStatus, Named
  <2>3. look \in [Readers -> {"no", "file", "replaced"}]
    OBVIOUS
  <2> QED
    BY <2>1, <2>2, <2>3 DEF HandoffTypeOK, Addresses
<1>2. ~Current(status) /\ ~watching /\ phase = "waiting" /\ gone = 0
  BY DEF Current, NoStatus
<1> QED
  BY <1>1, <1>2 DEF HandoffInv, BackedUnlessStepped, Backed, LossCounted, NetworkKnown, Watched,
     NewsOfAddress, SilenceCovers, LossBounded, AddressLossBounded

\* The invariant the theorems about the handoff follow from.
LEMMA InvariantHandoff == HandoffSpec => []HandoffInv
BY InitHandoff, StepHandoff, PTL DEF HandoffSpec

(* The variables of runManaged, of the watcher and of the agent keep their      *)
(* types, and no watcher outlives the attempt it belongs to (managed.go:56-90). *)
THEOREM HandoffTypeCorrect == HandoffSpec => []HandoffTypeOK
<1>1. HandoffInv => HandoffTypeOK
  BY DEF HandoffInv
<1> QED
  BY <1>1, InvariantHandoff, PTL

(* Whatever happens to the wall clock, a gateway does not go on without its     *)
(* address for longer than the silence the watcher allows (managed.go:85-88).   *)
THEOREM LossIsBounded == HandoffSpec => []AddressLossBounded
<1>1. HandoffInv => AddressLossBounded
  BY DEF HandoffInv
<1> QED
  BY <1>1, InvariantHandoff, PTL

(* While the clock is left alone, an inform begins only on an address that is   *)
(* configured, or was until no longer ago than whole seconds are rounded down   *)
(* by, less the guard time (gateway.go:422, run_linux.go:61-65).                *)
THEOREM SendsLive == HandoffSpec => SendsOnLiveAddress
<1>1. HandoffInv /\ [HandoffNext]_vars
        => [(sending' /\ ~sending /\ ~stepped) => gone <= Slack]_vars
  <2> SUFFICES ASSUME HandoffInv, [HandoffNext]_vars, sending', ~sending, ~stepped
               PROVE  gone <= Slack
    OBVIOUS
  <2>1. PICK ok \in BOOLEAN : InformBegins(ok)
    <3>1. ~UNCHANGED vars
      BY DEF vars, attempt
    <3> QED
      BY <3>1 DEF HandoffNext, Lstat, FirstRead, NewSucceeds, NewFails, RunEnds, StartFails,
         Leave, Join, LeaveWaiting, Terminate, InformEnds, WatcherPolls, WatcherStops,
         AgentWrites, AgentRefreshes, AgentWithdraws, Pass, StepClock, attempt
  <2>2. ok /\ phase = "running" /\ status.net = initial.net
    BY <2>1 DEF InformBegins
  <2>3. status # NoStatus /\ Valid(status)
    BY <2>1, <2>2, ReadFinds DEF InformBegins
  <2>4. CASE gone = 0
    BY <2>4, LifetimeOutlastsTick
  <2>5. CASE gone > 0
    <3>1. address.net # initial.net
      BY <2>3, <2>5 DEF HandoffInv, LossCounted
    <3>2. gone + status.left <= Slack + 1
      BY <2>2, <2>3, <3>1, Limits DEF HandoffInv, LossBounded, Valid, Current
    <3> QED
      BY <2>3, <3>2, Facts, Limits, LifetimeOutlastsTick DEF Valid
  <2> QED
    BY <2>4, <2>5, Facts, Limits
<1> QED
  BY <1>1, InvariantHandoff, PTL DEF HandoffSpec, SendsOnLiveAddress

===============================================================================
