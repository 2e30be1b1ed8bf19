---------------------------- MODULE NetworkHandoff ----------------------------
(***************************************************************************)
(* The gateway side of managed addressing: runManaged waits for a network  *)
(* status, starts a gateway on its address and watches the status file;    *)
(* when the network changes or its heartbeat stops, the gateway is         *)
(* cancelled, joined and started again.  The agent is any process that     *)
(* keeps the promise of NetworkOwner.  Reading the file takes two steps,   *)
(* Lstat and Open, and fails if the file is replaced in between.  The wall *)
(* clock, by which a status expires, may be set; the watcher counts the    *)
(* silence since the last heartbeat on the monotonic clock.                *)
(***************************************************************************)
EXTENDS NetworkOwner

CONSTANTS
    WatchLimit,  \* longest silence between heartbeats (3 s)
    Horizon      \* a status valid for longer than this is refused (5 s)

ASSUME HandoffAssumption == WatchLimit \in Nat /\ Horizon \in Nat /\ Horizon >= KernelLifetime

VARIABLES
    phase,      \* where runManaged is
    initial,    \* the status the attempt started from
    used,       \* the generation the gateway was built with
    failed,     \* the attempt ended with an error of its own
    cancelled,  \* the context of the attempt
    term,       \* the process was asked to stop
    sending,    \* an inform is under way
    watching,   \* the watcher runs
    polled,     \* it has read the file since the last tick
    silent,     \* its time since the sequence advanced
    news,       \* the sequence has advanced since it last looked
    look,       \* per reader: before Lstat, after it, or overtaken by a rename
    stepped,    \* the wall clock was set since the last heartbeat
    gone        \* time the gateway has been without its address

attempt == <<phase, initial, used, failed, sending>>
control == <<cancelled, term>>
watcher == <<watching, polled, silent, news>>
vars == <<owned, attempt, control, watcher, look, stepped, gone>>

Readers == {"watcher", "gateway"}
Named == [gen : Generations \cup {None}, net : Networks \cup {None}]
NameOf(s) == [gen |-> s.gen, net |-> s.net]

HandoffTypeOK ==
    /\ address \in Addresses
    /\ status \in {NoStatus} \cup [gen : Generations, net : Networks, left : 0..(Horizon + 1)]
    /\ phase \in {"waiting", "starting", "running", "joining", "exited"}
    /\ initial \in Named /\ used \in Generations \cup {None}
    /\ failed \in BOOLEAN /\ cancelled \in BOOLEAN /\ term \in BOOLEAN /\ sending \in BOOLEAN
    /\ watching \in BOOLEAN /\ polled \in BOOLEAN /\ news \in BOOLEAN /\ stepped \in BOOLEAN
    /\ silent \in 0..(WatchLimit + 1) /\ gone \in 0..(WatchLimit + 1)
    /\ look \in [Readers -> {"no", "file", "replaced"}]
    /\ watching => phase \in {"starting", "running", "joining"}

HandoffInit ==
    /\ Init
    /\ phase = "waiting" /\ initial = NameOf(NoStatus) /\ used = None
    /\ failed = FALSE /\ cancelled = FALSE /\ term = FALSE /\ sending = FALSE
    /\ watching = FALSE /\ polled = FALSE /\ silent = 0 /\ news = FALSE
    /\ look = [r \in Readers |-> "no"] /\ stepped = FALSE /\ gone = 0

-------------------------------------------------------------------------------
\* Reading the status file.

Valid(s) == s.left \in 1..Horizon

MayRead(r) ==
    IF r = "watcher" THEN watching /\ ~cancelled /\ ~polled
    ELSE phase \in {"waiting", "starting"} \/ (phase = "running" /\ ~sending)

Lstat(r) ==
    /\ MayRead(r) /\ look[r] = "no"
    /\ status # NoStatus
    /\ look' = [look EXCEPT ![r] = "file"]
    /\ UNCHANGED <<owned, attempt, control, watcher, stepped, gone>>

\* The result of ReadStatus: there is no file, or what Open finds.
Read(r, ok) ==
    /\ MayRead(r)
    /\ \/ look[r] = "no" /\ status = NoStatus /\ ok = FALSE
       \/ look[r] # "no" /\ ok = (look[r] = "file" /\ Valid(status))
    /\ look' = [look EXCEPT ![r] = "no"]

Overtaken == look' = [r \in Readers |-> IF look[r] = "no" THEN "no" ELSE "replaced"]

-------------------------------------------------------------------------------
\* runManaged.

FirstRead(ok) ==
    /\ phase = "waiting" /\ ~term /\ Read("gateway", ok)
    /\ IF ok
       THEN /\ phase' = "starting" /\ initial' = NameOf(status)
            /\ cancelled' = FALSE
            /\ watching' = TRUE /\ polled' = FALSE /\ silent' = 0 /\ news' = FALSE
       ELSE UNCHANGED <<phase, initial, cancelled, watcher>>
    /\ UNCHANGED <<owned, used, failed, term, sending, stepped, gone>>

\* A mistaken end that waits for the watcher before it cancels.
LeaveUncancelled(err) ==
    /\ phase' = "joining" /\ failed' = err /\ sending' = FALSE
    /\ gone' = 0
    /\ UNCHANGED <<owned, initial, used, control, watcher, stepped>>

\* The attempt is over: its context is cancelled, then the watcher is awaited.
Leave(err) ==
    /\ phase' = "joining" /\ failed' = err /\ cancelled' = TRUE /\ sending' = FALSE
    /\ gone' = 0
    /\ UNCHANGED <<owned, initial, used, term, watcher, stepped>>

RunEnds(err) ==
    /\ phase = "running" /\ (cancelled \/ err)
    /\ Leave(err /\ ~cancelled)
    /\ look' = [look EXCEPT !["gateway"] = "no"]

\* gateway.New reads the status again and looks up the address.
NewSucceeds(ok) ==
    /\ phase = "starting" /\ Read("gateway", ok)
    /\ ok /\ status.net = initial.net /\ address.net = initial.net
    /\ phase' = "running" /\ used' = status.gen
    /\ UNCHANGED <<owned, initial, failed, control, sending, watcher, stepped, gone>>

NewFails(ok) ==
    /\ phase = "starting" /\ Read("gateway", ok)
    /\ ~(ok /\ status.net = initial.net /\ address.net = initial.net)
    /\ Leave(TRUE)

StartFails ==
    /\ phase = "starting" /\ Leave(TRUE)
    /\ look' = [look EXCEPT !["gateway"] = "no"]

\* A mistaken end that does not wait for the watcher.
JoinAtOnce ==
    /\ phase = "joining"
    /\ phase' = IF failed \/ term THEN "exited" ELSE "waiting"
    /\ initial' = NameOf(NoStatus) /\ used' = None /\ failed' = FALSE
    /\ UNCHANGED <<owned, sending, control, watcher, look, stepped, gone>>

\* The variables of the attempt are forgotten with it.
Join ==
    /\ phase = "joining" /\ ~watching
    /\ phase' = IF failed \/ term THEN "exited" ELSE "waiting"
    /\ initial' = NameOf(NoStatus) /\ used' = None /\ failed' = FALSE
    /\ UNCHANGED <<owned, sending, control, watcher, look, stepped, gone>>

LeaveWaiting ==
    /\ phase = "waiting" /\ term /\ phase' = "exited"
    /\ look' = [look EXCEPT !["gateway"] = "no"]
    /\ UNCHANGED <<owned, initial, used, failed, sending, control, watcher, stepped, gone>>

\* SIGTERM cancels the parent of the attempt's context.
Terminate ==
    /\ phase # "exited" /\ ~term /\ term' = TRUE /\ cancelled' = TRUE
    /\ UNCHANGED <<owned, attempt, watcher, look, stepped, gone>>

-------------------------------------------------------------------------------
\* The gateway and its watcher.

\* A mistaken guard that remembers the network the gateway started on.
InformBeginsUnchecked(ok) ==
    /\ phase = "running" /\ Read("gateway", ok)
    /\ sending' = ~cancelled
    /\ UNCHANGED <<owned, phase, initial, used, failed, control, watcher, stepped, gone>>

\* The guard of InformOnce; an exchange under a cancelled context sends nothing.
InformBegins(ok) ==
    /\ phase = "running" /\ Read("gateway", ok)
    /\ sending' = (ok /\ status.net = initial.net /\ status.gen = used /\ ~cancelled)
    /\ UNCHANGED <<owned, phase, initial, used, failed, control, watcher, stepped, gone>>

InformEnds ==
    /\ sending /\ sending' = FALSE
    /\ UNCHANGED <<owned, phase, initial, used, failed, control, watcher, look, stepped, gone>>

\* A mistaken comparison that does not notice a withdrawal and reinstallation.
SameAddress(s) == s.net = initial.net

SameNetwork(s) == NameOf(s) = initial

\* A mistaken bound on the silence, left to the expiry of the status.
SilentWithout(time) == FALSE

TooSilent(time) == time > WatchLimit

NotWatching == watching' = FALSE /\ polled' = FALSE /\ silent' = 0 /\ news' = FALSE

WatcherPolls(ok) ==
    /\ Read("watcher", ok)
    /\ LET time == IF news THEN 0 ELSE silent
       IN  IF ~ok \/ ~SameNetwork(status) \/ TooSilent(time)
           THEN NotWatching /\ cancelled' = TRUE
           ELSE /\ polled' = TRUE /\ news' = FALSE /\ silent' = time
                /\ UNCHANGED <<watching, cancelled>>
    /\ UNCHANGED <<owned, attempt, term, stepped, gone>>

\* A mistaken watcher that does not notice the end of its context.
WatcherSleeps == watching /\ cancelled /\ UNCHANGED vars

WatcherStops ==
    /\ watching /\ cancelled
    /\ NotWatching /\ look' = [look EXCEPT !["watcher"] = "no"]
    /\ UNCHANGED <<owned, attempt, control, stepped, gone>>

-------------------------------------------------------------------------------
\* The agent and the clocks.

\* A heartbeat or a new configuration: a rename.
AgentWrites ==
    /\ Confirm \/ Publish
    /\ Overtaken /\ news' = watching /\ stepped' = FALSE
    /\ gone' = IF address'.net = initial.net THEN 0 ELSE gone
    /\ UNCHANGED <<attempt, control, watching, polled, silent>>

\* Nothing is promised about a status moved by the clock.
AgentRefreshes ==
    /\ \E lifetime \in Lifetimes : Refresh(lifetime)
    /\ stepped \/ Backed(status, address')
    /\ gone' = IF address'.net = initial.net THEN 0 ELSE gone
    /\ UNCHANGED <<attempt, control, watcher, look, stepped>>

AgentWithdraws ==
    /\ Withhold
    /\ Overtaken
    /\ UNCHANGED <<attempt, control, watcher, stepped, gone>>

\* Time passes; the watcher reads the file at least once per tick.
Pass ==
    /\ Tick
    /\ \A r \in Readers : look[r] = "no"
    /\ watching => polled \/ cancelled
    /\ polled' = FALSE
    /\ silent' = IF watching /\ silent <= WatchLimit THEN silent + 1 ELSE silent
    /\ gone' = IF phase # "running" \/ address'.net = initial.net THEN 0
               ELSE IF gone <= WatchLimit THEN gone + 1 ELSE gone
    /\ UNCHANGED <<attempt, control, watching, news, look, stepped>>

\* The clock is set: the status is expired, valid for long, or for too long.
StepClock ==
    /\ status # NoStatus
    /\ \E n \in {0, Horizon, Horizon + 1} : status' = [status EXCEPT !.left = n]
    /\ stepped' = TRUE
    /\ UNCHANGED <<address, gen, attempt, control, watcher, look, gone>>

-------------------------------------------------------------------------------
HandoffNext ==
    \/ \E r \in Readers : Lstat(r)
    \/ \E ok \in BOOLEAN : FirstRead(ok) \/ NewSucceeds(ok) \/ NewFails(ok) \/ RunEnds(ok)
    \/ \E ok \in BOOLEAN : InformBegins(ok) \/ WatcherPolls(ok)
    \/ StartFails \/ Join \/ LeaveWaiting \/ Terminate \/ InformEnds \/ WatcherStops
    \/ AgentWrites \/ AgentRefreshes \/ AgentWithdraws \/ Pass \/ StepClock

\* The steps of the watcher, and the reads of the gateway's goroutines.
Watch == Lstat("watcher") \/ WatcherStops \/ \E ok \in BOOLEAN : WatcherPolls(ok)
Look ==
    \/ Lstat("gateway")
    \/ \E ok \in BOOLEAN : FirstRead(ok) \/ NewSucceeds(ok) \/ NewFails(ok) \/ InformBegins(ok)

\* The Go scheduler runs every goroutine that can proceed, and time passes
\* however often the file is read.  The reads of a waiting process (ten a
\* second) do not all collide with heartbeats (one a second).  Nothing is
\* assumed of the agent.
Fairness ==
    /\ WF_vars(Watch) /\ WF_vars(Look)
    /\ WF_vars(RunEnds(FALSE)) /\ WF_vars(Join) /\ WF_vars(LeaveWaiting)
    /\ SF_vars(Pass) /\ SF_vars(FirstRead(TRUE))

HandoffSpec == HandoffInit /\ [][HandoffNext]_vars /\ Fairness

-------------------------------------------------------------------------------
(* While the clock is left alone, an inform is sent only on an address that   *)
(* is configured, or was moments ago: what InformOnce checks (gateway.go:422) *)
(* and what the agent promises fit together.                                  *)
SendsOnLiveAddress == [][(sending' /\ ~sending /\ ~stepped) => gone <= Slack]_vars

(* Whatever happens to the wall clock, a gateway does not go on without its   *)
(* address for longer than the silence the watcher allows (managed.go:85-88). *)
AddressLossBounded == (phase = "running" /\ ~cancelled /\ polled) => gone <= WatchLimit

(* A gateway whose network is lost or replaced does not stay: the status is   *)
(* again the one it started from, or it stops (managed.go:71-90).             *)
StopsWhenLost == []<>(phase # "running" \/ (Valid(status) /\ NameOf(status) = initial))

(* A process asked to stop ends: the context is cancelled and every goroutine *)
(* of the attempt is joined (managed.go:42-45).                               *)
StopsOnRequest == term ~> phase = "exited"

(* If the agent keeps a valid status in place, a gateway comes back after     *)
(* every stop, unless it ended with an error of its own (managed.go:20-56).   *)
BackInService == <>[]Valid(status) => ([]<>(phase = "running") \/ <>(phase = "exited"))

(* docs/managed-network.md:34: "An unchanged renewal does not restart the     *)
(* gateway."  A running gateway is cancelled only if it is asked to, or its   *)
(* status is gone, invalid, another one, or was not renewed in time.          *)
UnchangedRenewalKeepsGateway ==
    [][(phase = "running" /\ cancelled' /\ ~cancelled /\ ~term' /\ phase' = "running")
        => (~Valid(status) \/ NameOf(status) # initial \/ silent > WatchLimit)]_vars
===============================================================================
