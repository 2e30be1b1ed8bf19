# Specifications of the NUT to UniFi UPS gateway

The gateway reads a UPS through a NUT server and presents it to a UniFi
controller as a power device. It has to be adopted, keep its adoption state
across restarts, and treat what comes over the network with care: the protocol
(TNBU "inform") has no freshness, so any authentic response may arrive late,
twice or out of order. With managed addressing, a second process gets the
gateway's address by DHCP and hands it over through a status file, and both have
to agree, while either may die, on when the address may be used. These TLA+
modules model the program's state: adoption and replay protection, its files,
the goroutines of one run, the managed network, and the guard of its release
workflow. TLC checks them on small instances and TLAPS proves the most important
properties for all instances.

Paths below are relative to `src/`. `PROJECT.json` maps each definition to the
lines it stands for, lists the runs, the theorems, the hazards and the findings.

## The system

| Component | State it keeps | Operations | Talks to |
|---|---|---|---|
| Inform gateway (`internal/gateway/gateway.go`, `receipt.go`, `firmware.go`) | latest NUT snapshot, adoption state, replay window, reported markers, receipts, write times, blocked flags | `New`, `PollOnce`, `InformOnce`, `Run` and its loops, announcements | all of the below |
| Adoption rules (`internal/unifi/inform/adoption.go`, `receipt.go`, `firmware.go`) | none | `ApplyControllerResponse`, `ClassifyConfigReceipt`, `ClassifyFirmwareTarget`, `Validate` | called by the gateway |
| State and receipt files (`internal/state`) | three files: adoption state, configuration receipt, firmware receipt | `LoadOrCreate`, `Save`, `LoadReceipt`, `SaveReceipt`, their firmware twins, `savePrivateBytes` | file system |
| Controller client (`internal/gateway/controller.go`) | none | `Exchange`, `AuthorizeTransition` | the controller, over HTTP(S) |
| Health monitor (`internal/health`) | results of polls and informs, receipt statuses, connection slots | `Mark...`, `Record...`, `Snapshot`, limited `Accept`/`Close` | written by the gateway, read over HTTP |
| Configuration (`internal/config`) | none after start | `Load`, `Validate` | environment |
| NUT client (`internal/nut`) | one connection per poll | `Poll` | NUT server |
| Power model (`internal/model`) | none | `FromSnapshot` | called by the gateway |
| Device payload (`internal/gateway/project.go`, `internal/unifi/inform/uspda2c.go`) | none | building the report | called by the gateway |
| Inform codec (`internal/unifi/inform/codec.go`) | a nonce counter | `Encode`, `Decode` | called by the gateway |
| Discovery (`internal/unifi/discovery`, `announcementLoop`) | sequence number | announce, respond | UDP broadcast |
| Network identity (`internal/gateway/network.go`) | none | one lookup at start | interfaces of the host |
| Managed network agent (`internal/netagent`) | lease, DHCP phase, heartbeat | acquire, renew, rebind, probe, withdraw | kernel, DHCP server, status file |
| Managed network handoff (`internal/netconfig`, `cmd/nut-2-unifi-ups-gateway/managed.go`) | status file; the network a gateway was started for | `ReadStatus`, `watchNetwork`, `runManaged` | agent and gateway |
| Release guard (`internal/releaseguard`) | remote tag, draft release, assets | reserve, bind, upload, publish | hosting service |

Hard behaviours, and what correctness means for each component:

- **Inform gateway.** The poll loop and the inform loop interleave; an exchange
  blocks while time passes; the process may die between any two steps; a save
  may report an error although the file was replaced. No response may take
  effect twice, memory may never run ahead of the file, an inform that fails
  leaves no trace, and a report that differs from the adoption state survives a
  restart when the operator asked for that.
- **Adoption rules.** Bootstrap happens under a public key. Once a device on
  plain HTTP has a controller's key nothing but a switch to AES-GCM may move it.
- **Files.** Every file the gateway leaves behind must pass the validation of
  the next start; replacement is atomic; what a power loss leaves is the old
  content or the new one.
- **Health monitor.** Statuses must be true of the state they describe; slots
  are released exactly once and never lost.
- **Run.** Five goroutines end by one context. One of them may wait for a
  connection slot, and a client may hold its connection for ever; a server that
  fails early must still end the process.
- **Managed network agent.** Acknowledgements arrive late, twice, from another
  server or an earlier transaction; the lease runs out during a renewal; the
  process dies anywhere and the next one meets the kernel state it left. No
  address is alive without a grant, and no current status without an address.
- **Managed network handoff.** Reader and writer of the status file race, the wall
  clock is set, the agent falls silent. The gateway stops within bounded time
  after its address is gone, comes back when there is one, and never sends from
  an address it was not started for.
- **Discovery.** Sequence numbers rise and are not reused, also at the end of
  their range.
- **NUT client.** An observation comes from one complete, authenticated listing.
- **Release guard.** Runs overlap, answers are lost and the request may take effect
  later, maintainers edit, an operator cleans up. A version belongs to one run, and
  what is published is what that run bound.

## Modules

- `Adoption` - pure rules: adoption state and its validity, what a response asks
  for (`Applied`), what a plain HTTP session grants (`Confined`), the policies
  and classifiers of report receipts. A response body is what its parsers tell
  apart: type, the `mgmt_cfg` entries it carries, whether the strict classifiers
  accept its envelope (`strict`), whether it has entries beyond the known ones
  (`rest`). Keys, markers and URL spellings are opaque.
- `ReplayWindow` - the bounded nonce lists of `gcmReplayWindow` and of receipts.
  The code keeps a set beside each list; here the set is the range of the list.
- `InformGateway` - the process, its files and the network. One variable per
  field of `Gateway` that decides something, `diskState` and `diskReceipt` for
  the files, `history` for the nonces whose transitions became durable.
- `MCInformGateway` - the packets and configurations of the runs.
- `ReceiptPromises`, `MCReceiptPromises` - two promises of the documentation
  about receipt files, with the history they need.
- `DurableRegister` - what the gateway expects of a file: it holds a whole value,
  and after a power loss one of the values since it last settled.
- `AtomicFile` - the steps of `savePrivateBytes` against a directory with visible and
  durable contents; implements `DurableRegister` with `value` the content a reader
  finds and `outcomes` the contents a power loss may leave.
- `GatewayRun` - one call of `Run`: its goroutines, the connection limiter, the
  listener, shutdown.
- `NetworkOwner` - what the network agent promises its reader: a current status is
  backed by an address that lives about as long, and a generation names one
  configuration.
- `NetworkAgent`, `MCNetworkAgent` - the agent: preparation of the interface, DHCP
  client, owner of address and status file; around it the kernel, servers and a
  lossy wire. It extends `NetworkOwner` and implements its specification.
- `NetworkHandoff` - `runManaged`, the watcher and the guard of each send, composed with
  `NetworkOwner`: the agent is any process that keeps that promise.
- `ReleaseLifecycle` - the release guard's commands in the order the workflow calls
  them, against the hosting service.
- `ReplayWindowProofs`, `InformGatewayProofs`, `ReplayProtectionProofs`,
  `AtomicFileProofs`, `GatewayRunProofs`, `NetworkAgentProofs` (with the theorem about
  `NetworkOwner`), `NetworkHandoffProofs`, `ReleaseLifecycleProofs` - proofs.

A definition whose comment begins "A mistaken ..." is a plausible bug, kept beside
the definition it would replace to see that a property notices it; nothing uses it.

### The gateway and its files

How `InformGateway` corresponds to the code:

| Action | Code |
|---|---|
| `Start`, `StartFails` | `New`: `LoadOrCreate` with the rewrite of a pending URL, `newGCMReplayWindow`, `initializeReceipt`, `initializeFirmwareReceipt`. `bad` is the set of receipt files that cannot be read. `StartFails` is a start that fails after it replaced the state file |
| `Crash` | the process dies, at any point between two steps |
| `PollSucceeds`, `PollFails` | `PollOnce` |
| `InformBegin` | `InformOnce` up to the request sent: freshness guards, `gcmReplay.sync` |
| `ExchangeFails` | `Exchange` returned an error |
| `EnvelopeRejected` | decode error, or replay check |
| `ReceiptRefused`, `ReceiptRepeated`, `ReceiptDeferred`, `ReceiptCommitted`, `ReceiptCommitFails`, `ReceiptRemembered`, `ReceiptRejected` | the ends of `acceptConfigReceipt` and `acceptFirmwareTarget`, and the two rejections in `InformOnce` |
| `ResponseRefused`, `ResponseAccepted`, `TransitionCommitted`, `TransitionSaveFails` | `ApplyControllerResponse`, confinement, authorization, save, publication |

`InformOnce` holds `informMu` throughout and everything from the answer to the
return is local, so one inform is two steps: the request, and the end. Polls,
time and crashes fall between them. A crash inside a save is a save that fails,
with the file replaced or not, followed by `Crash`. A step that replaces a file
successfully includes the directory sync. `AtomicFile` takes that step apart.
A power loss that undoes a rename is in `AtomicFile` only: it amounts to going
back to a file that an earlier start could have found.

`AtomicFile` has one action per system call of `savePrivateBytes` that matters
(`CreateTemp` to `SyncDirectory`), `SaveFails` for an error at any of them and
`Crash` and `LosePower` between any two. `dirDurable` says whether the directory's
own entry survives a power loss: `MkdirAll` may have just created it, and nobody
syncs its parent; deployments mount it, so it usually does. `SaveFails` after the
rename and a start afterwards are the `CommitFails` and `Start` of `InformGateway`.

`history` is not state of the program. It records, per log (adoption state,
configuration receipt, firmware receipt), the nonces of the latest
`MaxGCMReplayNonces` durable transitions of the current epoch, with `None` for a
transition whose save failed after the replacement: its nonce was not accepted
in memory, but it takes a place in the file. The protection the code promises is
bounded (`SECURITY.md`), and this is exactly the bound.

Constants and their values: `MaxGCMReplayNonces` is 128 in the code, 1 or 2 in the
runs and any positive number in the proofs; `ReceiptWriteInterval` is 30 s;
`MaxTime` bounds the clock and nothing else is bounded.

### One run of the gateway

| Action of `GatewayRun` | Code |
|---|---|
| `Launched`, `Cancel`, `Selected`, `ShutdownReturns`, `Joined` | `Run` in `internal/gateway/gateway.go`: starting the goroutines, the caller's context, the select over context and `fatal`, `server.Shutdown` with its deadline, `wait.Wait` |
| `Register`, `TakeSlot`, `Accepted`, `AcceptRefused`, `AcceptFails`, `AcceptFailsForNow` | `server.Serve` on `limitedListener` (`internal/health/health.go`): the slot, then the inner `Accept`, and the slot given back on an error |
| `Close`, `Dial`, `GiveUp` | a connection is closed, possibly more than once; clients |
| `PollEnds` ... `InformStops` | the poll and inform loops, reduced to whether a call is under way |
| `Announce`, `AnnounceTick`, `AnnounceStops` | `announcementLoop` and the sequence |

`net/http` is external: `Serve` registers its listener and accepts until it is closed;
`Shutdown` closes the listeners registered so far, waits for `Serve` to leave its loop
and for connections, up to five seconds. The early returns of `Run` (a bind that
fails) come before any goroutine and are not modelled.

### The managed network

| Action of `NetworkAgent` | Code (`internal/netagent`) |
|---|---|
| `Start`, `Plan`, `InstallMAC`, `Recheck`, `RemoveRoute`, `RemoveBootstrap`, `Verify` | `Run` and the preparation in `link_linux.go`: the pause that outlasts a predecessor's address, the checks before and after each change, the final readback |
| `Heartbeat`, `ExpireLease`, `Withdraw`, `Install` | the owner of address, route and status file in `run_linux.go` |
| `Stop`, `StopConfiguring` | every way the process ends: an error, a conflict, a signal, a crash; the deferred withdrawal complete, in part or not at all, or between the kernel address and the file |
| `Discover`, `TakeOffer`, `RequestTimeout`, `BeginRenew`, `BeginRebind`, `SendRenewal`, `TakeNak`, `TakeExtension`, `TakeChange`, `ProbeDone`, `ProbeConflict`, `Resume` | `runDHCP` and `dhcp.go` |
| `Offer`, `Ack`, `Nak`, `Lose`, `ForeignRoute`, `ClockTick` | servers, the wire, other parties, time and the kernel's expiry |

`grants` is not state of the program: it is the time left of the longest grant of each
network. Messages stay on the wire until they are lost, so each may be received
any number of times and in any order. Retransmission timers are not kept: what
they allow may happen at any time. A network stands for address, prefix and
router together; the code compares only the address of an acknowledgement while it
is requesting. All leases have one duration. The mode is
chosen when it first matters (`Plan`), so a restart may change it. An agent that is
suspended between reading the clock and calling the kernel is not modelled: a
heartbeat is one step.

| Action of `NetworkHandoff` | Code |
|---|---|
| `Lstat`, `Read` | `ReadStatus` in `internal/netconfig/lease.go`, in two steps; every rename by the agent in between makes it fail |
| `FirstRead`, `NewSucceeds`, `NewFails`, `StartFails`, `RunEnds`, `Join`, `LeaveWaiting`, `Terminate` | `runManaged` in `cmd/nut-2-unifi-ups-gateway/managed.go`, `gateway.New` with its own reading of the status |
| `WatcherPolls`, `WatcherStops` | `watchNetwork` |
| `InformBegins`, `InformEnds` | the check of the status before each exchange |
| `AgentWrites`, `AgentRefreshes`, `AgentWithdraws`, `Pass` | the steps of `NetworkOwner` |
| `StepClock` | the wall clock is set: the status becomes expired, valid for the longest accepted time, or valid for too long |

Durations are scaled to ticks and keep their order: a status expires `GuardTime`
before the address, lifetimes are whole seconds of at most `KernelLifetime`, the
watcher gives up after `WatchLimit`. `Slack == Second - 1 - GuardTime` is how long a
status may outlive its address because a lifetime is rounded down to seconds: 0
in the agent's instance and 1 in the handoff's.

### The release guard

`Workflow` of `ReleaseLifecycle` is the concatenation of the commands, each the
sequence of its remote calls in `internal/releaseguard/release.go`. `Checks` makes a
reading call and stops the run if it finds anything but what is expected;
`Answered` makes a request and compares its answer; `Loses` sends a request whose
answer never comes: the run fails, and the request may take effect at any later
time (`TakesEffect`); `Fails` is any other end. Runs are not assumed to be
serialised: the workflow's concurrency group would do that, and the guard does not
rely on it. A rerun of an attempt is refused by `LoadContext`, so a run starts once.
`Maintain` is what maintainers may do besides (edit or delete what is not
immutable, create drafts, remove images, turn immutable releases off and on, create
the tag where there is none); they do not publish, which is the workflow's. `Recover` is
the documented recovery of an empty reservation (`docs/releasing.md:89-109`): writers
are frozen, and draft and tag go in one step. Main may move between any two calls. Of the six
policy requirements only immutable releases change what a request does; the others
may fail any time. The local checks of attestation, image index and bundle are stateless
and may fail any time as well.

## Runs

| Run | Question | Instance |
|---|---|---|
| `HttpsTransitions` | Full response semantics over HTTPS: replay, validity of the file, all or nothing | window of 2, 3 nonces, 2 keys, 2 hosts, 2 spellings; markers, key changes, resets, moves |
| `HttpBootstrap` | Bootstrap and confinement over plain HTTP | window of 1, 2 nonces; CBC and GCM under the public and a controller's key; operator switches host, scheme, volatile markers, and receipts kept in memory between starts |
| `ReceiptPolicies` | Configuration and firmware receipts together: recorded once, durably, across restarts, failed commits, changes of policy and carrier, unreadable files, with the write interval; the type invariant | window of 2, 3 nonces, clock up to 1, interval 1; memory, persistent with firmware, persistent with another carrier |
| `AtomicFile` | A failure, crash or power loss at any step of a replacement: torn files, lost saves, old contents coming back | 3 contents: the one in memory, the one in the file, the one being saved |
| `GatewayRun` | Shutdown with the limiter full and clients that never close; slots; sequences at the end of their range | 3 clients, 2 slots, 3 sequence values (0, which the code never sends, and two more) |
| `NetworkAgent` | Leases, restarts and the wire: is every address granted, every status backed, every start possible, and the promise of `NetworkOwner` kept | 2 networks, 2 servers, 2 transactions, 2 generations, 2 messages on the wire; lifetime 4, lease 7, renewal 2, rebinding 4, both modes |
| `NetworkHandoff` | Sending and stopping over any agent that keeps the promise, any time-setting and any read race | 2 networks, 2 generations; lifetime 3, watch limit 2, horizon 4 |
| `ReleaseLifecycle` | Two overlapping runs of one version with lost answers, late effects, other writers and recovery | 2 runs, 2 commits, 3 releases, 2 edits |
| `BootstrapTrap`, `ReceiptSpacing`, `ReceiptPolicyChange`, `HeartbeatRace` | Four statements of the documentation the code does not keep (see Findings) | the smallest instances that show them |

Why the bounds suffice. A window of 2 with 3 nonces fills, evicts and evicts
again, and keeps a protected nonce that the recent list has forgotten; a window of
1 makes every acceptance an eviction. Nonces are symmetric: the code only compares
them. Two keys and the public one allow every change of epoch including the way
back; two hosts and two spellings separate "changed" from "another origin". The
interval runs need a clock that passes the interval once and the start of the next
inform. Every gateway run allows any number of crashes, restarts and failed saves.

Three clients and two slots let one client wait for another's slot while a third is
being served, and three sequence values give two announcements and then wrap, with any
number of attempts after that. For the agent, two networks and
servers make an answer from the wrong one possible, two transactions a late
answer, two generations the reuse of a name that is not the last (the code draws
them at random); a message stays available, so two on the wire are a request and
an answer, or an early and a late answer. The lease is longer than the margin below
which it is not installed, so that renewal, rebinding and expiry are all
reached, and the pause is longer than the life of an address. Servers, transactions
and generations are interchangeable in the agent's instance, which checks safety only;
the handoff's instance has liveness and no symmetry. In the handoff the watch limit is
shorter than the lifetime, so that silence is noticed before expiry, and the
horizon is beyond it. Two release runs on two commits, with a release for each and one of
a maintainer, and two edits: one to damage and one to
restore or to damage again.

What the properties say:

- `NoTransitionReplayed`: the nonce of a response that moved the adoption state or
  a receipt does not get past the replay check while it is within the bound.
- `StateFileLoadable`: the state file always passes the next start's validation.
- `InformAllOrNothing`: a failed inform leaves the adoption state, the window, the reports
  and the receipts in memory untouched (what blocks writing, and the status, may move); one that moved
  something under AES-GCM has its nonce remembered.
- `AdoptionPinned`: over plain HTTP with a controller's key, one switch to AES-GCM
  is the only change ever, whatever responses, restarts and reconfigurations come.
- `ReportedMarkerDurable`, `RestartKeepsReport`: with persistent receipts the
  deviating report is the file's, and a restart reports what was reported.
- `ReceiptsStorable`: the gateway never builds a receipt its validation refuses.
- `StatusTruthful`, `BlockedUntilRestart`: what the health monitor says of the
  receipts, and that a failed commit stops them until a restart.
- `ImplementsRegister`, `OnlyAttempted`: a replaced file is whole, and holds what the
  process works from or something that was being saved; a completed save in a durable
  directory survives a power loss. The register may settle but need not, so that the last
  part rests on `OnlyAttempted` alone.
- `SlotsAccounted`: every slot taken belongs to a live connection or to the `Accept`
  under way.
- `ReturnsWhenCancelled`, `ReturnsWhenServerFails`: `Run` ends after its context is
  cancelled, even if clients hold every slot, and after its server has failed, however
  early. `NoErrorOnlyIfAsked`: without an error only if it was asked to.
- `SequencesIncrease`: the sequences of all announcements so far rise, so that none is used
  twice: not by the next announcement, nor after the last number. `sent` is the history this needs;
  it is written only where the code takes a number.
- `AddressGranted`: an address got by DHCP is never alive beyond what a server granted,
  however late and in whatever order answers come.
- `Recoverable`: however the previous agent ended, the next one can identify the
  interface, and after its pause finds nothing it may not remove itself.
- `StatusBacked`, `ImplementsOwner`: a current status describes an address that lives about
  as long, and every step of the agent is one `NetworkOwner` allows: in particular
  no configuration is announced under the name of the last one, and an address
  is not replaced under a status.
- `SendsOnLiveAddress`: while the clock is left alone, an inform begins only on an address
  that is configured, or was at most `Slack` ticks ago.
- `AddressLossBounded`, `StopsWhenLost`: whatever happens to the clock, a gateway does not
  go on without its address longer than the watch limit, and one whose network is lost or
  replaced does not stay.
- `StopsOnRequest`, `BackInService`: a process asked to stop ends; one whose agent keeps a
  valid status in place gets back to running, or ended with an error of its own.
- `SucceededIsExact`: a run that reports success leaves exactly the immutable release with
  its binding and both assets under its tag.
- `OneOwner`, `VersionStaysReserved`, `OneReleasePerRun`: of the runs past the creation of the
  tag there is one; the tag stays as long as a release or a lost request of its run
  may still appear; no request is made twice.
- `PublishedIsBound`: what is published carries the binding of the run that owns the tag
  and has pushed its image.
- `TypeOK`, `RunTypeOK`, `AgentTypeOK`, `HandoffTypeOK`, `ReleaseTypeOK`: the type invariants.

## Fairness

The specifications of adoption, files, agent and releases are safety only: the
network may stay silent for ever, the operator may never restart the process, and
nobody has to finish a release.

`GatewayRun` assumes that each goroutine that can proceed does (weak fairness of
its steps): the Go scheduler is preemptive, and each blocking call has a deadline or
is ended by the context, so a poll or an inform under way ends (`PollEnds`,
`InformEnds`), and `Shutdown` returns after its five seconds. A `select` with several
ready cases picks one at random, so a case that is ready again and again is chosen
some time: strong fairness of `PollStops` and `InformStops`. Nothing is assumed of
clients: they may never close a connection or make one.

`NetworkHandoff` assumes weak fairness of the watcher, of the gateway's reads, and of the end
and the join of an attempt. Two conditions are strong. Time passes (`Pass`) however
often the file is read: the model lets a tick happen only between two reads.
And the first read of a waiting process succeeds some time if it could again and again
(`FirstRead(TRUE)`): it reads ten times a second and the agent renames once a second, so
they do not collide for ever. Nothing is assumed of the agent, the wall clock or SIGTERM.

## Proofs

Every invariant and action property that a passing run checks is also a theorem; what
is left to the model checker alone is liveness. TLC checked each inductive invariant on
the instance of the runs before it was proved.

Assumptions, all checked by TLC on every instance:

- `AdoptionAssumption`, `ReplayWindowAssumption`, `GatewayAssumption`: the public key is
  not a controller's key, the bound of the windows is positive, packets are packets,
  `None` is none of the values it stands in for.
- `FileAssumption`, `RunAssumption`: the same of `None`; the clients of the health server
  are finitely many, its limit is positive, there are at least two sequence values.
- `OwnerAssumption`, `AgentAssumption`: a lifetime is whole seconds and outlasts the guard
  time; timers are in their order; the margin below which a lease is not installed, and the
  pause after a start, exceed the kernel's lifetime of an address (constants of
  `run_linux.go`). A static address is held as a lease that does not run, so where that mode
  is possible the lease time, which stands for "for ever" there, covers one lifetime.
- `HandoffAssumption`: the horizon of the model's counter covers a lifetime.
- `ReleaseAssumption`: finitely many runs; the bounds are numbers.

The theorems, by component, and what they rest on:

- `TypeCorrect == Spec => []TypeOK`. The work is in the lists: evicting and
  appending stays within the bound (`ReplayWindowProofs`).
- `FilesLoadable == Spec => []StateFileLoadable`.
- `SafetyInvariant == Spec => []SafetyInv`, and from it
  `TransitionsNotReplayed == Spec => []NoTransitionReplayed` and
  `ReceiptsAlwaysStorable == Spec => []ReceiptsStorable`.

`NoTransitionReplayed` is not inductive: a window may well hold the right nonces
now and lose one with the next eviction. The strengthening is positional.
`Protects(nonces, log)` says that each logged nonce is in the list, no farther from
its newest end than in the log. Both lists evict from the other end under the same
bound, so appending the same nonce to both keeps it (`ProtectsAppended`), and
so does a place taken in the log alone by a failed save (`ProtectsMissed`).
`SafetyInv` states it of the saved nonces in memory, of the nonces in the file (which
may be ahead after a failed save) and of the receipts in memory and on disk; it adds
that `gcmReplayWindow.protected` and the saved list are one list (`WindowAgrees`),
that states are valid (pending states are on the public key and in CBC, which is why
a rewritten URL or a reset gives a loadable file) and that receipts hold no nonce
twice. Each conjunct is preserved by each action; the lemmas follow that grid.

- `AlwaysPinned == Spec => AdoptionPinned`, `ReportsDurable == Spec => []ReportedMarkerDurable`,
  `StatusesTruthful == Spec => []StatusTruthful`, `RestartsKeepReport == Spec => RestartKeepsReport`,
  `InformsAreAllOrNothing == Spec => InformAllOrNothing`, from `ReportInv` (and the last one from
  `SafetyInv` as well); `BlockedStays == Spec => BlockedUntilRestart` from the types.

`ReportInv` relates memory to the files. That a report is backed says nothing of the next
start, which looks at the file under whatever configuration it is given; so the invariant
says what the file decides (`FileReported`: a receipt of the present context is what is
reported, without one the report is the state's, and a firmware receipt may be unread
because the configuration receipt was unreadable), and that it goes on doing so while the
process is down. The arguments that hold it together are two. A receipt file exists only
where the device is managed over plain HTTP (`ReceiptsManaged`), and such a device grants
nothing any more (`ManagedGranted`): no transition ever leaves a receipt behind. And a
pinned device finds itself in its file, or itself after the switch to AES-GCM that a failed
save left there (`PinnedOnDisk`), so that a start under any configuration loads what memory
had. `InformAllOrNothing` needs `InformUnderWay` (a start does not end an inform) and
`WindowAgrees` (a window is never rebased within its epoch, so an accepted nonce is new
to the recent list and then in it).

- `FileImplementsRegister == Spec => ImplementsRegister` and
  `OnlyAttemptedSurvives == Spec => []OnlyAttempted`, of `AtomicFile`, from `FileInv`:
  the temporary file is whole and synced before it is renamed (`SaveInOrder`), so no
  torn content is ever a possible outcome (`DiskWhole`), and as long as the directory
  may vanish the absent file counts as an outcome (`VanishesWithDirectory`).

- `RunTypeCorrect`, `SlotsAlwaysAccounted`, `NoErrorOnlyIfAskedHolds` and
  `SequencesAlwaysIncrease`, of `GatewayRun`. `RunInv`, the types and the account of slots, is
  inductive: the limit is kept because a slot is taken only below it, and a slot is
  never given back twice because only a live connection gives one back; the lemmas go by
  goroutine, with cardinalities from the theorems about finite sets. `NoErrorOnlyIfAsked`
  needs that `Run` leaves its wait with a cause (`EndsForCause`), the sequences that all
  those given away are behind the counter until that has wrapped (`Ahead`).

- `OwnerBacksStatus == ImplementsOwner => []StatusBacked`: whoever keeps the promise of
  `NetworkOwner`, for every lifetime, tick and set of networks.
- `AgentKeepsPromise == AgentSpec => ImplementsOwner`: every step of the agent is a step of
  the owner or a stutter. From it `AgentBacksStatus`; from `AgentInv` also
  `AgentTypeCorrect`, `AddressesGranted` and `AlwaysRecoverable`.

`AddressGranted` is not inductive, because grants are made on the wire and lifetimes are
set much later. `LeaseGranted` follows a grant on its way: while a request is open, an
acknowledgement on the wire that the agent would accept was granted for at least what
the agent will count from its first request (`AckGranted`); while the network is probed
and while it is held the lease ends no later than the grant. `FreshAttempt` says that
before the first request nobody can have acknowledged, so that counting from there is
safe, and `Announced` that the file expires before the lease by the guard time.
`AlwaysRecoverable` rests on `MacInstalled` (the interface is identifiable before anything
is installed on it) and `PauseOutlasts` (what a predecessor left is gone when the pause
ends).

- `HandoffTypeCorrect`, `LossIsBounded == HandoffSpec => []AddressLossBounded` and
  `SendsLive == HandoffSpec => SendsOnLiveAddress`, from `HandoffInv`, over any owner. The
  bound on the loss adds up from parts: as long as an attempt is not cancelled it is watched (`Watched`); a read that
  advances the sequence with the gateway's own network proves its address until the
  watcher has seen it (`NewsOfAddress`); without news the loss is no longer than the silence
  the watcher counts (`SilenceCovers`). While the clock is left alone, a file that
  outlives its address runs out with it (`LossBounded`), which is why a send is on an address
  that is there or was at most `Slack` ticks ago.

- `ReleaseTypeCorrect`, `OneOwnerAtMost`, `ReservationStays`, `OneReleaseAtMost`,
  `SuccessIsExact` and `PublicationIsBound`, for any number of runs, releases, commits
  and edits, from `ReleaseInv`. Its centre is a claim (`Claims`): a run that went on after
  creating the tag, that a release names, or whose lost request may still reach a release.
  There is one claim (`OneClaim`) and it holds the tag (`ClaimHoldsTag`); a recovery takes
  the draft and the tag away together, when the draft is all the claim there is.
  `NamedAfterDraft`, `NamedKnown` and `NamedOnce` place the one release of a run after its one request for it, and `PublishedStays` and
  `ImmutableIsBound` say what nobody changes any more. The places of the requests in the
  workflow of 59 steps are proved first, part by part (`WorkflowSteps`).

Only model-checked: liveness under fairness (`ReturnsWhenCancelled`,
`ReturnsWhenServerFails`, `StopsWhenLost`, `StopsOnRequest`, `BackInService`). Liveness,
`ENABLED` and what recursive definitions compute for every input are out of the prover's reach.

## Findings

- **Bootstrap can be trapped** (`BootstrapTrap`). Over plain HTTP an adopted device
  that switched to AES-GCM under the public key can never be given a controller's
  key: the exemption for key installs asks for CBC (`gateway.go:930`), while
  `SECURITY.md:52` and the comment above it say that bootstrap stays completable.
- **Receipt writes can be closer than 30 s** (`ReceiptSpacing`). The interval is taken
  between the starts of informs, and an answer may take the inform timeout, while
  `docs/configuration.md:176` and `SECURITY.md:209` promise one write per 30 s.
- **A change of receipt policy does not invalidate the receipt**
  (`ReceiptPolicyChange`). The epoch does not cover the policy and nothing removes the
  file, while `docs/configuration.md:172-173` says that it is invalidated.
- **A heartbeat can restart the gateway** (`HeartbeatRace`). The reader compares the file
  it found with the file it opened (`netconfig/lease.go:72-84`) and the agent renames
  a new one into place every second; between the two calls the read fails, and the
  watcher cancels the gateway on any failed read. `docs/managed-network.md:34` says
  "An unchanged renewal does not restart the gateway."

Not a run, but worth knowing: under managed addressing the announcement loop ends for
good on one failed read of the status (`AnnounceStops`), although the comment at
`gateway.go:635` has discovery served until the context is cancelled; the watcher
usually restarts the gateway soon afterwards, but need not, since it reads at other times.

## Not modelled

- Wire formats (inform, discovery, DHCP, ARP, netlink), cryptography, payload contents,
  the outlet and battery mapping, the NUT line protocol, metrics text, logging and
  environment parsing: stateless conversions or one sequential pass, and no property
  here depends on them. How the interface is looked up is a stateless search.
- Relay commands and settings outside `mgmt_cfg`: the gateway ignores them.
- The wall clock of `InformGateway` never goes back; a receipt that is deferred longer keeps
  every property. `NetworkHandoff` has a clock that is set.
- A power loss that undoes a rename is in `AtomicFile` only.
- `Announcer.Run` and `Responder.Serve` of discovery, and `verify-reserved` of the release
  guard, which the gateway and the release workflow do not call; the job that publishes
  development images, which does not use the guard.

## Plan

What could follow:

1. A lemma that links `GatewayRun` to `NetworkHandoff`: an attempt that is cancelled ends,
   stated as the leads-to property the second assumes of the first.
2. The invariants of `ReceiptPromises` that do hold (writes of one process are an interval
   apart, counted between the starts of informs) as theorems.
3. The five hazards without a property (`PROJECT.json`): each needs a model of something
   the modules abstract from, as its note says.
