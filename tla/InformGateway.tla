---------------------------- MODULE InformGateway ----------------------------
(***************************************************************************)
(* The inform engine of the gateway: one process that polls a NUT server,  *)
(* sends inform requests to a UniFi controller, applies the responses to   *)
(* its adoption state, and keeps that state and two report receipts in     *)
(* files that survive it.                                                  *)
(*                                                                         *)
(* InformOnce holds informMu from its first check to its last assignment,  *)
(* but blocks on the network in between while time passes and the poll     *)
(* loop runs.  It is modelled as two steps: InformBegin, up to the request *)
(* sent, and one of the steps that end it (ExchangeFails for a request     *)
(* without a usable answer, the others for a response packet).             *)
(*                                                                         *)
(* The network may deliver any packet of Packets at any time and any       *)
(* number of times: responses may be late, duplicated or out of order.     *)
(* A file replacement that reports an error may have happened or not.      *)
(***************************************************************************)
EXTENDS ReplayWindow

CONSTANTS
    Packets,               \* responses the network can deliver
    AllowedConfigurations, \* configurations the process may be started with
    ReceiptWriteInterval,  \* receiptWriteInterval
    StaleAfter,            \* age at which a NUT observation is stale
    MaxTime                \* bound on the clock

ASSUME GatewayAssumption ==
    /\ Packets \subseteq [key : Keys, gcm : BOOLEAN,
                          nonce : Nonces \cup {None}, body : Bodies]
    /\ \A p \in Packets : p.gcm => p.nonce \in Nonces
    /\ AllowedConfigurations \subseteq Configurations
    /\ ReceiptWriteInterval \in Nat /\ StaleAfter \in Nat /\ MaxTime \in Nat
    /\ None \notin Nat \cup States \cup Receipts \cup Contexts

VARIABLES
    now,           \* the wall clock
    up,            \* is the process running
    \* Memory of the process; while it is down it is never read.
    config,        \* configuration it was started with
    persistent,    \* g.persistent: adoption state and its saved nonces
    window,        \* g.gcmReplay
    reported,      \* per kind, the marker the next inform reports
    receipt,       \* g.receipt, g.firmwareReceipt
    receiptEpoch,  \* g.receiptEpoch, g.firmwareEpoch
    blocked,       \* g.receiptBlocked, g.firmwareBlocked
    lastWrite,     \* g.receiptLastWrite, g.firmwareLastWrite
    observedAt,    \* collection time of g.latest, or None
    upstreamOK,    \* g.upstreamOK
    inflight,      \* start time of the inform awaiting its answer, or None
    monitor,       \* health: adoption, reachability, result of the last inform
    status,        \* health: receipt status per kind
    \* Files
    diskState,     \* the adoption state file, or None
    diskReceipt,   \* per kind, the receipt file, or None
    \* History
    history        \* per log, the nonces of its latest durable transitions

telemetry == <<observedAt, upstreamOK>>
receipts == <<receipt, receiptEpoch, blocked, lastWrite, diskReceipt>>
vars == <<now, up, config, persistent, window, reported, receipts, telemetry,
          inflight, monitor, status, diskState, history>>

adoption == persistent.adoption

\* What a reported marker, a status and a history entry can be.
Statuses == {"disabled", "pending", "received", "stored", "rejected",
             "storage_error", "rate_limited"}
Results == {"none", "success", "pending", "failure"}

\* The history of the adoption state within the active replay epoch, and of the
\* receipts within their contexts, as far back as the code promises to remember.
Logs == Kinds \cup {"adoption"}
BoundedHistory ==
    {s \in Seq(Nonces \cup {None}) : Len(s) <= MaxGCMReplayNonces}
Logged(log, n) == [history EXCEPT ![log] = Append(MakeRoom(@), n)]

TypeOK ==
    /\ now \in Nat
    /\ up \in BOOLEAN
    /\ config \in Configurations
    /\ persistent \in States
    /\ window \in Windows
    /\ reported \in [Kinds -> Markers \cup {None}]
    /\ receipt \in [Kinds -> Receipts]
    /\ receiptEpoch \in [Kinds -> Contexts \cup {None}]
    /\ blocked \in [Kinds -> BOOLEAN]
    /\ lastWrite \in [Kinds -> Nat \cup {None}]
    /\ observedAt \in Nat \cup {None}
    /\ upstreamOK \in BOOLEAN
    /\ inflight \in Nat \cup {None}
    /\ monitor \in [adopted : BOOLEAN, reached : BOOLEAN, result : Results]
    /\ status \in [Kinds -> Statuses]
    /\ diskState \in States \cup {None}
    /\ diskReceipt \in [Kinds -> Receipts \cup {None}]
    /\ history \in [Logs -> BoundedHistory]

-----------------------------------------------------------------------------
(* Start and stop.                                                         *)

Fresh(url) == [adoption |-> NewAdoption(url), nonces |-> <<>>]

\* A mistaken load: the operator's URL always wins.
LoadedWithOperatorUrl(c) ==
    IF diskState = None THEN Fresh(c.url) ELSE [diskState EXCEPT !.adoption.url = c.url]

\* LoadOrCreate: while pending, the operator's URL replaces the saved one.
Loaded(c) ==
    IF diskState = None THEN Fresh(c.url)
    ELSE IF ~diskState.adoption.adopted /\ diskState.adoption.key = DefaultKey
         THEN [diskState EXCEPT !.adoption.url = c.url]
         ELSE diskState

\* Is the receipt of kind k kept in a file?
Durable(k) == k = "firmware" \/ config.receipts = "persistent"

\* A mistaken start that only looks at the configuration receipt.
LoadsConfigReceipt(k, c, s) ==
    /\ k = "config"
    /\ ReceiptEpoch(k, c, s.adoption) # None
    /\ c.receipts = "persistent"

\* A receipt file is looked at when its policy is on and the state eligible.
LoadsReceipt(k, c, s) ==
    /\ ReceiptEpoch(k, c, s.adoption) # None
    /\ k = "firmware" \/ c.receipts = "persistent"

\* A mistaken load that does not compare the epochs.
ReceiptRestoredUnchecked(k, c, s, bad) ==
    LoadsReceipt(k, c, s) /\ bad \cap {k, "config"} = {} /\ diskReceipt[k] # None

\* Does the receipt file of kind k take effect, when those of bad are unreadable?
ReceiptRestored(k, c, s, bad) ==
    /\ LoadsReceipt(k, c, s)
    /\ bad \cap {k, "config"} = {}
    /\ diskReceipt[k] # None
    /\ diskReceipt[k].epoch = ReceiptEpoch(k, c, s.adoption)

BlockedAtStart(k, c, s, bad) ==
    LoadsReceipt(k, c, s) /\ k \in bad /\ (k = "config" \/ "config" \notin bad)

ReceiptEnabled(k, c) == IF k = "config" THEN c.receipts # "off" ELSE c.firmwareSync

StatusAtStart(k, c, s, bad) ==
    IF ~ReceiptEnabled(k, c) THEN "disabled"
    ELSE IF LoadsReceipt(k, c, s) /\ bad \cap {k, "config"} # {} THEN "storage_error"
    ELSE IF ReceiptRestored(k, c, s, bad) THEN "stored" ELSE "pending"

\* The marker reported when no receipt overrides it.
DefaultReport(k, s) == IF k = "config" THEN s.adoption.cfg ELSE None

Init ==
    /\ now = 0
    /\ up = FALSE
    /\ config \in AllowedConfigurations
    /\ persistent = Fresh(config.url)
    /\ window = NewWindow(persistent)
    /\ reported = [k \in Kinds |-> None]
    /\ receipt = [k \in Kinds |-> NoReceipt]
    /\ receiptEpoch = [k \in Kinds |-> None]
    /\ blocked = [k \in Kinds |-> FALSE]
    /\ lastWrite = [k \in Kinds |-> None]
    /\ observedAt = None
    /\ upstreamOK = FALSE
    /\ inflight = None
    /\ monitor = [adopted |-> FALSE, reached |-> FALSE, result |-> "none"]
    /\ status = [k \in Kinds |-> "disabled"]
    /\ diskState = None
    /\ diskReceipt = [k \in Kinds |-> None]
    /\ history = [l \in Logs |-> <<>>]

\* New: everything in memory comes from the configuration and the files.
Start(c, bad) ==
    LET s == Loaded(c) IN
    /\ ~up
    /\ up' = TRUE
    /\ config' = c
    /\ diskState' = s
    /\ persistent' = s
    /\ window' = NewWindow(s)
    /\ receiptEpoch' = [k \in Kinds |-> ReceiptEpoch(k, c, s.adoption)]
    /\ receipt' = [k \in Kinds |-> IF ReceiptRestored(k, c, s, bad)
                                   THEN diskReceipt[k] ELSE NoReceipt]
    /\ reported' = [k \in Kinds |-> IF ReceiptRestored(k, c, s, bad)
                                    THEN diskReceipt[k].version
                                    ELSE DefaultReport(k, s)]
    /\ blocked' = [k \in Kinds |-> BlockedAtStart(k, c, s, bad)]
    /\ lastWrite' = [k \in Kinds |-> None]
    /\ status' = [k \in Kinds |-> StatusAtStart(k, c, s, bad)]
    /\ observedAt' = None
    /\ upstreamOK' = FALSE
    /\ inflight' = None
    /\ monitor' = [adopted |-> s.adoption.adopted, reached |-> FALSE, result |-> "none"]
    /\ history' = [l \in Logs |->
                     IF IF l = "adoption" THEN EpochOf(s.adoption) = EpochOf(adoption)
                        ELSE /\ Durable(l)
                             /\ ReceiptRestored(l, c, s, bad)
                             /\ diskReceipt[l].epoch = receiptEpoch[l]
                     THEN history[l] ELSE <<>>]
    /\ UNCHANGED <<now, diskReceipt>>

\* New fails after it replaced the file: the save reported an error, or a later
\* step (resolving the controller, for one) failed.
StartFails(c) ==
    /\ ~up
    /\ Loaded(c) # diskState
    /\ diskState' = Loaded(c)
    /\ UNCHANGED <<now, up, config, persistent, window, reported, receipts,
                   telemetry, inflight, monitor, status, history>>

\* The process dies or is stopped; its memory is lost.
Crash ==
    /\ up
    /\ up' = FALSE
    /\ inflight' = None
    /\ UNCHANGED <<now, config, persistent, window, reported, receipts,
                   telemetry, monitor, status, diskState, history>>

Tick ==
    /\ now < MaxTime
    /\ now' = now + 1
    /\ UNCHANGED <<up, config, persistent, window, reported, receipts,
                   telemetry, inflight, monitor, status, diskState, history>>

-----------------------------------------------------------------------------
(* The poll loop.                                                          *)

PollSucceeds ==
    /\ up
    /\ observedAt' = now
    /\ upstreamOK' = TRUE
    /\ UNCHANGED <<now, up, config, persistent, window, reported, receipts,
                   inflight, monitor, status, diskState, history>>

\* The NUT server failed, or what it said does not amount to an observation.
PollFails ==
    /\ up
    /\ upstreamOK' = FALSE
    /\ UNCHANGED <<now, up, config, persistent, window, reported, receipts,
                   observedAt, inflight, monitor, status, diskState, history>>

-----------------------------------------------------------------------------
(* The inform loop: the request.                                           *)

InformBegin ==
    /\ up
    /\ inflight = None
    /\ upstreamOK
    /\ observedAt # None
    /\ now - observedAt \in 0..StaleAfter
    /\ window' = Rebased(window, persistent)
    /\ inflight' = now
    /\ UNCHANGED <<now, up, config, persistent, reported, receipts, telemetry,
                   monitor, status, diskState, history>>

\* What every way of ending an inform has in common.
Ended(result, reached, adopted) ==
    /\ inflight' = None
    /\ monitor' = [adopted |-> adopted, reached |-> reached, result |-> result]
    /\ UNCHANGED <<now, up, config, telemetry>>

Failed(reached) == Ended("failure", reached, monitor.adopted)

\* No connection, a status other than 200, a body too large: no TNBU reply.
ExchangeFails(result, reached) ==
    /\ up
    /\ inflight # None
    /\ result = "pending" => reached
    /\ Ended(result, reached, monitor.adopted)
    /\ UNCHANGED <<persistent, window, reported, receipts, status, diskState, history>>

-----------------------------------------------------------------------------
(* The inform loop: the response.                                          *)

Decodes(p) == p.key = adoption.key /\ p.gcm = adoption.gcm

\* A mistaken replay check that leaves out the nonces of the receipts.
ReplayedInWindow(p) == p.gcm /\ WindowContains(window, p.nonce)

Replayed(p) ==
    p.gcm /\ \/ WindowContains(window, p.nonce)
             \/ \E k \in Kinds : p.nonce \in Range(receipt[k].nonces)

Delivered(p) == up /\ inflight # None /\ Decodes(p) /\ ~Replayed(p)

\* The envelope does not open under the active key and mode, or its nonce was
\* already accepted.
EnvelopeRejected(p) ==
    /\ up
    /\ inflight # None
    /\ ~Decodes(p) \/ Replayed(p)
    /\ Failed(TRUE)
    /\ UNCHANGED <<persistent, window, reported, receipts, status, diskState, history>>

-----------------------------------------------------------------------------
(* Receipts: acceptConfigReceipt and acceptFirmwareTarget.                 *)

ReceiptType(k) == IF k = "config" THEN "setparam" ELSE "upgrade"

MarkerOf(b) == IF b.type = "setparam" THEN b.mgmt.cfg ELSE b.version

IsReceipt(k, b) ==
    /\ Eligible(k, config, adoption)
    /\ IF k = "config" THEN IsConfigReceipt(b) ELSE IsFirmwareTarget(b)

\* Mistaken checks: one forgets that firmware receipts depend on the
\* configuration receipt, the other that a commit failed.
OwnReceiptUnavailable(k) == blocked[k] \/ receiptEpoch[k] = None
ReceiptContextMissing(k) == receiptEpoch[k] = None

ReceiptUnavailable(k) ==
    blocked[k] \/ blocked["config"] \/ receiptEpoch[k] = None

TooSoon(k) ==
    lastWrite[k] # None /\ inflight - lastWrite[k] < ReceiptWriteInterval

\* A receipt with a marker to record: all that is left is to store it.
NewMarker(k, p) ==
    /\ Delivered(p)
    /\ IsReceipt(k, p.body)
    /\ ~ReceiptUnavailable(k)
    /\ MarkerOf(p.body) # receipt[k].version

NextReceipt(k, p) ==
    NewReceipt(receiptEpoch[k], MarkerOf(p.body), receipt[k], p.nonce)

ReceiptRefused(k, p) ==
    /\ Delivered(p)
    /\ IsReceipt(k, p.body)
    /\ ReceiptUnavailable(k)
    /\ status' = [status EXCEPT ![k] = "storage_error"]
    /\ Failed(TRUE)
    /\ UNCHANGED <<persistent, window, reported, receipts, diskState, history>>

ReceiptRepeated(k, p) ==
    /\ Delivered(p)
    /\ IsReceipt(k, p.body)
    /\ ~ReceiptUnavailable(k)
    /\ MarkerOf(p.body) = receipt[k].version
    /\ status' = [status EXCEPT ![k] = IF Durable(k) THEN "stored" ELSE "received"]
    /\ window' = WithAccepted(window, p.nonce, FALSE)
    /\ Ended("success", TRUE, monitor.adopted)
    /\ UNCHANGED <<persistent, reported, receipts, diskState, history>>

ReceiptDeferred(k, p) ==
    /\ NewMarker(k, p)
    /\ Durable(k)
    /\ TooSoon(k)
    /\ status' = [status EXCEPT ![k] = "rate_limited"]
    /\ Failed(TRUE)
    /\ UNCHANGED <<persistent, window, reported, receipts, diskState, history>>

\* The marker is published once it is stored; its response is then accepted.
Published(k, p) ==
    /\ receipt' = [receipt EXCEPT ![k] = NextReceipt(k, p)]
    /\ reported' = [reported EXCEPT ![k] = MarkerOf(p.body)]
    /\ window' = WithAccepted(window, p.nonce, FALSE)
    /\ history' = Logged(k, p.nonce)
    /\ Ended("success", TRUE, monitor.adopted)
    /\ UNCHANGED <<persistent, receiptEpoch, blocked, diskState>>

ReceiptCommitted(k, p) ==
    /\ NewMarker(k, p)
    /\ Durable(k)
    /\ ~TooSoon(k)
    /\ ValidReceipt(NextReceipt(k, p))
    /\ diskReceipt' = [diskReceipt EXCEPT ![k] = NextReceipt(k, p)]
    /\ lastWrite' = [lastWrite EXCEPT ![k] = inflight]
    /\ status' = [status EXCEPT ![k] = "stored"]
    /\ Published(k, p)

\* Whether or not the file was replaced, this process stops writing receipts.
ReceiptCommitFails(k, p, replaced) ==
    /\ NewMarker(k, p)
    /\ Durable(k)
    /\ ~TooSoon(k)
    /\ replaced => ValidReceipt(NextReceipt(k, p))
    /\ diskReceipt' = [diskReceipt EXCEPT ![k] = IF replaced
                                                 THEN NextReceipt(k, p) ELSE @]
    /\ lastWrite' = [lastWrite EXCEPT ![k] = inflight]
    /\ blocked' = [blocked EXCEPT ![k] = TRUE]
    /\ status' = [status EXCEPT ![k] = "storage_error"]
    /\ history' = IF replaced THEN Logged(k, None) ELSE history
    /\ Failed(TRUE)
    /\ UNCHANGED <<persistent, window, reported, receipt, receiptEpoch, diskState>>

ReceiptRemembered(k, p) ==
    /\ NewMarker(k, p)
    /\ ~Durable(k)
    /\ status' = [status EXCEPT ![k] = "received"]
    /\ UNCHANGED <<diskReceipt, lastWrite>>
    /\ Published(k, p)

-----------------------------------------------------------------------------
(* Other responses: ApplyControllerResponse and what follows it.           *)

\* Where receipts are on, a response of their type is a receipt or is refused.
ReceiptRejected(k, p) ==
    /\ Delivered(p)
    /\ Eligible(k, config, adoption)
    /\ p.body.type = ReceiptType(k)
    /\ ~IsReceipt(k, p.body)
    /\ status' = [status EXCEPT ![k] = "rejected"]
    /\ Failed(TRUE)
    /\ UNCHANGED <<persistent, window, reported, receipts, diskState, history>>

Ordinary(p) ==
    /\ Delivered(p)
    /\ \A k \in Kinds : ~(Eligible(k, config, adoption) /\ p.body.type = ReceiptType(k))

Granted(p) == Confined(adoption, Applied(adoption, p.body))

\* AuthorizeTransition
Authorized(p) == SameOrigin(adoption.url, Granted(p).url)

ResponseRefused(p) ==
    /\ Ordinary(p)
    /\ p.body.type = "malformed" \/ ~Authorized(p)
    /\ Failed(TRUE)
    /\ UNCHANGED <<persistent, window, reported, receipts, status, diskState, history>>

Supported(p) == Ordinary(p) /\ p.body.type # "malformed" /\ Authorized(p)

SameEpoch(p) == EpochOf(Granted(p)) = EpochOf(adoption)

\* Mistaken windows: a transition treated like a noop, or not recorded at all.
UnprotectedWindow(p) ==
    IF adoption.gcm THEN WithAccepted(window, p.nonce, FALSE) ELSE window
UnrecordedWindow(p) == window

\* The window with the response accepted: protected if it changed the state
\* within the epoch, whose window it then still is.
AcceptedWindow(p) ==
    IF adoption.gcm
    THEN WithAccepted(window, p.nonce, Granted(p) # adoption /\ SameEpoch(p))
    ELSE window

\* The nonces saved beside the new state belong to its epoch.
NextState(p) ==
    [adoption |-> Granted(p),
     nonces |-> IF ~SameEpoch(p) THEN <<>>
                ELSE IF adoption.gcm /\ Granted(p) # adoption
                     THEN AcceptedWindow(p).protected
                     ELSE persistent.nonces]

\* A response that leaves the adoption state as it is writes nothing.
ResponseAccepted(p) ==
    LET marker == VolatileMarker(config, adoption, p.body) IN
    /\ Supported(p)
    /\ Granted(p) = adoption
    /\ persistent' = NextState(p)
    /\ window' = Rebased(AcceptedWindow(p), NextState(p))
    /\ reported' = IF marker = None THEN reported
                   ELSE [reported EXCEPT !["config"] = marker]
    /\ Ended("success", TRUE, adoption.adopted)
    /\ UNCHANGED <<receipts, status, diskState, history>>

\* resetReceiptContext and resetFirmwareContext
StatusAfterTransition(k) ==
    IF ~ReceiptEnabled(k, config) THEN status[k]
    ELSE IF blocked[k] \/ blocked["config"] THEN "storage_error" ELSE "pending"

\* Saved, then published: memory follows the file.
TransitionCommitted(p) ==
    /\ Supported(p)
    /\ Granted(p) # adoption
    /\ diskState' = NextState(p)
    /\ persistent' = NextState(p)
    /\ window' = Rebased(AcceptedWindow(p), NextState(p))
    /\ reported' = [k \in Kinds |-> DefaultReport(k, NextState(p))]
    /\ receipt' = [k \in Kinds |-> NoReceipt]
    /\ receiptEpoch' = [k \in Kinds |-> ReceiptEpoch(k, config, Granted(p))]
    /\ status' = [k \in Kinds |-> StatusAfterTransition(k)]
    /\ history' = [l \in Logs |-> IF l = "adoption" /\ adoption.gcm /\ SameEpoch(p)
                                  THEN Append(MakeRoom(history[l]), p.nonce) ELSE <<>>]
    /\ Ended("success", TRUE, Granted(p).adopted)
    /\ UNCHANGED <<blocked, lastWrite, diskReceipt>>

\* A mistaken order: the transition is published before it is saved.
TransitionPublishedBeforeSave(p, replaced) ==
    /\ Supported(p)
    /\ Granted(p) # adoption
    /\ diskState' = IF replaced THEN NextState(p) ELSE diskState
    /\ persistent' = NextState(p)
    /\ Failed(TRUE)
    /\ UNCHANGED <<window, reported, receipts, status, history>>

\* The save reported an error: memory keeps the old state, whatever the file
\* holds.  If the file was replaced, a restart will find the new state, so the
\* transition takes a place in the history although its nonce is not accepted.
TransitionSaveFails(p, replaced) ==
    /\ Supported(p)
    /\ Granted(p) # adoption
    /\ diskState' = IF replaced THEN NextState(p) ELSE diskState
    /\ history' = IF replaced /\ adoption.gcm /\ SameEpoch(p)
                  THEN Logged("adoption", None) ELSE history
    /\ Failed(TRUE)
    /\ UNCHANGED <<persistent, window, reported, receipts, status>>

-----------------------------------------------------------------------------

Environment ==
    \/ \E c \in AllowedConfigurations, bad \in SUBSET Kinds : Start(c, bad)
    \/ \E c \in AllowedConfigurations : StartFails(c)
    \/ Crash
    \/ Tick

Poll == PollSucceeds \/ PollFails

Inform ==
    \/ InformBegin
    \/ \E result \in {"pending", "failure"}, reached \in BOOLEAN :
           ExchangeFails(result, reached)
    \/ \E p \in Packets :
           \/ EnvelopeRejected(p)
           \/ ResponseRefused(p)
           \/ ResponseAccepted(p)
           \/ TransitionCommitted(p)
           \/ \E replaced \in BOOLEAN : TransitionSaveFails(p, replaced)
    \/ \E p \in Packets, k \in Kinds :
           \/ ReceiptRefused(k, p)
           \/ ReceiptRepeated(k, p)
           \/ ReceiptDeferred(k, p)
           \/ ReceiptCommitted(k, p)
           \/ \E replaced \in BOOLEAN : ReceiptCommitFails(k, p, replaced)
           \/ ReceiptRemembered(k, p)
           \/ ReceiptRejected(k, p)

Next == Environment \/ Poll \/ Inform

Spec == Init /\ [][Next]_vars


\* A setparam that only installs a key.
InstallKey(k) ==
    [type |-> "setparam", strict |-> TRUE,
     mgmt |-> [cfg |-> None, url |-> None, key |-> k, gcm |-> "absent",
               rest |-> "nothing"]]

-----------------------------------------------------------------------------
(* Safety.                                                                 *)

(* A restart is never refused by a state file the gateway itself wrote:    *)
(* whatever sequence of responses, failed saves and crashes led to it, the *)
(* file passes state.State.Validate and AdoptionState.Validate.            *)
StateFileLoadable == diskState # None => ValidState(diskState)

(* No response takes effect twice.  The nonce of a response that moved the *)
(* adoption state, or a report receipt, does not get past the replay check *)
(* while it is among the MaxGCMReplayNonces latest such responses of its   *)
(* epoch: not after noops evicted it from the recent window, after a       *)
(* restart, or after a save that reported an error but replaced the file.  *)
NoTransitionReplayed ==
    up => \A p \in Packets :
        p.gcm /\ Decodes(p) /\ ~Replayed(p) =>
            \A l \in Logs : p.nonce \notin Range(history[l])

(* A report that deviates from the adoption state is backed by the file    *)
(* that a restart will find, unless a failed commit left the file ahead.   *)
ReportedMarkerDurable ==
    up => \A k \in Kinds :
        /\ k = "config" => config.receipts = "persistent"
        /\ ~blocked[k]
        /\ reported[k] # DefaultReport(k, persistent)
        => /\ diskReceipt[k] # None
           /\ diskReceipt[k].version = reported[k]
           /\ diskReceipt[k].epoch = ReceiptEpoch(k, config, adoption)

(* The receipt statuses of /readyz mean what they say: "stored" that the   *)
(* reported marker is the one in the file, and a receipt whose storage     *)
(* failed never shows as pending, received, stored or merely deferred.     *)
StatusTruthful ==
    up => \A k \in Kinds :
        /\ status[k] = "stored" => /\ diskReceipt[k] # None
                                  /\ diskReceipt[k].version = reported[k]
        /\ blocked[k] => status[k] \in {"storage_error", "rejected"}

(* SaveReceipt's own validation never rejects a receipt the gateway built: *)
(* otherwise an ordinary response would block receipts until a restart.    *)
ReceiptsStorable ==
    \A p \in Packets, k \in Kinds :
        NewMarker(k, p) => ValidReceipt(NextReceipt(k, p))

(* SECURITY.md:52 and the comment at gateway.go:928 say that bootstrap      *)
(* stays completable over plain HTTP: while an adopted device still has    *)
(* the public key, a response that installs a controller key is let        *)
(* through.  The code lets it through in CBC mode only.                    *)
BootstrapCompletable ==
    up /\ adoption.adopted /\ adoption.key = DefaultKey =>
        \A k \in ControllerKeys :
            Confined(adoption, Applied(adoption, InstallKey(k))).key = k

-----------------------------------------------------------------------------
(* Action properties.                                                      *)

PinnedOverHTTP(a) ==
    a.adopted /\ a.url.scheme = "http" /\ a.key # DefaultKey

(* Once a device adopted over plain HTTP has a controller's key, nothing   *)
(* but one switch to AES-GCM changes its adoption state ever again: no     *)
(* response, restart, failed save or reconfiguration of the process.       *)
AdoptionPinned ==
    [][up' /\ PinnedOverHTTP(adoption) =>
          adoption' \in {adoption, [adoption EXCEPT !.gcm = TRUE]}]_vars

(* An inform is all or nothing.  One that does not succeed leaves the      *)
(* adoption state, the replay window, the reports and the receipts in      *)
(* memory as they were (what blocks writing, the time of the last write    *)
(* and the status may move); one that moves the adoption state, a report   *)
(* or a receipt under AES-GCM leaves its nonce remembered, unless it moved *)
(* to another epoch.                                                       *)
InformAllOrNothing ==
    [][inflight # None /\ inflight' = None /\ up' =>
          /\ monitor'.result # "success" =>
                UNCHANGED <<persistent, window, reported, receipt, receiptEpoch>>
          /\ adoption.gcm /\ <<persistent, reported, receipt>>'
                               # <<persistent, reported, receipt>> =>
                \/ EpochOf(adoption') # EpochOf(adoption)
                \/ window'.recent # window.recent]_vars

(* After a failed commit, whose outcome on the disk is unknown, this       *)
(* process writes no more receipts of that kind; a configuration receipt   *)
(* failure stops firmware receipts too.  Only a restart lifts it.          *)
BlockedUntilRestart ==
    [][up /\ up' =>
          \A k \in Kinds : blocked[k] \/ blocked["config"] =>
              /\ blocked'[k] = blocked[k]
              /\ diskReceipt'[k] = diskReceipt[k]
              /\ lastWrite'[k] = lastWrite[k]]_vars

(* A restart with the same configuration reports what the process before   *)
(* it reported, when the adoption state file is the one that process had   *)
(* and receipt storage worked on both sides of the restart.                *)
RestartKeepsReport ==
    [][~up /\ up' /\ config' = config /\ persistent' = persistent =>
          \A k \in Kinds :
              \/ reported[k] = None
              \/ blocked[k] \/ blocked'[k] \/ blocked'["config"]
              \/ k = "config" /\ config.receipts # "persistent"
              \/ reported'[k] = reported[k]]_vars

-----------------------------------------------------------------------------
(* The inductive invariant behind the safety properties.                   *)

\* Every logged nonce is in the list, and at least as far from its oldest end
\* as from the oldest end of the log: it cannot be evicted from the list first.
Protects(nonces, log) ==
    \A i \in DOMAIN log : log[i] # None =>
        \E j \in DOMAIN nonces :
            nonces[j] = log[i] /\ Len(nonces) - j <= Len(log) - i

StatesValid ==
    /\ ValidState(persistent)
    /\ StateFileLoadable
    /\ up => diskState # None

\* gcmReplayWindow.protected and the saved nonces are one list.
WindowAgrees ==
    window.epoch = EpochOf(adoption) /\ window.protected = persistent.nonces

StatesProtect ==
    /\ Protects(persistent.nonces, history["adoption"])
    /\ diskState # None /\ EpochOf(diskState.adoption) = EpochOf(adoption) =>
          Protects(diskState.nonces, history["adoption"])
    /\ diskState = None => history["adoption"] = <<>>

ReceiptsDistinct ==
    \A k \in Kinds :
        /\ receipt[k] = NoReceipt \/ receipt[k].epoch = receiptEpoch[k]
        /\ Distinct(receipt[k].nonces)
        /\ diskReceipt[k] # None => Distinct(diskReceipt[k].nonces)

ReceiptsProtect ==
    \A k \in Kinds :
        /\ Protects(receipt[k].nonces, history[k])
        /\ Durable(k) /\ diskReceipt[k] # None
              /\ diskReceipt[k].epoch = receiptEpoch[k] =>
                  Protects(diskReceipt[k].nonces, history[k])

SafetyInv ==
    /\ TypeOK
    /\ StatesValid
    /\ WindowAgrees
    /\ StatesProtect
    /\ ReceiptsDistinct
    /\ ReceiptsProtect

-----------------------------------------------------------------------------
(* The inductive invariant behind what is reported, and behind the pinning *)
(* of the adoption state.                                                  *)

\* An inform under way belongs to a running process.
InformUnderWay == ~up => inflight = None

\* A pinned device finds itself in the file, unless a failed save was ahead.
PinnedOnDisk ==
    PinnedOverHTTP(adoption) =>
        /\ diskState # None
        /\ diskState.adoption \in {adoption, [adoption EXCEPT !.gcm = TRUE]}

EpochsCurrent ==
    \A k \in Kinds : receiptEpoch[k] = ReceiptEpoch(k, config, adoption)

\* A context that ever had a receipt is never left.
ReceiptsManaged ==
    \A k \in Kinds :
        /\ diskReceipt[k] # None =>
               ManagedOverHTTP(adoption) /\ diskReceipt[k].epoch # None
        /\ receipt[k] # NoReceipt => receiptEpoch[k] # None

\* A receipt in memory is what is reported, and what is in the file.
ReceiptReported ==
    \A k \in Kinds : receipt[k] # NoReceipt =>
        /\ reported[k] = receipt[k].version
        /\ Durable(k) /\ ~blocked[k] => diskReceipt[k] = receipt[k]

\* Where receipts persist, the file decides what is reported.
FileReported ==
    \A k \in Kinds : Durable(k) /\ ~blocked[k] =>
        \/ ~up /\ reported[k] = None
        \/ /\ diskReceipt[k] # None
           /\ diskReceipt[k].epoch = receiptEpoch[k]
           /\ reported[k] = diskReceipt[k].version
        \/ /\ reported[k] = DefaultReport(k, persistent)
           /\ \/ diskReceipt[k] = None
              \/ diskReceipt[k].epoch # receiptEpoch[k]
              \/ k = "firmware" /\ blocked["config"]

StatusAgrees ==
    \A k \in Kinds :
        /\ ~ReceiptEnabled(k, config) => status[k] = "disabled"
        /\ status[k] = "stored" => /\ diskReceipt[k] # None
                                  /\ diskReceipt[k].version = reported[k]
        /\ blocked[k] => status[k] \in {"storage_error", "rejected"}

ReportInv ==
    /\ InformUnderWay
    /\ PinnedOnDisk
    /\ EpochsCurrent
    /\ ReceiptsManaged
    /\ ReceiptReported
    /\ FileReported
    /\ StatusAgrees

=============================================================================
