------------------------------ MODULE Adoption ------------------------------
(***************************************************************************)
(* The pure rules of UniFi adoption: what a controller response asks for,  *)
(* and how much of it the gateway grants.  Nothing here has state; the     *)
(* modules that do (InformGateway) apply these operators inside actions.   *)
(*                                                                         *)
(* Abstractions.  Keys, markers ("cfgversion" and firmware version texts)  *)
(* and URL spellings are opaque values.  A response body is what its       *)
(* parsers tell apart: its type and, for "setparam", which mgmt_cfg        *)
(* entries it carries; "strict" says that the top-level JSON has only the  *)
(* fields the receipt classifiers accept, with acceptable values.  A body  *)
(* that no parser accepts is of type "malformed".                          *)
(***************************************************************************)
EXTENDS Naturals

CONSTANTS
    ControllerKeys,   \* AES keys a controller may install
    DefaultKey,       \* the public factory key every unadopted device uses
    Markers,          \* cfgversion and firmware version texts
    ZeroMarker,       \* the cfgversion "0" of a factory-fresh device
    Hosts,            \* host:port pairs
    Spellings,        \* spellings of one host:port (letter case, default port)
    Carriers,         \* UniFi models the gateway can present (with their profile)
    None              \* an absent value

ASSUME AdoptionAssumption ==
    /\ DefaultKey \notin ControllerKeys
    /\ ZeroMarker \in Markers
    /\ None \notin Markers \cup ControllerKeys \cup {DefaultKey}

Keys == ControllerKeys \cup {DefaultKey}

\* The path is always /inform; scheme, host and spelling are what can differ.
Urls == [scheme : {"http", "https"}, host : Hosts, spelling : Spellings]

SameOrigin(u, v) == u.scheme = v.scheme /\ u.host = v.host

-----------------------------------------------------------------------------
(* The adoption state and its validity.                                    *)

AdoptionState ==
    [key : Keys, url : Urls, cfg : Markers, adopted : BOOLEAN, gcm : BOOLEAN]

NewAdoption(url) ==
    [key |-> DefaultKey, url |-> url, cfg |-> ZeroMarker,
     adopted |-> FALSE, gcm |-> FALSE]

\* A pending device has the public key and has not switched to AES-GCM.
ValidAdoption(a) == a.adopted \/ (a.key = DefaultKey /\ ~a.gcm)

-----------------------------------------------------------------------------
(* Controller responses.                                                   *)

MgmtCfg ==
    [cfg : Markers \cup {None}, url : Urls \cup {None}, key : Keys \cup {None},
     gcm : {"absent", "true", "enabled", "disabled"},
     rest : {"nothing", "inert", "unknown"}]

Bodies ==
    [type : {"noop", "setdefault", "reboot", "cmd", "malformed"}]
        \cup [type : {"setparam"}, mgmt : MgmtCfg, strict : BOOLEAN]
        \cup [type : {"upgrade"}, version : Markers, strict : BOOLEAN]

\* applyMgmtCfg: absent entries keep their value; use_aes_gcm is sticky.
ApplyMgmtCfg(a, m) ==
    [a EXCEPT !.cfg = IF m.cfg = None THEN @ ELSE m.cfg,
              !.url = IF m.url = None THEN @ ELSE m.url,
              !.key = IF m.key = None THEN @ ELSE m.key,
              !.gcm = @ \/ m.gcm \in {"true", "enabled"}]

\* A mistaken reset that forgets the transport mode.
FactoryResetKeepingMode(a) == [NewAdoption(a.url) EXCEPT !.gcm = a.gcm]

FactoryReset(a) == NewAdoption(a.url)

\* A mistaken setparam that does not mark the device adopted.
AppliedUnmanaged(a, b) ==
    CASE b.type = "setdefault" -> FactoryReset(a)
      [] b.type = "setparam"   -> ApplyMgmtCfg(a, b.mgmt)
      [] OTHER                 -> [a EXCEPT !.adopted = TRUE]

\* ApplyControllerResponse: any supported response but setdefault marks the
\* device adopted; setparam also applies mgmt_cfg.
Applied(a, b) ==
    CASE b.type = "setdefault" -> FactoryReset(a)
      [] b.type = "setparam"   -> [ApplyMgmtCfg(a, b.mgmt) EXCEPT !.adopted = TRUE]
      [] OTHER                 -> [a EXCEPT !.adopted = TRUE]

-----------------------------------------------------------------------------
(* What an adopted device grants to a response that came over plain HTTP.  *)

\* The transport mode is CBC until the device switched to AES-GCM.
InstallsControllerKey(a, next) ==
    ~a.gcm /\ a.key = DefaultKey /\ next.key # DefaultKey

UpgradesToGCM(a, next) == ~a.gcm /\ next.gcm /\ next.key = a.key

\* confineAdoptedPlainHTTPResponse, the adoption state it lets through.
Confined(a, next) ==
    IF ~a.adopted \/ a.url.scheme = "https" \/ InstallsControllerKey(a, next)
    THEN next
    ELSE IF UpgradesToGCM(a, next) THEN [a EXCEPT !.gcm = TRUE] ELSE a

\* setParamHasOnlyCfgVersion
OnlyCfgVersion(m) ==
    /\ m.cfg # None /\ m.url = None /\ m.key = None
    /\ m.gcm = "absent" /\ m.rest = "nothing"

-----------------------------------------------------------------------------
(* Process configuration, as far as the handling of responses depends on   *)
(* it, and the policies it switches on.                                    *)

Configurations ==
    {c \in [url : Urls, receipts : {"off", "memory", "persistent"},
            firmwareSync : BOOLEAN, volatileSync : BOOLEAN, carrier : Carriers] :
        /\ c.firmwareSync => c.receipts = "persistent"
        /\ c.volatileSync => c.receipts = "off"}

\* An adopted device that speaks AES-GCM with a controller's key over HTTP.
ManagedOverHTTP(a) ==
    a.url.scheme = "http" /\ a.adopted /\ a.gcm /\ a.key # DefaultKey

ReceiptsEligible(c, a) == c.receipts # "off" /\ ManagedOverHTTP(a)

FirmwareEligible(c, a) == ReceiptsEligible(c, a) /\ c.firmwareSync

\* The report-only marker the confinement hands back, or None.
VolatileMarker(c, a, b) ==
    IF c.volatileSync /\ ManagedOverHTTP(a)
       /\ b.type = "setparam" /\ OnlyCfgVersion(b.mgmt)
    THEN b.mgmt.cfg ELSE None

\* ClassifyConfigReceipt: the observed inert setparam shape.
IsConfigReceipt(b) ==
    /\ b.type = "setparam" /\ b.strict
    /\ b.mgmt.cfg # None /\ b.mgmt.url = None /\ b.mgmt.key = None
    /\ b.mgmt.gcm \in {"absent", "true"} /\ b.mgmt.rest # "unknown"

\* ClassifyFirmwareTarget: an upgrade that only names a version.
IsFirmwareTarget(b) == b.type = "upgrade" /\ b.strict

-----------------------------------------------------------------------------
(* The two report receipts: "config" for the cfgversion marker and         *)
(* "firmware" for the reported firmware version.                           *)

Kinds == {"config", "firmware"}

Eligible(kind, c, a) ==
    IF kind = "config" THEN ReceiptsEligible(c, a) ELSE FirmwareEligible(c, a)

\* ReceiptEpoch and FirmwareEpoch: the keyed digest of the trusted context,
\* modelled as the context itself.  A firmware receipt outlives a new marker.
ContextOf(kind, c, a) ==
    [key |-> a.key, url |-> a.url, carrier |-> c.carrier,
     cfg |-> IF kind = "config" THEN a.cfg ELSE None]

Contexts ==
    [key : Keys, url : Urls, carrier : Carriers, cfg : Markers \cup {None}]

ReceiptEpoch(kind, c, a) ==
    IF Eligible(kind, c, a) THEN ContextOf(kind, c, a) ELSE None

=============================================================================
