-------------------------- MODULE InformGatewayProofs --------------------------
(* Theorems about InformGateway, for every set of keys, markers, hosts,    *)
(* nonces, packets and configurations, and every bound on the windows.     *)
EXTENDS InformGateway, ReplayWindowProofs

-----------------------------------------------------------------------------
(* Types of the pure operators.                                            *)

\* The state of a first start.
LEMMA FreshType == ASSUME NEW u \in Urls PROVE Fresh(u) \in States
<1>1. <<>> \in BoundedNonces
  BY ReplayWindowAssumption DEF BoundedNonces
<1> QED
  BY <1>1, AdoptionAssumption DEF Fresh, States, NewAdoption, AdoptionState, Keys

\* The fields of a configuration.
LEMMA ConfigurationFields ==
    ASSUME NEW c \in Configurations
    PROVE  /\ c.url \in Urls
           /\ c.receipts \in {"off", "memory", "persistent"}
           /\ c.carrier \in Carriers
  BY DEF Configurations

\* LoadOrCreate yields a state.
LEMMA LoadedType ==
    ASSUME NEW c \in AllowedConfigurations, TypeOK
    PROVE  Loaded(c) \in States
<1>1. c.url \in Urls
  BY ConfigurationFields, GatewayAssumption
<1>2. CASE diskState = None
  BY <1>1, <1>2, FreshType DEF Loaded
<1>3. CASE diskState # None
  <2>1. diskState \in States
    BY <1>3 DEF TypeOK
  <2>2. [diskState EXCEPT !.adoption.url = c.url] \in States
    BY <1>1, <2>1 DEF States, AdoptionState
  <2> QED
    BY <1>3, <2>1, <2>2 DEF Loaded
<1> QED
  BY <1>2, <1>3

\* A receipt epoch is a context or absent.
LEMMA EpochType ==
    ASSUME NEW k \in Kinds, NEW c \in Configurations, NEW a \in AdoptionState
    PROVE  ReceiptEpoch(k, c, a) \in Contexts \cup {None}
<1>1. ContextOf(k, c, a) \in Contexts
  BY ConfigurationFields DEF ContextOf, Contexts, AdoptionState
<1> QED
  BY <1>1 DEF ReceiptEpoch

\* What a body carries.
LEMMA BodyFields ==
    ASSUME NEW b \in Bodies
    PROVE  /\ b.type = "setparam" => b.mgmt \in MgmtCfg
           /\ b.type = "upgrade" => b.version \in Markers
  BY DEF Bodies

\* ApplyControllerResponse yields an adoption state.
LEMMA AppliedType ==
    ASSUME NEW a \in AdoptionState, NEW b \in Bodies
    PROVE  Applied(a, b) \in AdoptionState
<1>1. CASE b.type = "setdefault"
  BY <1>1, AdoptionAssumption
     DEF Applied, FactoryReset, NewAdoption, AdoptionState, Keys
<1>2. CASE b.type = "setparam"
  <2>1. b.mgmt \in MgmtCfg
    BY <1>2, BodyFields
  <2> DEFINE m == b.mgmt
             n == ApplyMgmtCfg(a, m)
  <2>2. n \in AdoptionState
    BY <2>1 DEF ApplyMgmtCfg, AdoptionState, MgmtCfg
  <2>3. Applied(a, b) = [n EXCEPT !.adopted = TRUE]
    BY <1>2 DEF Applied
  <2> QED
    BY <2>2, <2>3 DEF AdoptionState
<1>3. CASE b.type \notin {"setdefault", "setparam"}
  BY <1>3 DEF Applied, AdoptionState
<1> QED
  BY <1>1, <1>2, <1>3

\* What a plain HTTP session grants is an adoption state.
LEMMA ConfinedType ==
    ASSUME NEW a \in AdoptionState, NEW next \in AdoptionState
    PROVE  Confined(a, next) \in AdoptionState
  BY DEF Confined, AdoptionState

\* The fields of a packet.
LEMMA PacketFields ==
    ASSUME NEW p \in Packets
    PROVE  /\ p.body \in Bodies
           /\ p.gcm \in BOOLEAN
           /\ p.gcm => p.nonce \in Nonces
  BY GatewayAssumption

\* What a response brings about is a state and a window again.
LEMMA NextStateType ==
    ASSUME TypeOK, NEW p \in Packets, Delivered(p)
    PROVE  /\ Granted(p) \in AdoptionState
           /\ adoption.gcm => p.nonce \in Nonces
           /\ AcceptedWindow(p) \in Windows
           /\ NextState(p) \in States
           /\ NextState(p).adoption = Granted(p)
           /\ Rebased(AcceptedWindow(p), NextState(p)) \in Windows
<1>1. /\ persistent \in States /\ window \in Windows
      /\ adoption \in AdoptionState
  BY DEF TypeOK, States, adoption
<1>2. Granted(p) \in AdoptionState
  BY <1>1, PacketFields, AppliedType, ConfinedType DEF Granted
<1>3. adoption.gcm => p.nonce \in Nonces
  BY PacketFields DEF Delivered, Decodes
<1>4. AcceptedWindow(p) \in Windows
  <2>1. CASE adoption.gcm
    <3> DEFINE protect == Granted(p) # adoption /\ SameEpoch(p)
    <3>1. protect \in BOOLEAN
      OBVIOUS
    <3>2. AcceptedWindow(p) = WithAccepted(window, p.nonce, protect)
      BY <2>1 DEF AcceptedWindow
    <3> HIDE DEF protect
    <3> QED
      BY <1>1, <1>3, <2>1, <3>1, <3>2, WithAcceptedType
  <2>2. CASE ~adoption.gcm
    BY <1>1, <2>2 DEF AcceptedWindow
  <2> QED
    BY <2>1, <2>2
<1>5. NextState(p) \in States /\ NextState(p).adoption = Granted(p)
  <2>1. /\ <<>> \in BoundedNonces
        /\ persistent.nonces \in BoundedNonces
        /\ AcceptedWindow(p).protected \in BoundedNonces
    BY <1>1, <1>4, ReplayWindowAssumption DEF BoundedNonces, States, Windows
  <2> QED
    BY <1>2, <2>1 DEF NextState, States
<1>6. Rebased(AcceptedWindow(p), NextState(p)) \in Windows
  BY <1>4, <1>5, RebasedType
<1> QED
  BY <1>2, <1>3, <1>4, <1>5, <1>6

\* The same for a receipt.
LEMMA NextReceiptType ==
    ASSUME TypeOK, NEW p \in Packets, NEW k \in Kinds, NewMarker(k, p)
    PROVE  /\ NextReceipt(k, p) \in Receipts
           /\ MarkerOf(p.body) \in Markers
           /\ p.nonce \in Nonces
           /\ WithAccepted(window, p.nonce, FALSE) \in Windows
<1>1. /\ IsReceipt(k, p.body)
      /\ Eligible(k, config, adoption)
      /\ receiptEpoch[k] \in Contexts
      /\ receipt[k] \in Receipts
      /\ window \in Windows
  BY DEF NewMarker, TypeOK, IsReceipt, ReceiptUnavailable
<1>2. p.nonce \in Nonces
  <2>1. adoption.gcm
    BY <1>1 DEF Eligible, FirmwareEligible, ReceiptsEligible, ManagedOverHTTP
  <2> QED
    BY <2>1, PacketFields DEF NewMarker, Delivered, Decodes
<1>3. MarkerOf(p.body) \in Markers
  <2>1. CASE k = "config"
    BY <1>1, <2>1, PacketFields, BodyFields
       DEF IsReceipt, IsConfigReceipt, MarkerOf, MgmtCfg
  <2>2. CASE k = "firmware"
    BY <1>1, <2>2, PacketFields, BodyFields
       DEF IsReceipt, IsFirmwareTarget, MarkerOf
  <2> QED
    BY <2>1, <2>2 DEF Kinds
<1> QED
  BY <1>1, <1>2, <1>3, NewReceiptType, WithAcceptedType DEF NextReceipt

\* A log takes one more entry within its bound.
LEMMA LoggedType ==
    ASSUME TypeOK, NEW l \in Logs, NEW n \in Nonces \cup {None}
    PROVE  /\ Append(MakeRoom(history[l]), n) \in BoundedHistory
           /\ Logged(l, n) \in [Logs -> BoundedHistory]
<1>1. history \in [Logs -> BoundedHistory]
  BY DEF TypeOK
<1> DEFINE s == history[l]
           t == Append(MakeRoom(s), n)
<1>2. s \in Seq(Nonces \cup {None}) /\ Len(s) <= MaxGCMReplayNonces
  BY <1>1 DEF BoundedHistory
<1>3. t \in Seq(Nonces \cup {None}) /\ Len(t) \in 1..MaxGCMReplayNonces
  <2> HIDE DEF s
  <2> QED BY <1>2, AppendFacts
<1>4. t \in BoundedHistory
  <2> HIDE DEF t
  <2> QED BY <1>3, ReplayWindowAssumption DEF BoundedHistory
<1>5. Logged(l, n) \in [Logs -> BoundedHistory]
  BY <1>1, <1>4 DEF Logged
<1> QED
  BY <1>4, <1>5

\* What is empty has its type.
LEMMA EmptyTypes ==
    /\ <<>> \in BoundedNonces
    /\ <<>> \in BoundedHistory
    /\ NoReceipt \in Receipts
  BY ReplayWindowAssumption DEF BoundedNonces, BoundedHistory, NoReceipt, Receipts

-----------------------------------------------------------------------------
(* Type correctness.                                                       *)

\* The types hold before the first start.
LEMMA InitTypeOK == Init => TypeOK
<1> SUFFICES ASSUME Init PROVE TypeOK
  OBVIOUS
<1>1. config \in Configurations /\ config.url \in Urls
  BY GatewayAssumption, ConfigurationFields DEF Init
<1>2. persistent \in States /\ window \in Windows
  BY <1>1, FreshType, NewWindowType DEF Init
<1> QED
  BY <1>1, <1>2, EmptyTypes DEF Init, TypeOK, Kinds, Logs, Statuses, Results

\* A start gives every variable of the process its type.
LEMMA StartTypeOK ==
    ASSUME TypeOK, NEW c \in AllowedConfigurations, NEW bad \in SUBSET Kinds, Start(c, bad)
    PROVE  TypeOK'
<1> DEFINE s == Loaded(c)
<1>1. /\ c \in Configurations
      /\ s \in States /\ s.adoption \in AdoptionState
      /\ NewWindow(s) \in Windows
  BY GatewayAssumption, LoadedType, NewWindowType DEF States
<1>2. config' \in Configurations /\ persistent' \in States /\ diskState' \in States
      /\ window' \in Windows
  BY <1>1 DEF Start
<1>3. receiptEpoch' \in [Kinds -> Contexts \cup {None}]
  <2>1. \A k \in Kinds : ReceiptEpoch(k, c, s.adoption) \in Contexts \cup {None}
    BY <1>1, EpochType
  <2>2. receiptEpoch' = [k \in Kinds |-> ReceiptEpoch(k, c, s.adoption)]
    BY DEF Start
  <2> HIDE DEF s
  <2> QED
    BY <2>1, <2>2
<1>4. ASSUME NEW k \in Kinds, ReceiptRestored(k, c, s, bad)
      PROVE  diskReceipt[k] \in Receipts /\ diskReceipt[k].version \in Markers \cup {None}
  BY <1>4 DEF ReceiptRestored, TypeOK, Receipts
<1>5. receipt' \in [Kinds -> Receipts]
  BY <1>4, EmptyTypes DEF Start
<1>6. reported' \in [Kinds -> Markers \cup {None}]
  <2>1. \A k \in Kinds : DefaultReport(k, s) \in Markers \cup {None}
    BY <1>1 DEF DefaultReport, AdoptionState
  <2>2. reported' = [k \in Kinds |-> IF ReceiptRestored(k, c, s, bad)
                                    THEN diskReceipt[k].version
                                    ELSE DefaultReport(k, s)]
    BY DEF Start
  <2> HIDE DEF s
  <2> QED
    BY <1>4, <2>1, <2>2
<1>7. blocked' \in [Kinds -> BOOLEAN]
  BY DEF Start, BlockedAtStart
<1>8. status' \in [Kinds -> Statuses]
  BY DEF Start, StatusAtStart, Statuses
<1>9. history' \in [Logs -> BoundedHistory]
  BY EmptyTypes DEF Start, TypeOK
<1>10. /\ up' \in BOOLEAN /\ now' \in Nat
       /\ lastWrite' \in [Kinds -> Nat \cup {None}]
       /\ observedAt' \in Nat \cup {None} /\ upstreamOK' \in BOOLEAN
       /\ inflight' \in Nat \cup {None}
       /\ diskReceipt' \in [Kinds -> Receipts \cup {None}]
  BY DEF Start, TypeOK
<1>11. monitor' \in [adopted : BOOLEAN, reached : BOOLEAN, result : Results]
  BY <1>1 DEF Start, AdoptionState, Results
<1> QED
  BY <1>2, <1>3, <1>5, <1>6, <1>7, <1>8, <1>9, <1>10, <1>11 DEF TypeOK

\* The end of an inform leaves time, telemetry and monitor in their types.
LEMMA EndedType ==
    ASSUME TypeOK, NEW result \in Results, NEW reached \in BOOLEAN, NEW adopted \in BOOLEAN,
           Ended(result, reached, adopted)
    PROVE  /\ now' \in Nat /\ up' \in BOOLEAN /\ config' \in Configurations
           /\ observedAt' \in Nat \cup {None} /\ upstreamOK' \in BOOLEAN
           /\ inflight' \in Nat \cup {None}
           /\ monitor' \in [adopted : BOOLEAN, reached : BOOLEAN, result : Results]
  BY DEF Ended, TypeOK, telemetry

\* So does the end of one that failed.
LEMMA FailedType ==
    ASSUME TypeOK, NEW reached \in BOOLEAN, Failed(reached)
    PROVE  /\ now' \in Nat /\ up' \in BOOLEAN /\ config' \in Configurations
           /\ observedAt' \in Nat \cup {None} /\ upstreamOK' \in BOOLEAN
           /\ inflight' \in Nat \cup {None}
           /\ monitor' \in [adopted : BOOLEAN, reached : BOOLEAN, result : Results]
<1>1. "failure" \in Results /\ monitor.adopted \in BOOLEAN
  BY DEF Results, TypeOK
<1> QED
  BY <1>1, EndedType DEF Failed

\* Starts, crashes and time keep the types.
LEMMA EnvironmentTypeOK == TypeOK /\ Environment => TypeOK'
<1> SUFFICES ASSUME TypeOK, Environment PROVE TypeOK'
  OBVIOUS
<1>1. ASSUME NEW c \in AllowedConfigurations, NEW bad \in SUBSET Kinds, Start(c, bad)
      PROVE  TypeOK'
  BY <1>1, StartTypeOK
<1>2. ASSUME NEW c \in AllowedConfigurations, StartFails(c)
      PROVE  TypeOK'
  BY <1>2, LoadedType DEF StartFails, TypeOK, receipts, telemetry
<1>3. CASE Crash
  BY <1>3 DEF Crash, TypeOK, receipts, telemetry
<1>4. CASE Tick
  BY <1>4 DEF Tick, TypeOK, receipts, telemetry
<1> QED
  BY <1>1, <1>2, <1>3, <1>4 DEF Environment

\* Polls keep the types.
LEMMA PollTypeOK == TypeOK /\ Poll => TypeOK'
  BY DEF Poll, PollSucceeds, PollFails, TypeOK, receipts

\* The ways an inform ends without effect on the adoption state or a receipt.
LEMMA RefusedTypeOK ==
    ASSUME TypeOK, NEW p \in Packets, NEW k \in Kinds,
           \/ EnvelopeRejected(p)
           \/ ResponseRefused(p)
           \/ ReceiptRefused(k, p)
           \/ ReceiptDeferred(k, p)
           \/ ReceiptRejected(k, p)
    PROVE  TypeOK'
<1>1. Failed(TRUE) /\ status' \in [Kinds -> Statuses]
      /\ UNCHANGED <<persistent, window, reported, receipts, diskState, history>>
  BY DEF EnvelopeRejected, ResponseRefused, ReceiptRefused, ReceiptDeferred,
         ReceiptRejected, TypeOK, Statuses
<1> QED
  BY <1>1, FailedType DEF TypeOK, receipts

\* The ways an inform ends in a receipt keep the types.
LEMMA ReceiptTypeOK ==
    ASSUME TypeOK, NEW p \in Packets, NEW k \in Kinds, NEW replaced \in BOOLEAN,
           \/ ReceiptRepeated(k, p)
           \/ ReceiptCommitted(k, p)
           \/ ReceiptCommitFails(k, p, replaced)
           \/ ReceiptRemembered(k, p)
    PROVE  TypeOK'
<1>1. k \in Logs /\ p.nonce \in Nonces \cup {None} /\ None \in Nonces \cup {None}
  BY GatewayAssumption DEF Logs
<1>2. monitor.adopted \in BOOLEAN /\ "success" \in Results
  BY DEF TypeOK, Results
<1>3. CASE ReceiptRepeated(k, p)
  <2>1. p.nonce \in Nonces
    <3>1. adoption.gcm
      BY <1>3 DEF ReceiptRepeated, IsReceipt, Eligible, FirmwareEligible,
                  ReceiptsEligible, ManagedOverHTTP
    <3> QED
      BY <1>3, <3>1, PacketFields DEF ReceiptRepeated, Delivered, Decodes
  <2>2. window' \in Windows
    BY <1>3, <2>1, WithAcceptedType DEF ReceiptRepeated, TypeOK
  <2>3. status' \in [Kinds -> Statuses]
    BY <1>3 DEF ReceiptRepeated, TypeOK, Statuses
  <2>4. Ended("success", TRUE, monitor.adopted)
        /\ UNCHANGED <<persistent, reported, receipts, diskState, history>>
    BY <1>3 DEF ReceiptRepeated
  <2> QED
    BY <1>2, <2>2, <2>3, <2>4, EndedType DEF TypeOK, receipts
<1>4. CASE ReceiptCommitted(k, p) \/ ReceiptRemembered(k, p)
  <2>1. NewMarker(k, p) /\ Published(k, p)
    BY <1>4 DEF ReceiptCommitted, ReceiptRemembered
  <2>2. /\ NextReceipt(k, p) \in Receipts
        /\ MarkerOf(p.body) \in Markers
        /\ WithAccepted(window, p.nonce, FALSE) \in Windows
    BY <2>1, NextReceiptType
  <2>3. /\ receipt' \in [Kinds -> Receipts]
        /\ reported' \in [Kinds -> Markers \cup {None}]
        /\ window' \in Windows
        /\ history' \in [Logs -> BoundedHistory]
    BY <1>1, <2>1, <2>2, LoggedType DEF Published, TypeOK
  <2>4. /\ diskReceipt' \in [Kinds -> Receipts \cup {None}]
        /\ lastWrite' \in [Kinds -> Nat \cup {None}]
        /\ status' \in [Kinds -> Statuses]
    BY <1>4, <2>2 DEF ReceiptCommitted, ReceiptRemembered, TypeOK, Statuses
  <2>5. Ended("success", TRUE, monitor.adopted)
    BY <2>1 DEF Published
  <2>6. UNCHANGED <<persistent, receiptEpoch, blocked, diskState>>
    BY <2>1 DEF Published
  <2>7. /\ persistent' \in States
        /\ receiptEpoch' \in [Kinds -> Contexts \cup {None}]
        /\ blocked' \in [Kinds -> BOOLEAN]
        /\ diskState' \in States \cup {None}
    BY <2>6 DEF TypeOK
  <2>8. /\ now' \in Nat /\ up' \in BOOLEAN /\ config' \in Configurations
        /\ observedAt' \in Nat \cup {None} /\ upstreamOK' \in BOOLEAN
        /\ inflight' \in Nat \cup {None}
        /\ monitor' \in [adopted : BOOLEAN, reached : BOOLEAN, result : Results]
    BY <1>2, <2>5, EndedType
  <2> QED
    BY <2>3, <2>4, <2>7, <2>8 DEF TypeOK
<1>5. CASE ReceiptCommitFails(k, p, replaced)
  <2>1. NextReceipt(k, p) \in Receipts
    BY <1>5, NextReceiptType DEF ReceiptCommitFails
  <2>2. history' \in [Logs -> BoundedHistory]
    <3>1. Logged(k, None) \in [Logs -> BoundedHistory]
      BY <1>1, LoggedType
    <3> QED
      BY <1>5, <3>1 DEF ReceiptCommitFails, TypeOK
  <2>3. /\ diskReceipt' \in [Kinds -> Receipts \cup {None}]
        /\ lastWrite' \in [Kinds -> Nat \cup {None}]
        /\ status' \in [Kinds -> Statuses]
        /\ blocked' \in [Kinds -> BOOLEAN]
    BY <1>5, <2>1 DEF ReceiptCommitFails, TypeOK, Statuses
  <2>4. Failed(TRUE)
        /\ UNCHANGED <<persistent, window, reported, receipt, receiptEpoch, diskState>>
    BY <1>5 DEF ReceiptCommitFails
  <2> QED
    BY <2>2, <2>3, <2>4, FailedType DEF TypeOK
<1> QED
  BY <1>3, <1>4, <1>5

\* The ways an inform ends with a response applied keep the types.
LEMMA ResponseTypeOK ==
    ASSUME TypeOK, NEW p \in Packets, NEW replaced \in BOOLEAN,
           \/ ResponseAccepted(p)
           \/ TransitionCommitted(p)
           \/ TransitionSaveFails(p, replaced)
    PROVE  TypeOK'
<1>1. Delivered(p)
  BY DEF ResponseAccepted, TransitionCommitted, TransitionSaveFails, Supported, Ordinary
<1>2. /\ Granted(p) \in AdoptionState
      /\ adoption.gcm => p.nonce \in Nonces
      /\ NextState(p) \in States
      /\ NextState(p).adoption = Granted(p)
      /\ Rebased(AcceptedWindow(p), NextState(p)) \in Windows
  BY <1>1, NextStateType
<1>3. adoption.adopted \in BOOLEAN /\ Granted(p).adopted \in BOOLEAN /\ "success" \in Results
  BY <1>2 DEF TypeOK, adoption, States, AdoptionState, Results
<1>4. "adoption" \in Logs
  BY DEF Logs
<1>5. CASE ResponseAccepted(p)
  <2> DEFINE marker == VolatileMarker(config, adoption, p.body)
  <2>1. marker \in Markers \cup {None}
    BY PacketFields, BodyFields DEF VolatileMarker, MgmtCfg
  <2>2. persistent' \in States /\ window' \in Windows
    BY <1>2, <1>5 DEF ResponseAccepted
  <2>3. reported' \in [Kinds -> Markers \cup {None}]
    <3> HIDE DEF marker
    <3>1. reported' = IF marker = None THEN reported
                      ELSE [reported EXCEPT !["config"] = marker]
      BY <1>5 DEF ResponseAccepted, marker
    <3> QED
      BY <2>1, <3>1 DEF TypeOK
  <2>4. Ended("success", TRUE, adoption.adopted)
        /\ UNCHANGED <<receipts, status, diskState, history>>
    BY <1>5 DEF ResponseAccepted
  <2> QED
    BY <1>3, <2>2, <2>3, <2>4, EndedType DEF TypeOK, receipts
<1>6. CASE TransitionCommitted(p)
  <2>1. persistent' \in States /\ window' \in Windows /\ diskState' \in States
    BY <1>2, <1>6 DEF TransitionCommitted
  <2>2. reported' \in [Kinds -> Markers \cup {None}]
    BY <1>2, <1>6 DEF TransitionCommitted, DefaultReport, AdoptionState
  <2>3. /\ receipt' \in [Kinds -> Receipts]
        /\ receiptEpoch' \in [Kinds -> Contexts \cup {None}]
    BY <1>2, <1>6, EmptyTypes, EpochType DEF TransitionCommitted, TypeOK
  <2>4. status' \in [Kinds -> Statuses]
    BY <1>6 DEF TransitionCommitted, StatusAfterTransition, TypeOK, Statuses
  <2>5. history' \in [Logs -> BoundedHistory]
    <3>1. adoption.gcm => Append(MakeRoom(history["adoption"]), p.nonce) \in BoundedHistory
      BY <1>2, <1>4, LoggedType
    <3> QED
      BY <1>6, <3>1, EmptyTypes DEF TransitionCommitted
  <2>6. Ended("success", TRUE, Granted(p).adopted)
        /\ UNCHANGED <<blocked, lastWrite, diskReceipt>>
    BY <1>6 DEF TransitionCommitted
  <2>7. /\ now' \in Nat /\ up' \in BOOLEAN /\ config' \in Configurations
        /\ observedAt' \in Nat \cup {None} /\ upstreamOK' \in BOOLEAN
        /\ inflight' \in Nat \cup {None}
        /\ monitor' \in [adopted : BOOLEAN, reached : BOOLEAN, result : Results]
    BY <1>3, <2>6, EndedType
  <2>8. /\ blocked' \in [Kinds -> BOOLEAN]
        /\ lastWrite' \in [Kinds -> Nat \cup {None}]
        /\ diskReceipt' \in [Kinds -> Receipts \cup {None}]
    BY <2>6 DEF TypeOK
  <2> QED
    BY <2>1, <2>2, <2>3, <2>4, <2>5, <2>7, <2>8 DEF TypeOK
<1>7. CASE TransitionSaveFails(p, replaced)
  <2>1. diskState' \in States \cup {None}
    BY <1>2, <1>7 DEF TransitionSaveFails, TypeOK
  <2>2. history' \in [Logs -> BoundedHistory]
    <3>1. Logged("adoption", None) \in [Logs -> BoundedHistory]
      BY <1>4, LoggedType
    <3> QED
      BY <1>7, <3>1 DEF TransitionSaveFails, TypeOK
  <2>3. Failed(TRUE) /\ UNCHANGED <<persistent, window, reported, receipts, status>>
    BY <1>7 DEF TransitionSaveFails
  <2> QED
    BY <2>1, <2>2, <2>3, FailedType DEF TypeOK, receipts
<1> QED
  BY <1>5, <1>6, <1>7

\* Informs keep the types.
LEMMA InformTypeOK == TypeOK /\ Inform => TypeOK'
<1> SUFFICES ASSUME TypeOK, Inform PROVE TypeOK'
  OBVIOUS
<1>1. CASE InformBegin
  <2>1. window' \in Windows
    BY <1>1, RebasedType DEF InformBegin, TypeOK
  <2> QED
    BY <1>1, <2>1 DEF InformBegin, TypeOK, receipts, telemetry
<1>2. ASSUME NEW result \in {"pending", "failure"}, NEW reached \in BOOLEAN,
             ExchangeFails(result, reached)
      PROVE  TypeOK'
  <2>1. result \in Results /\ monitor.adopted \in BOOLEAN
    BY DEF Results, TypeOK
  <2> QED
    BY <1>2, <2>1, EndedType DEF ExchangeFails, TypeOK, receipts
<1>3. "config" \in Kinds
  BY DEF Kinds
<1> QED
  BY <1>1, <1>2, <1>3, RefusedTypeOK, ReceiptTypeOK, ResponseTypeOK DEF Inform

(* Every variable keeps its type: in particular the replay windows, the    *)
(* saved nonces and the receipts never outgrow MaxGCMReplayNonces.         *)
THEOREM TypeCorrect == Spec => []TypeOK
<1>1. TypeOK /\ UNCHANGED vars => TypeOK'
  BY DEF TypeOK, vars, receipts, telemetry
<1>2. TypeOK /\ [Next]_vars => TypeOK'
  BY <1>1, EnvironmentTypeOK, PollTypeOK, InformTypeOK DEF Next
<1> QED
  BY <1>2, InitTypeOK, PTL DEF Spec

-----------------------------------------------------------------------------
(* What is reported, and what an adoption over plain HTTP is pinned to.    *)

\* Where a receipt may be kept.
LEMMA WhereEligible ==
    ASSUME NEW k \in Kinds, NEW c \in Configurations, NEW a \in AdoptionState
    PROVE  /\ ReceiptEpoch(k, c, a) # None <=> Eligible(k, c, a)
           /\ Eligible(k, c, a) =>
                  /\ ReceiptEnabled(k, c) /\ ManagedOverHTTP(a)
                  /\ c.receipts # "off" /\ ~c.volatileSync
                  /\ k = "firmware" => c.receipts = "persistent" /\ Eligible("config", c, a)
<1>1. ContextOf(k, c, a) # None
  BY ConfigurationFields, GatewayAssumption DEF ContextOf, Contexts, AdoptionState
<1>2. ReceiptEpoch(k, c, a) # None <=> Eligible(k, c, a)
  BY <1>1 DEF ReceiptEpoch
<1>3. /\ c.firmwareSync => c.receipts = "persistent"
      /\ c.volatileSync => c.receipts = "off"
  BY DEF Configurations
<1> QED
  BY <1>2, <1>3 DEF Eligible, ReceiptsEligible, FirmwareEligible, ReceiptEnabled, Kinds

\* Under a controller's key nothing but the switch to AES-GCM is granted.
LEMMA PinnedGranted ==
    ASSUME NEW a \in AdoptionState, NEW next, PinnedOverHTTP(a)
    PROVE  Confined(a, next) \in {a, [a EXCEPT !.gcm = TRUE]}
BY DEF PinnedOverHTTP, Confined, InstallsControllerKey

\* After it, nothing.
LEMMA ManagedGranted ==
    ASSUME NEW a \in AdoptionState, ManagedOverHTTP(a)
    PROVE  /\ PinnedOverHTTP(a) /\ [a EXCEPT !.gcm = TRUE] = a
           /\ \A next : Confined(a, next) = a
BY DEF ManagedOverHTTP, PinnedOverHTTP, Confined, InstallsControllerKey, UpgradesToGCM, AdoptionState

\* A pinned device is loaded as its file has it.
LEMMA PinnedLoaded ==
    ASSUME TypeOK, PinnedOnDisk, PinnedOverHTTP(adoption), NEW c
    PROVE  /\ Loaded(c) = diskState
           /\ diskState.adoption \in {adoption, [adoption EXCEPT !.gcm = TRUE]}
           /\ ManagedOverHTTP(adoption) => diskState.adoption = adoption
<1>1. adoption \in AdoptionState /\ persistent \in States
  BY DEF TypeOK, States, adoption
<1>2. /\ diskState # None
      /\ diskState.adoption \in {adoption, [adoption EXCEPT !.gcm = TRUE]}
  BY DEF PinnedOnDisk
<1>3. diskState.adoption.adopted
  BY <1>1, <1>2 DEF PinnedOverHTTP, AdoptionState
<1>4. ManagedOverHTTP(adoption) => [adoption EXCEPT !.gcm = TRUE] = adoption
  BY <1>1, ManagedGranted
<1> QED
  BY <1>2, <1>3, <1>4 DEF Loaded

\* Steps that leave the reports and what they rest on alone.
LEMMA ReportsKept ==
    ASSUME ReportInv,
           UNCHANGED <<config, persistent, reported, receipt, receiptEpoch, blocked,
                       diskReceipt, status, diskState>>,
           up' => up, ~up' => inflight' = None
    PROVE  ReportInv'
<1> USE DEF ReportInv
<1>1. InformUnderWay' /\ PinnedOnDisk' /\ EpochsCurrent'
  BY DEF InformUnderWay, PinnedOnDisk, EpochsCurrent, adoption
<1>2. ReceiptsManaged' /\ ReceiptReported'
  BY DEF ReceiptsManaged, ReceiptReported, adoption, Durable
<1>3. FileReported'
  BY DEF FileReported, Durable
<1>4. StatusAgrees'
  BY DEF StatusAgrees
<1> QED
  BY <1>1, <1>2, <1>3, <1>4

\* Steps that change one status.
LEMMA StatusChanged ==
    ASSUME TypeOK, ReportInv, up,
           NEW k \in Kinds, NEW v \in Statuses, status' = [status EXCEPT ![k] = v],
           ReceiptEnabled(k, config),
           v = "stored" => diskReceipt[k] # None /\ diskReceipt[k].version = reported[k],
           blocked[k] => v \in {"storage_error", "rejected"},
           UNCHANGED <<up, config, persistent, reported, receipts, diskState>>
    PROVE  ReportInv'
<1> USE DEF ReportInv
<1>1. InformUnderWay' /\ PinnedOnDisk' /\ EpochsCurrent'
  BY DEF InformUnderWay, PinnedOnDisk, EpochsCurrent, adoption, receipts
<1>2. ReceiptsManaged' /\ ReceiptReported'
  BY DEF ReceiptsManaged, ReceiptReported, adoption, Durable, receipts
<1>3. FileReported'
  BY DEF FileReported, Durable, receipts
<1>4. StatusAgrees'
  <2>1. status'[k] = v /\ \A l \in Kinds : l # k => status'[l] = status[l]
    BY DEF TypeOK
  <2> QED
    BY <2>1 DEF StatusAgrees, receipts
<1> QED
  BY <1>1, <1>2, <1>3, <1>4

\* Before the first start there is nothing to report.
LEMMA InitReports == Init => ReportInv
<1> SUFFICES ASSUME Init PROVE ReportInv
  OBVIOUS
<1>1. ~up /\ inflight = None /\ ~adoption.adopted
  BY DEF Init, Fresh, NewAdoption, adoption
<1>2. \A k \in Kinds : /\ reported[k] = None /\ receipt[k] = NoReceipt /\ ~blocked[k]
                       /\ receiptEpoch[k] = None /\ diskReceipt[k] = None
                       /\ status[k] = "disabled"
  BY DEF Init
<1>3. \A k \in Kinds : ReceiptEpoch(k, config, adoption) = None
  BY <1>1 DEF ReceiptEpoch, Eligible, FirmwareEligible, ReceiptsEligible, ManagedOverHTTP
<1> QED
  BY <1>1, <1>2, <1>3
     DEF ReportInv, InformUnderWay, PinnedOnDisk, PinnedOverHTTP, EpochsCurrent,
         ReceiptsManaged, ReceiptReported, FileReported, StatusAgrees

\* A failed start may have replaced the file, but not that of a pinned device.
LEMMA StartFailsReports ==
    ASSUME TypeOK, ReportInv, NEW c \in AllowedConfigurations, StartFails(c)
    PROVE  ReportInv'
<1> USE DEF ReportInv
<1>1. ~PinnedOverHTTP(adoption)
  BY PinnedLoaded DEF StartFails
<1>2. UNCHANGED <<up, config, persistent, reported, receipts, inflight, status>>
  BY DEF StartFails
<1>3. InformUnderWay' /\ PinnedOnDisk' /\ EpochsCurrent'
  BY <1>1, <1>2 DEF InformUnderWay, PinnedOnDisk, EpochsCurrent, adoption, receipts
<1>4. ReceiptsManaged' /\ ReceiptReported'
  BY <1>2 DEF ReceiptsManaged, ReceiptReported, adoption, Durable, receipts
<1>5. FileReported'
  BY <1>2 DEF FileReported, Durable, receipts
<1>6. StatusAgrees'
  BY <1>2 DEF StatusAgrees, receipts
<1> QED
  BY <1>3, <1>4, <1>5, <1>6

\* What a start makes of one kind of receipt.
LEMMA StartOf ==
    ASSUME NEW c \in AllowedConfigurations, NEW bad \in SUBSET Kinds, Start(c, bad),
           NEW k \in Kinds
    PROVE  LET s == Loaded(c)
               restored == ReceiptRestored(k, c, s, bad) IN
           /\ receiptEpoch'[k] = ReceiptEpoch(k, c, s.adoption)
           /\ receipt'[k] = IF restored THEN diskReceipt[k] ELSE NoReceipt
           /\ reported'[k] = IF restored THEN diskReceipt[k].version ELSE DefaultReport(k, s)
           /\ blocked'[k] = BlockedAtStart(k, c, s, bad)
           /\ status'[k] = StatusAtStart(k, c, s, bad)
           /\ diskReceipt'[k] = diskReceipt[k]
BY DEF Start

\* A start restores the receipt of the context, unless its file is not read.
LEMMA StartRestores ==
    ASSUME TypeOK, ReportInv, NEW c \in AllowedConfigurations, NEW bad \in SUBSET Kinds,
           Start(c, bad), NEW k \in Kinds,
           k = "firmware" \/ c.receipts = "persistent", ~blocked'[k],
           diskReceipt[k] # None, diskReceipt[k].epoch = receiptEpoch'[k]
    PROVE  \/ ReceiptRestored(k, c, Loaded(c), bad)
           \/ k = "firmware" /\ blocked'["config"]
<1> DEFINE s == Loaded(c)
<1>1. c \in Configurations /\ s \in States /\ s.adoption \in AdoptionState
  BY GatewayAssumption, LoadedType DEF States
<1>2. /\ receiptEpoch'[k] = ReceiptEpoch(k, c, s.adoption)
      /\ ~BlockedAtStart(k, c, s, bad)
  BY StartOf
<1>3. blocked'["config"] = BlockedAtStart("config", c, s, bad) /\ "config" \in Kinds
  BY StartOf DEF Kinds
<1> HIDE DEF s
<1>4. ReceiptEpoch(k, c, s.adoption) # None
  BY <1>2 DEF ReportInv, ReceiptsManaged
<1>5. LoadsReceipt(k, c, s)
  BY <1>4 DEF LoadsReceipt
<1>6. CASE bad \cap {k, "config"} = {}
  BY <1>2, <1>5, <1>6 DEF ReceiptRestored, s
<1>7. CASE bad \cap {k, "config"} # {}
  <2>1. k = "firmware" /\ "config" \in bad
    BY <1>2, <1>5, <1>7 DEF BlockedAtStart, Kinds
  <2>2. LoadsReceipt("config", c, s)
    <3>1. Eligible(k, c, s.adoption)
      BY <1>1, <1>4, WhereEligible
    <3>2. c.receipts = "persistent" /\ Eligible("config", c, s.adoption)
      BY <1>1, <2>1, <3>1, WhereEligible
    <3>3. ReceiptEpoch("config", c, s.adoption) # None
      BY <1>1, <1>3, <3>2, WhereEligible
    <3> QED
      BY <3>2, <3>3 DEF LoadsReceipt
  <2> QED
    BY <1>3, <2>1, <2>2 DEF BlockedAtStart
<1> QED
  BY <1>6, <1>7

\* A start reports what the files hold for its context, and knows what it
\* could not read.
LEMMA StartReports ==
    ASSUME TypeOK, ReportInv, NEW c \in AllowedConfigurations, NEW bad \in SUBSET Kinds,
           Start(c, bad)
    PROVE  ReportInv'
<1> USE DEF ReportInv
<1> DEFINE s == Loaded(c)
<1>1. c \in Configurations /\ s \in States /\ s.adoption \in AdoptionState
  BY GatewayAssumption, LoadedType DEF States
<1>2. /\ up' /\ config' = c /\ diskState' = s /\ persistent' = s /\ adoption' = s.adoption
      /\ diskReceipt' = diskReceipt
  BY DEF Start, adoption
<1>3. ASSUME NEW k \in Kinds
      PROVE  /\ receiptEpoch'[k] = ReceiptEpoch(k, c, s.adoption)
             /\ receipt'[k] = IF ReceiptRestored(k, c, s, bad) THEN diskReceipt[k] ELSE NoReceipt
             /\ reported'[k] = IF ReceiptRestored(k, c, s, bad)
                               THEN diskReceipt[k].version ELSE DefaultReport(k, s)
             /\ blocked'[k] = BlockedAtStart(k, c, s, bad)
             /\ status'[k] = StatusAtStart(k, c, s, bad)
  BY StartOf
<1>4. ASSUME NEW k \in Kinds, ReceiptRestored(k, c, s, bad)
      PROVE  /\ diskReceipt[k] # None /\ diskReceipt[k].epoch = receiptEpoch'[k]
             /\ receiptEpoch'[k] # None
  BY <1>3, <1>4 DEF ReceiptRestored, LoadsReceipt
<1>5. ASSUME NEW k \in Kinds, k = "firmware" \/ c.receipts = "persistent", ~blocked'[k],
             diskReceipt[k] # None, diskReceipt[k].epoch = receiptEpoch'[k]
      PROVE  ReceiptRestored(k, c, s, bad) \/ (k = "firmware" /\ blocked'["config"])
  BY <1>5, StartRestores
<1>6. ManagedOverHTTP(adoption) => s.adoption = adoption
  <2>1. ManagedOverHTTP(adoption) => PinnedOverHTTP(adoption)
    BY DEF ManagedOverHTTP, PinnedOverHTTP
  <2> QED
    BY <2>1, PinnedLoaded
<1>7. s # None
  BY <1>1, GatewayAssumption
<1> HIDE DEF s
<1>8. InformUnderWay' /\ PinnedOnDisk' /\ EpochsCurrent'
  BY <1>2, <1>3, <1>7 DEF InformUnderWay, PinnedOnDisk, EpochsCurrent
<1>9. ReceiptsManaged'
  BY <1>2, <1>3, <1>4, <1>6 DEF ReceiptsManaged
<1>10. ReceiptReported'
  BY <1>2, <1>3 DEF ReceiptReported
<1>11. FileReported'
  <2> SUFFICES ASSUME NEW k \in Kinds, k = "firmware" \/ c.receipts = "persistent", ~blocked'[k]
               PROVE  \/ /\ diskReceipt[k] # None
                         /\ diskReceipt[k].epoch = receiptEpoch'[k]
                         /\ reported'[k] = diskReceipt[k].version
                      \/ /\ reported'[k] = DefaultReport(k, s)
                         /\ \/ diskReceipt[k] = None
                            \/ diskReceipt[k].epoch # receiptEpoch'[k]
                            \/ k = "firmware" /\ blocked'["config"]
    BY <1>2 DEF FileReported, Durable
  <2> QED
    BY <1>3, <1>4, <1>5
<1>12. StatusAgrees'
  <2> SUFFICES ASSUME NEW k \in Kinds
               PROVE  /\ ~ReceiptEnabled(k, c) => status'[k] = "disabled"
                      /\ status'[k] = "stored" => /\ diskReceipt[k] # None
                                                 /\ diskReceipt[k].version = reported'[k]
                      /\ blocked'[k] => status'[k] \in {"storage_error", "rejected"}
    BY <1>2 DEF StatusAgrees
  <2>1. LoadsReceipt(k, c, s) => ReceiptEnabled(k, c)
    BY <1>1, WhereEligible DEF LoadsReceipt
  <2>2. blocked'[k] => LoadsReceipt(k, c, s) /\ bad \cap {k, "config"} # {}
    BY <1>3 DEF BlockedAtStart
  <2>3. status'[k] = "stored" => ReceiptRestored(k, c, s, bad)
    BY <1>3 DEF StatusAtStart
  <2>4. ~ReceiptEnabled(k, c) => status'[k] = "disabled"
    BY <1>3 DEF StatusAtStart
  <2>5. blocked'[k] => status'[k] = "storage_error"
    BY <1>3, <2>1, <2>2 DEF StatusAtStart
  <2> QED
    BY <1>3, <1>4, <2>3, <2>4, <2>5
<1> QED
  BY <1>8, <1>9, <1>10, <1>11, <1>12

\* Responses that have no effect but on a status.
LEMMA RefusalsReport ==
    ASSUME TypeOK, ReportInv, NEW p \in Packets, NEW k \in Kinds,
           \/ EnvelopeRejected(p)
           \/ ResponseRefused(p)
           \/ ReceiptRefused(k, p)
           \/ ReceiptDeferred(k, p)
           \/ ReceiptRejected(k, p)
    PROVE  ReportInv'
<1>1. CASE EnvelopeRejected(p) \/ ResponseRefused(p)
  <2>1. /\ UNCHANGED <<up, config, persistent, reported, receipts, status, diskState>>
        /\ up
    BY <1>1 DEF EnvelopeRejected, ResponseRefused, Ordinary, Delivered, Failed, Ended
  <2> QED
    BY <2>1, ReportsKept DEF receipts
<1>2. CASE ReceiptRefused(k, p) \/ ReceiptDeferred(k, p) \/ ReceiptRejected(k, p)
  <2>1. up /\ Eligible(k, config, adoption)
    BY <1>2 DEF ReceiptRefused, ReceiptDeferred, ReceiptRejected, NewMarker, IsReceipt, Delivered
  <2>2. ReceiptEnabled(k, config)
    BY <2>1, WhereEligible DEF TypeOK, adoption, States
  <2>3. UNCHANGED <<up, config, persistent, reported, receipts, diskState>>
    BY <1>2 DEF ReceiptRefused, ReceiptDeferred, ReceiptRejected, Failed, Ended
  <2>4. /\ "storage_error" \in Statuses /\ "rejected" \in Statuses
        /\ "rate_limited" \in Statuses
    BY DEF Statuses
  <2>5. CASE ReceiptRefused(k, p)
    <3>1. status' = [status EXCEPT ![k] = "storage_error"]
      BY <2>5 DEF ReceiptRefused
    <3> QED
      BY <2>1, <2>2, <2>3, <2>4, <3>1, StatusChanged
  <2>6. CASE ReceiptDeferred(k, p)
    <3>1. status' = [status EXCEPT ![k] = "rate_limited"] /\ ~blocked[k]
      BY <2>6 DEF ReceiptDeferred, NewMarker, ReceiptUnavailable
    <3> QED
      BY <2>1, <2>2, <2>3, <2>4, <3>1, StatusChanged
  <2>7. CASE ReceiptRejected(k, p)
    <3>1. status' = [status EXCEPT ![k] = "rejected"]
      BY <2>7 DEF ReceiptRejected
    <3> QED
      BY <2>1, <2>2, <2>3, <2>4, <3>1, StatusChanged
  <2> QED
    BY <1>2, <2>5, <2>6, <2>7
<1> QED
  BY <1>1, <1>2

\* A marker that is reported already: its receipt is the one in the file.
LEMMA RepeatedReports ==
    ASSUME TypeOK, ReportInv, NEW p \in Packets, NEW k \in Kinds, ReceiptRepeated(k, p)
    PROVE  ReportInv'
<1> DEFINE v == IF Durable(k) THEN "stored" ELSE "received"
<1>1. /\ up /\ ~blocked[k] /\ MarkerOf(p.body) = receipt[k].version
      /\ IsReceipt(k, p.body) /\ Eligible(k, config, adoption)
  BY DEF ReceiptRepeated, Delivered, ReceiptUnavailable, IsReceipt
<1>2. ReceiptEnabled(k, config)
  BY <1>1, WhereEligible DEF TypeOK, adoption, States
<1>3. receipt[k].version # None
  <2>1. MarkerOf(p.body) # None
    <3>1. CASE k = "config"
      BY <1>1, <3>1 DEF IsReceipt, IsConfigReceipt, MarkerOf
    <3>2. CASE k = "firmware"
      BY <1>1, <3>2, PacketFields, BodyFields, AdoptionAssumption
         DEF IsReceipt, IsFirmwareTarget, MarkerOf
    <3> QED
      BY <3>1, <3>2 DEF Kinds
  <2> QED
    BY <1>1, <2>1
<1>4. receipt[k] # NoReceipt
  BY <1>3 DEF NoReceipt
<1>5. v = "stored" => diskReceipt[k] # None /\ diskReceipt[k].version = reported[k]
  <2>1. receipt[k] # None
    BY GatewayAssumption DEF TypeOK
  <2> QED
    BY <1>1, <1>4, <2>1 DEF ReportInv, ReceiptReported
<1>6. v \in Statuses /\ status' = [status EXCEPT ![k] = v]
  BY DEF ReceiptRepeated, Statuses
<1>7. UNCHANGED <<up, config, persistent, reported, receipts, diskState>>
  BY DEF ReceiptRepeated, Ended
<1> HIDE DEF v
<1> QED
  BY <1>1, <1>2, <1>5, <1>6, <1>7, StatusChanged

\* What a new marker has to be stored with.
LEMMA NewMarkerFields ==
    ASSUME TypeOK, NEW p \in Packets, NEW k \in Kinds, NewMarker(k, p)
    PROVE  /\ up /\ ~blocked[k] /\ receiptEpoch[k] # None
           /\ ManagedOverHTTP(adoption) /\ ReceiptEnabled(k, config)
           /\ NextReceipt(k, p).epoch = receiptEpoch[k]
           /\ NextReceipt(k, p).version = MarkerOf(p.body)
           /\ NextReceipt(k, p) \notin {None, NoReceipt}
<1>1. /\ up /\ ~blocked[k] /\ receiptEpoch[k] # None
      /\ Eligible(k, config, adoption)
  BY DEF NewMarker, Delivered, ReceiptUnavailable, IsReceipt
<1>2. ManagedOverHTTP(adoption) /\ ReceiptEnabled(k, config)
  BY <1>1, WhereEligible DEF TypeOK, adoption, States
<1>3. /\ NextReceipt(k, p).epoch = receiptEpoch[k]
      /\ NextReceipt(k, p).version = MarkerOf(p.body)
  BY DEF NextReceipt, NewReceipt
<1>4. NextReceipt(k, p) # None
  BY NextReceiptType, GatewayAssumption
<1>5. NextReceipt(k, p) # NoReceipt
  BY <1>1, <1>3 DEF NoReceipt
<1> QED
  BY <1>1, <1>2, <1>3, <1>4, <1>5

\* A marker that is published is reported, stored first where receipts persist.
LEMMA PublishedReports ==
    ASSUME TypeOK, ReportInv, NEW p \in Packets, NEW k \in Kinds,
           ReceiptCommitted(k, p) \/ ReceiptRemembered(k, p)
    PROVE  ReportInv'
<1> USE DEF ReportInv
<1> DEFINE r == NextReceipt(k, p)
<1>1. NewMarker(k, p) /\ Published(k, p)
  BY DEF ReceiptCommitted, ReceiptRemembered
<1>2. /\ up /\ ~blocked[k] /\ receiptEpoch[k] # None
      /\ ManagedOverHTTP(adoption) /\ ReceiptEnabled(k, config)
      /\ r.epoch = receiptEpoch[k] /\ r \notin {None, NoReceipt}
  BY <1>1, NewMarkerFields
<1>3. UNCHANGED <<up, config, persistent, receiptEpoch, blocked, diskState>>
  BY <1>1 DEF Published, Ended
<1>4. /\ receipt'[k] = r /\ reported'[k] = r.version
      /\ \A l \in Kinds : l # k => receipt'[l] = receipt[l] /\ reported'[l] = reported[l]
  BY <1>1, NewMarkerFields DEF Published, TypeOK
<1>5. /\ diskReceipt'[k] = IF Durable(k) THEN r ELSE diskReceipt[k]
      /\ status'[k] = IF Durable(k) THEN "stored" ELSE "received"
      /\ \A l \in Kinds : l # k => diskReceipt'[l] = diskReceipt[l] /\ status'[l] = status[l]
  BY DEF ReceiptCommitted, ReceiptRemembered, TypeOK
<1> HIDE DEF r
<1>6. InformUnderWay' /\ PinnedOnDisk' /\ EpochsCurrent'
  BY <1>2, <1>3 DEF InformUnderWay, PinnedOnDisk, EpochsCurrent, adoption
<1>7. ReceiptsManaged'
  BY <1>2, <1>3, <1>4, <1>5 DEF ReceiptsManaged, adoption
<1>8. ReceiptReported'
  BY <1>3, <1>4, <1>5 DEF ReceiptReported, Durable
<1>9. FileReported'
  BY <1>2, <1>3, <1>4, <1>5 DEF FileReported, Durable
<1>10. StatusAgrees'
  BY <1>2, <1>3, <1>4, <1>5 DEF StatusAgrees
<1> QED
  BY <1>6, <1>7, <1>8, <1>9, <1>10

\* A failed commit changes the file at most, and blocks the receipt.
LEMMA CommitFailsReports ==
    ASSUME TypeOK, ReportInv, NEW p \in Packets, NEW k \in Kinds, NEW replaced \in BOOLEAN,
           ReceiptCommitFails(k, p, replaced)
    PROVE  ReportInv'
<1> USE DEF ReportInv
<1> DEFINE r == NextReceipt(k, p)
<1>1. NewMarker(k, p)
  BY DEF ReceiptCommitFails
<1>2. /\ up /\ receiptEpoch[k] # None
      /\ ManagedOverHTTP(adoption) /\ ReceiptEnabled(k, config)
      /\ r.epoch = receiptEpoch[k]
  BY <1>1, NewMarkerFields
<1>3. UNCHANGED <<up, config, persistent, reported, receipt, receiptEpoch, diskState>>
  BY DEF ReceiptCommitFails, Failed, Ended
<1>4. /\ diskReceipt'[k] \in {r, diskReceipt[k]}
      /\ status'[k] = "storage_error" /\ blocked'[k]
      /\ \A l \in Kinds : l # k => /\ diskReceipt'[l] = diskReceipt[l]
                                   /\ status'[l] = status[l]
                                   /\ blocked'[l] = blocked[l]
  BY DEF ReceiptCommitFails, TypeOK
<1> HIDE DEF r
<1>5. \A l \in Kinds : ~blocked'[l] => l # k
  BY <1>4
<1>6. InformUnderWay' /\ PinnedOnDisk' /\ EpochsCurrent'
  BY <1>2, <1>3 DEF InformUnderWay, PinnedOnDisk, EpochsCurrent, adoption
<1>7. ReceiptsManaged'
  BY <1>2, <1>3, <1>4 DEF ReceiptsManaged, adoption
<1>8. ReceiptReported'
  BY <1>3, <1>4, <1>5 DEF ReceiptReported, Durable
<1>9. FileReported'
  <2> SUFFICES ASSUME NEW l \in Kinds, Durable(l), ~blocked'[l]
               PROVE  \/ /\ diskReceipt'[l] # None
                         /\ diskReceipt'[l].epoch = receiptEpoch'[l]
                         /\ reported'[l] = diskReceipt'[l].version
                      \/ /\ reported'[l] = DefaultReport(l, persistent)
                         /\ \/ diskReceipt'[l] = None
                            \/ diskReceipt'[l].epoch # receiptEpoch'[l]
                            \/ l = "firmware" /\ blocked'["config"]
    BY <1>3 DEF FileReported, Durable
  <2>1. l # k /\ diskReceipt'[l] = diskReceipt[l] /\ ~blocked[l]
    BY <1>4
  <2>2. "config" \in Kinds /\ (blocked["config"] => blocked'["config"])
    BY <1>4 DEF Kinds
  <2> QED
    BY <1>2, <1>3, <2>1, <2>2 DEF FileReported
<1>10. StatusAgrees'
  BY <1>2, <1>3, <1>4 DEF StatusAgrees
<1> QED
  BY <1>6, <1>7, <1>8, <1>9, <1>10

\* A response that leaves the adoption state alone moves a volatile marker at
\* most, and those are reported only where receipts are off.
LEMMA AcceptedReports ==
    ASSUME TypeOK, ReportInv, NEW p \in Packets, ResponseAccepted(p)
    PROVE  ReportInv'
<1> USE DEF ReportInv
<1> DEFINE marker == VolatileMarker(config, adoption, p.body)
<1>1. up /\ Delivered(p) /\ Granted(p) = adoption
  BY DEF ResponseAccepted, Supported, Ordinary, Delivered
<1>2. adoption' = adoption /\ persistent'.adoption = persistent.adoption
  BY <1>1, NextStateType DEF ResponseAccepted, adoption
<1>3. UNCHANGED <<up, config, receipt, receiptEpoch, blocked, diskReceipt, status, diskState>>
  BY DEF ResponseAccepted, Ended, receipts
<1>4. reported' = IF marker = None THEN reported ELSE [reported EXCEPT !["config"] = marker]
  BY DEF ResponseAccepted
<1>5. /\ \A k \in Kinds : k = "firmware" => reported'[k] = reported[k]
      /\ marker = None => reported' = reported
  BY <1>4 DEF TypeOK, Kinds
<1>6. marker # None => /\ config.receipts = "off"
                       /\ ~Eligible("config", config, adoption)
                       /\ ~Eligible("firmware", config, adoption)
  BY DEF VolatileMarker, TypeOK, Configurations, Eligible, FirmwareEligible, ReceiptsEligible
<1> HIDE DEF marker
<1>7. ASSUME marker # None, NEW k \in Kinds
      PROVE  /\ receiptEpoch[k] = None /\ receipt[k] = NoReceipt
             /\ Durable(k) => k = "firmware"
             /\ k = "config" => status[k] = "disabled"
  <2>1. receiptEpoch[k] = None
    BY <1>6, <1>7 DEF EpochsCurrent, ReceiptEpoch, Kinds
  <2>2. receipt[k] = NoReceipt
    BY <2>1 DEF ReceiptsManaged
  <2> QED
    BY <1>6, <1>7, <2>1, <2>2 DEF Durable, StatusAgrees, ReceiptEnabled, Kinds
<1>8. InformUnderWay' /\ PinnedOnDisk' /\ EpochsCurrent'
  BY <1>1, <1>2, <1>3 DEF InformUnderWay, PinnedOnDisk, EpochsCurrent
<1>9. ReceiptsManaged'
  BY <1>2, <1>3 DEF ReceiptsManaged
<1>10. ReceiptReported'
  BY <1>3, <1>5, <1>7 DEF ReceiptReported, Durable
<1>11. FileReported'
  <2>1. ASSUME NEW k \in Kinds, Durable(k) PROVE reported'[k] = reported[k]
    BY <1>5, <1>7, <2>1
  <2>2. \A k \in Kinds : DefaultReport(k, persistent') = DefaultReport(k, persistent)
    BY <1>2 DEF DefaultReport
  <2> QED
    BY <1>3, <2>1, <2>2 DEF FileReported, Durable
<1>12. StatusAgrees'
  <2>1. ASSUME NEW k \in Kinds, status[k] = "stored" PROVE reported'[k] = reported[k]
    BY <1>5, <1>7, <2>1 DEF Kinds
  <2> QED
    BY <1>3, <2>1 DEF StatusAgrees
<1> QED
  BY <1>8, <1>9, <1>10, <1>11, <1>12

\* A transition leaves every context, and there is no receipt in a file yet.
LEMMA CommittedReports ==
    ASSUME TypeOK, ReportInv, NEW p \in Packets, TransitionCommitted(p)
    PROVE  ReportInv'
<1> USE DEF ReportInv
<1> DEFINE s == NextState(p)
<1>1. up /\ Delivered(p) /\ Granted(p) # adoption
  BY DEF TransitionCommitted, Supported, Ordinary, Delivered
<1>2. s \in States /\ s.adoption = Granted(p)
  BY <1>1, NextStateType
<1>3. ~ManagedOverHTTP(adoption)
  BY <1>1, ManagedGranted DEF Granted, TypeOK, adoption, States
<1>4. /\ UNCHANGED <<up, config, blocked, diskReceipt>>
      /\ persistent' = s /\ diskState' = s /\ adoption' = Granted(p)
  BY <1>2 DEF TransitionCommitted, Ended, adoption
<1>5. \A k \in Kinds : /\ reported'[k] = DefaultReport(k, s)
                       /\ receipt'[k] = NoReceipt
                       /\ receiptEpoch'[k] = ReceiptEpoch(k, config, Granted(p))
                       /\ status'[k] = StatusAfterTransition(k)
                       /\ diskReceipt[k] = None
  BY <1>3 DEF TransitionCommitted, ReceiptsManaged
<1>6. s # None
  BY <1>2, GatewayAssumption
<1> HIDE DEF s
<1>7. InformUnderWay' /\ PinnedOnDisk' /\ EpochsCurrent'
  BY <1>1, <1>2, <1>4, <1>5, <1>6 DEF InformUnderWay, PinnedOnDisk, EpochsCurrent
<1>8. ReceiptsManaged' /\ ReceiptReported'
  BY <1>4, <1>5 DEF ReceiptsManaged, ReceiptReported
<1>9. FileReported'
  BY <1>4, <1>5 DEF FileReported, Durable
<1>10. StatusAgrees'
  BY <1>4, <1>5 DEF StatusAgrees, StatusAfterTransition
<1> QED
  BY <1>7, <1>8, <1>9, <1>10

\* A failed save of a transition may leave the file ahead: by the switch to
\* AES-GCM at most, where the device is pinned.
LEMMA SaveFailsReports ==
    ASSUME TypeOK, ReportInv, NEW p \in Packets, NEW replaced \in BOOLEAN,
           TransitionSaveFails(p, replaced)
    PROVE  ReportInv'
<1> USE DEF ReportInv
<1>1. up /\ Delivered(p)
  BY DEF TransitionSaveFails, Supported, Ordinary, Delivered
<1>2. NextState(p) \in States /\ NextState(p).adoption = Granted(p)
  BY <1>1, NextStateType
<1>3. NextState(p) # None
  BY <1>2, GatewayAssumption
<1>4. /\ UNCHANGED <<up, config, persistent, reported, receipts, status>>
      /\ diskState' \in {NextState(p), diskState}
  BY DEF TransitionSaveFails, Failed, Ended
<1>5. PinnedOverHTTP(adoption) => Granted(p) \in {adoption, [adoption EXCEPT !.gcm = TRUE]}
  BY PinnedGranted DEF Granted, TypeOK, adoption, States
<1>6. InformUnderWay' /\ PinnedOnDisk' /\ EpochsCurrent'
  BY <1>1, <1>2, <1>3, <1>4, <1>5 DEF InformUnderWay, PinnedOnDisk, EpochsCurrent, adoption, receipts
<1>7. ReceiptsManaged' /\ ReceiptReported'
  BY <1>4 DEF ReceiptsManaged, ReceiptReported, adoption, Durable, receipts
<1>8. FileReported'
  BY <1>4 DEF FileReported, Durable, receipts
<1>9. StatusAgrees'
  BY <1>4 DEF StatusAgrees, receipts
<1> QED
  BY <1>6, <1>7, <1>8, <1>9

\* Informs keep the account of what is reported.
LEMMA InformReports == TypeOK /\ ReportInv /\ Inform => ReportInv'
<1> SUFFICES ASSUME TypeOK, ReportInv, Inform PROVE ReportInv'
  OBVIOUS
<1>1. CASE InformBegin
  BY <1>1, ReportsKept DEF InformBegin, receipts
<1>2. ASSUME NEW result \in {"pending", "failure"}, NEW reached \in BOOLEAN,
             ExchangeFails(result, reached)
      PROVE  ReportInv'
  <2>1. /\ up
        /\ UNCHANGED <<up, config, persistent, reported, receipts, status, diskState>>
    BY <1>2 DEF ExchangeFails, Ended
  <2> QED
    BY <2>1, ReportsKept DEF receipts
<1>3. "config" \in Kinds
  BY DEF Kinds
<1> QED
  BY <1>1, <1>2, <1>3, RefusalsReport, RepeatedReports, PublishedReports, CommitFailsReports,
     AcceptedReports, CommittedReports, SaveFailsReports DEF Inform

\* Starts, crashes and time keep it.
LEMMA EnvironmentReports == TypeOK /\ ReportInv /\ Environment => ReportInv'
<1> SUFFICES ASSUME TypeOK, ReportInv, Environment PROVE ReportInv'
  OBVIOUS
<1>1. CASE Crash
  BY <1>1, ReportsKept DEF Crash, receipts
<1>2. CASE Tick
  <2>1. UNCHANGED <<up, config, persistent, reported, receipts, inflight, status, diskState>>
    BY <1>2 DEF Tick
  <2> QED
    BY <2>1, ReportsKept DEF receipts, ReportInv, InformUnderWay
<1> QED
  BY <1>1, <1>2, StartReports, StartFailsReports DEF Environment

\* Polls keep it.
LEMMA PollReports == TypeOK /\ ReportInv /\ Poll => ReportInv'
<1> SUFFICES ASSUME TypeOK, ReportInv, Poll PROVE ReportInv'
  OBVIOUS
<1>1. /\ up
      /\ UNCHANGED <<up, config, persistent, reported, receipts, inflight, status, diskState>>
  BY DEF Poll, PollSucceeds, PollFails
<1> QED
  BY <1>1, ReportsKept DEF receipts

\* The invariant the theorems about reports and pinning follow from.
LEMMA ReportInvariant == Spec => [](TypeOK /\ ReportInv)
<1>1. TypeOK /\ ReportInv /\ UNCHANGED vars => ReportInv'
  <2> SUFFICES ASSUME TypeOK, ReportInv, UNCHANGED vars PROVE ReportInv'
    OBVIOUS
  <2> QED
    BY ReportsKept DEF vars, receipts, ReportInv, InformUnderWay
<1>2. TypeOK /\ ReportInv /\ [Next]_vars => ReportInv'
  BY <1>1, EnvironmentReports, PollReports, InformReports DEF Next
<1> QED
  BY <1>2, TypeCorrect, InitReports, PTL DEF Spec

(* Whatever files, failed saves and failed commits a run came from, a      *)
(* report that deviates from the adoption state is the one in the receipt  *)
(* file of its context, unless a failed commit left the file ahead.        *)
THEOREM ReportsDurable == Spec => []ReportedMarkerDurable
<1>1. ASSUME ReportInv PROVE ReportedMarkerDurable
  <2> SUFFICES ASSUME up, NEW k \in Kinds, k = "config" => config.receipts = "persistent",
                      ~blocked[k], reported[k] # DefaultReport(k, persistent)
               PROVE  /\ diskReceipt[k] # None
                      /\ diskReceipt[k].version = reported[k]
                      /\ diskReceipt[k].epoch = ReceiptEpoch(k, config, adoption)
    BY DEF ReportedMarkerDurable
  <2>1. Durable(k)
    BY DEF Durable, Kinds
  <2> QED
    BY <1>1, <2>1 DEF ReportInv, FileReported, EpochsCurrent
<1> QED
  BY <1>1, ReportInvariant, PTL

(* The receipt statuses of /readyz never say more than the files do, and   *)
(* never hide a receipt whose storage failed.                              *)
THEOREM StatusesTruthful == Spec => []StatusTruthful
<1>1. ReportInv => StatusTruthful
  BY DEF ReportInv, StatusAgrees, StatusTruthful
<1> QED
  BY <1>1, ReportInvariant, PTL

(* Once a device adopted over plain HTTP has a controller's key, no        *)
(* response, restart, failed save or reconfiguration moves its adoption    *)
(* state, but for one switch to AES-GCM.                                   *)
THEOREM AlwaysPinned == Spec => AdoptionPinned
<1>1. ASSUME TypeOK, ReportInv, [Next]_vars, up', PinnedOverHTTP(adoption)
      PROVE  adoption' \in {adoption, [adoption EXCEPT !.gcm = TRUE]}
  <2> USE <1>1
  <2>1. ASSUME NEW c \in AllowedConfigurations, NEW bad \in SUBSET Kinds, Start(c, bad)
        PROVE  adoption' \in {adoption, [adoption EXCEPT !.gcm = TRUE]}
    <3>1. Loaded(c) = diskState
          /\ diskState.adoption \in {adoption, [adoption EXCEPT !.gcm = TRUE]}
      BY PinnedLoaded DEF ReportInv
    <3>2. adoption' = Loaded(c).adoption
      BY <2>1 DEF Start, adoption
    <3> QED
      BY <3>1, <3>2
  <2>2. ASSUME NEW p \in Packets, TransitionCommitted(p)
        PROVE  adoption' \in {adoption, [adoption EXCEPT !.gcm = TRUE]}
    <3>1. Delivered(p)
      BY <2>2 DEF TransitionCommitted, Supported, Ordinary
    <3>2. adoption' = Granted(p)
      BY <2>2, <3>1, NextStateType DEF TransitionCommitted, adoption
    <3> QED
      BY <3>2, PinnedGranted DEF Granted, TypeOK, adoption, States
  <2>3. ASSUME NEW p \in Packets, ResponseAccepted(p)
        PROVE  adoption' = adoption
    <3>1. Delivered(p) /\ Granted(p) = adoption
      BY <2>3 DEF ResponseAccepted, Supported, Ordinary
    <3> QED
      BY <2>3, <3>1, NextStateType DEF ResponseAccepted, adoption
  <2>4. ASSUME NEW p \in Packets, NEW k \in Kinds,
               ReceiptCommitted(k, p) \/ ReceiptRemembered(k, p)
        PROVE  adoption' = adoption
    BY <2>4 DEF ReceiptCommitted, ReceiptRemembered, Published, adoption
  <2>5. ASSUME NEW p \in Packets, NEW k \in Kinds, NEW replaced \in BOOLEAN,
               \/ ReceiptRefused(k, p) \/ ReceiptRepeated(k, p) \/ ReceiptDeferred(k, p)
               \/ ReceiptCommitFails(k, p, replaced) \/ ReceiptRejected(k, p)
               \/ EnvelopeRejected(p) \/ ResponseRefused(p)
               \/ TransitionSaveFails(p, replaced)
        PROVE  adoption' = adoption
    BY <2>5 DEF ReceiptRefused, ReceiptRepeated, ReceiptDeferred, ReceiptCommitFails,
                ReceiptRejected, EnvelopeRejected, ResponseRefused, TransitionSaveFails, adoption
  <2>6. CASE InformBegin \/ \E result \in {"pending", "failure"}, reached \in BOOLEAN :
                                ExchangeFails(result, reached)
    BY <2>6 DEF InformBegin, ExchangeFails, adoption
  <2>7. CASE Poll \/ Tick \/ Crash \/ \E c \in AllowedConfigurations : StartFails(c)
    BY <2>7 DEF Poll, PollSucceeds, PollFails, Tick, Crash, StartFails, adoption
  <2>8. CASE UNCHANGED vars
    BY <2>8 DEF vars, adoption
  <2>9. "config" \in Kinds
    BY DEF Kinds
  <2>10. CASE Inform
    BY <2>2, <2>3, <2>4, <2>5, <2>6, <2>9, <2>10 DEF Inform
  <2>11. CASE Environment
    BY <2>1, <2>7, <2>11 DEF Environment
  <2> QED
    BY <2>7, <2>8, <2>10, <2>11 DEF Next
<1>2. TypeOK /\ ReportInv /\ [Next]_vars =>
          [up' /\ PinnedOverHTTP(adoption) =>
              adoption' \in {adoption, [adoption EXCEPT !.gcm = TRUE]}]_vars
  BY <1>1
<1> QED
  BY <1>2, ReportInvariant, PTL DEF Spec, AdoptionPinned

(* After a commit whose outcome is unknown no receipt of that kind, and of *)
(* none that depends on it, is written again before a restart.             *)
THEOREM BlockedStays == Spec => BlockedUntilRestart
<1>1. ASSUME TypeOK, [Next]_vars, up, up', NEW l \in Kinds, blocked[l] \/ blocked["config"]
      PROVE  /\ blocked'[l] = blocked[l]
             /\ diskReceipt'[l] = diskReceipt[l]
             /\ lastWrite'[l] = lastWrite[l]
  <2> USE <1>1
  <2> DEFINE Goal == UNCHANGED <<blocked[l], diskReceipt[l], lastWrite[l]>>
  <2>1. CASE UNCHANGED <<blocked, diskReceipt, lastWrite>>
    BY <2>1
  <2>2. ASSUME NEW p \in Packets, NEW k \in Kinds, NEW replaced \in BOOLEAN,
               \/ ReceiptCommitted(k, p) \/ ReceiptCommitFails(k, p, replaced)
        PROVE  Goal
    <3>1. k # l
      BY <2>2 DEF ReceiptCommitted, ReceiptCommitFails, NewMarker, ReceiptUnavailable
    <3> QED
      BY <2>2, <3>1 DEF ReceiptCommitted, ReceiptCommitFails, Published, TypeOK
  <2>3. ASSUME NEW p \in Packets, NEW k \in Kinds, NEW replaced \in BOOLEAN,
               \/ ReceiptRefused(k, p) \/ ReceiptRepeated(k, p) \/ ReceiptDeferred(k, p)
               \/ ReceiptRemembered(k, p) \/ ReceiptRejected(k, p)
               \/ EnvelopeRejected(p) \/ ResponseRefused(p) \/ ResponseAccepted(p)
               \/ TransitionCommitted(p) \/ TransitionSaveFails(p, replaced)
        PROVE  UNCHANGED <<blocked, diskReceipt, lastWrite>>
    BY <2>3 DEF ReceiptRefused, ReceiptRepeated, ReceiptDeferred, ReceiptRemembered, Published,
                ReceiptRejected, EnvelopeRejected, ResponseRefused, ResponseAccepted,
                TransitionCommitted, TransitionSaveFails, receipts
  <2>4. CASE InformBegin \/ \E result \in {"pending", "failure"}, reached \in BOOLEAN :
                                ExchangeFails(result, reached)
    BY <2>1, <2>4 DEF InformBegin, ExchangeFails, receipts
  <2>5. CASE Poll \/ Environment
    BY <2>1, <2>5 DEF Poll, PollSucceeds, PollFails, Environment, Start, Tick, Crash,
                      StartFails, receipts
  <2>6. CASE UNCHANGED vars
    BY <2>1, <2>6 DEF vars, receipts
  <2>7. "config" \in Kinds
    BY DEF Kinds
  <2>8. CASE Inform
    <3>1. Goal \/ UNCHANGED <<blocked, diskReceipt, lastWrite>> \/ InformBegin
          \/ \E result \in {"pending", "failure"}, reached \in BOOLEAN :
                 ExchangeFails(result, reached)
      BY <2>2, <2>3, <2>7, <2>8 DEF Inform
    <3> QED
      BY <2>1, <2>4, <3>1
  <2> QED
    BY <2>5, <2>6, <2>8 DEF Next
<1>2. TypeOK /\ [Next]_vars =>
          [up /\ up' =>
              \A k \in Kinds : blocked[k] \/ blocked["config"] =>
                  /\ blocked'[k] = blocked[k]
                  /\ diskReceipt'[k] = diskReceipt[k]
                  /\ lastWrite'[k] = lastWrite[k]]_vars
  BY <1>1
<1> QED
  BY <1>2, TypeCorrect, PTL DEF Spec, BlockedUntilRestart

\* Only a running process takes part in an inform.
LEMMA InformRuns == Inform => up
<1>1. InformBegin => up
  BY DEF InformBegin
<1>2. ASSUME NEW result, NEW reached, ExchangeFails(result, reached) PROVE up
  BY <1>2 DEF ExchangeFails
<1>3. ASSUME NEW p \in Packets, Delivered(p) \/ EnvelopeRejected(p) PROVE up
  BY <1>3 DEF Delivered, EnvelopeRejected
<1>4. ASSUME NEW p \in Packets, NEW replaced,
             \/ ResponseRefused(p) \/ ResponseAccepted(p) \/ TransitionCommitted(p)
             \/ TransitionSaveFails(p, replaced)
      PROVE  up
  BY <1>3, <1>4 DEF ResponseRefused, ResponseAccepted, TransitionCommitted,
                    TransitionSaveFails, Supported, Ordinary
<1>5. ASSUME NEW p \in Packets, NEW k \in Kinds, NEW replaced,
             \/ ReceiptRefused(k, p) \/ ReceiptRepeated(k, p) \/ ReceiptDeferred(k, p)
             \/ ReceiptCommitted(k, p) \/ ReceiptCommitFails(k, p, replaced)
             \/ ReceiptRemembered(k, p) \/ ReceiptRejected(k, p)
      PROVE  up
  BY <1>3, <1>5 DEF ReceiptRefused, ReceiptRepeated, ReceiptDeferred, ReceiptCommitted,
                    ReceiptCommitFails, ReceiptRemembered, ReceiptRejected, NewMarker
<1> QED
  BY <1>1, <1>2, <1>3, <1>4, <1>5 DEF Inform

(* A restart with the same configuration and state file reports what the   *)
(* process before it reported, where receipt storage worked.               *)
THEOREM RestartsKeepReport == Spec => RestartKeepsReport
<1>1. ASSUME TypeOK, ReportInv, ReportInv', [Next]_vars, ~up, up',
             config' = config, persistent' = persistent, NEW k \in Kinds,
             reported[k] # None, ~blocked[k], ~blocked'[k], ~blocked'["config"],
             k = "config" => config.receipts = "persistent"
      PROVE  reported'[k] = reported[k]
  <2>1. \E c \in AllowedConfigurations, bad \in SUBSET Kinds : Start(c, bad)
    <3>1. ~Poll
      BY <1>1 DEF Poll, PollSucceeds, PollFails
    <3>2. ~Inform
      BY <1>1, InformRuns
    <3>3. ~UNCHANGED up
      BY <1>1
    <3> QED
      BY <1>1, <3>1, <3>2, <3>3 DEF Next, Environment, Crash, Tick, StartFails, vars
  <2>2. diskReceipt' = diskReceipt
    BY <2>1 DEF Start
  <2>3. receiptEpoch'[k] = receiptEpoch[k]
    BY <1>1 DEF ReportInv, EpochsCurrent, adoption
  <2>4. Durable(k) /\ Durable(k)'
    BY <1>1 DEF Durable, Kinds
  <2>5. reported[k] = DefaultReport(k, persistent) => k # "firmware"
    BY <1>1 DEF DefaultReport
  <2>6. \/ /\ diskReceipt[k] # None
           /\ diskReceipt[k].epoch = receiptEpoch[k]
           /\ reported[k] = diskReceipt[k].version
        \/ /\ reported[k] = DefaultReport(k, persistent)
           /\ diskReceipt[k] = None \/ diskReceipt[k].epoch # receiptEpoch[k]
    BY <1>1, <2>4, <2>5 DEF ReportInv, FileReported
  <2>7. \/ /\ diskReceipt[k] # None
           /\ diskReceipt[k].epoch = receiptEpoch[k]
           /\ reported'[k] = diskReceipt[k].version
        \/ /\ reported'[k] = DefaultReport(k, persistent)
           /\ diskReceipt[k] = None \/ diskReceipt[k].epoch # receiptEpoch[k]
    BY <1>1, <2>2, <2>3, <2>4 DEF ReportInv, FileReported
  <2> QED
    BY <2>6, <2>7
<1>2. TypeOK /\ ReportInv /\ ReportInv' /\ [Next]_vars =>
          [~up /\ up' /\ config' = config /\ persistent' = persistent =>
              \A k \in Kinds :
                  \/ reported[k] = None
                  \/ blocked[k] \/ blocked'[k] \/ blocked'["config"]
                  \/ k = "config" /\ config.receipts # "persistent"
                  \/ reported'[k] = reported[k]]_vars
  BY <1>1
<1> QED
  BY <1>2, ReportInvariant, PTL DEF Spec, RestartKeepsReport

=============================================================================
