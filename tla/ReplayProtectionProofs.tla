------------------------ MODULE ReplayProtectionProofs ------------------------
(* Replay protection and loadable files, for every value of the constants. *)
EXTENDS InformGatewayProofs

-----------------------------------------------------------------------------
(* Protects: a list that evicts its oldest entry keeps what its log keeps. *)

\* An empty log needs nothing.
LEMMA ProtectsNothing == ASSUME NEW s PROVE Protects(s, <<>>)
  BY DEF Protects

\* List and log both move on; a lost entry of the log needs no protection.
LEMMA ProtectsAppended ==
    ASSUME NEW s \in BoundedNonces, NEW l \in BoundedHistory, Protects(s, l),
           NEW n \in Nonces, NEW m \in {n, None}
    PROVE  Protects(Append(MakeRoom(s), n), Append(MakeRoom(l), m))
<1> DEFINE t == Append(MakeRoom(s), n)
           u == Append(MakeRoom(l), m)
<1>1. /\ s \in Seq(Nonces) /\ Len(s) \in 0..MaxGCMReplayNonces
      /\ l \in Seq(Nonces \cup {None}) /\ Len(l) \in 0..MaxGCMReplayNonces
      /\ MaxGCMReplayNonces \in Nat /\ MaxGCMReplayNonces > 0
  BY ReplayWindowAssumption DEF BoundedNonces, BoundedHistory
<1>2. /\ t \in Seq(Nonces)
      /\ Len(t) \in 1..MaxGCMReplayNonces
      /\ Len(t) \in {Len(s), Len(s) + 1}
      /\ t[Len(t)] = n
      /\ \A i \in 1..(Len(t) - 1) : t[i] = s[i + Len(s) - (Len(t) - 1)]
  BY <1>1, AppendFacts
<1>3. /\ u \in Seq(Nonces \cup {None})
      /\ Len(u) \in 1..MaxGCMReplayNonces
      /\ Len(u) \in {Len(l), Len(l) + 1}
      /\ u[Len(u)] = m
      /\ \A i \in 1..(Len(u) - 1) : u[i] = l[i + Len(l) - (Len(u) - 1)]
  BY <1>1, AppendFacts
<1>4. Len(t) = Len(s) => Len(s) = MaxGCMReplayNonces
  BY <1>1 DEF MakeRoom
<1> HIDE DEF t, u
<1>5. ASSUME NEW i \in 1..Len(u), u[i] # None
      PROVE  \E j \in 1..Len(t) : t[j] = u[i] /\ Len(t) - j <= Len(u) - i
  <2>0. \A x \in 1..Len(l) : l[x] # None =>
            \E j \in 1..Len(s) : s[j] = l[x] /\ Len(s) - j <= Len(l) - x
    BY <1>1 DEF Protects
  <2>1. CASE i = Len(u)
    <3>1. t[Len(t)] = u[i] /\ Len(t) \in 1..Len(t)
      BY <1>2, <1>3, <1>5, <2>1
    <3> QED
      BY <1>2, <1>3, <2>1, <3>1
  <2>2. CASE i # Len(u)
    <3> DEFINE h == i + Len(l) - (Len(u) - 1)
    <3>1. h \in 1..Len(l) /\ u[i] = l[h] /\ Len(l) - h = Len(u) - 1 - i
      BY <1>1, <1>3, <2>2
    <3> HIDE DEF h
    <3>2. PICK j \in 1..Len(s) : s[j] = l[h] /\ Len(s) - j <= Len(l) - h
      BY <1>5, <2>0, <3>1
    <3> DEFINE g == j - Len(s) + (Len(t) - 1)
    <3>3. g \in 1..(Len(t) - 1)
      \* The log evicts nothing as young as i, so neither does the list.
      <4>1. Len(l) - h <= MaxGCMReplayNonces - 2
        BY <1>1, <1>3, <3>1
      <4>2. Len(s) - j <= Len(t) - 2
        <5>1. Len(s) - j <= MaxGCMReplayNonces - 2
          BY <1>1, <3>1, <3>2, <4>1
        <5>2. CASE Len(t) = Len(s)
          BY <1>1, <1>4, <5>1, <5>2
        <5>3. CASE Len(t) = Len(s) + 1
          BY <1>1, <3>2, <5>3
        <5> QED
          BY <1>2, <5>2, <5>3
      <4> QED
        BY <1>1, <1>2, <3>2, <4>2
    <3>4. /\ g + Len(s) - (Len(t) - 1) = j
          /\ Len(t) - g = Len(s) - j + 1
      BY <1>1, <1>2, <3>2
    <3>5. t[g] = s[j]
      BY <1>2, <3>3, <3>4
    <3>6. Len(t) - g <= Len(u) - i
      BY <1>1, <1>2, <1>3, <3>1, <3>2, <3>4
    <3>7. g \in 1..Len(t) /\ t[g] = u[i]
      BY <1>2, <3>1, <3>2, <3>3, <3>5
    <3> HIDE DEF g
    <3> QED
      BY <3>6, <3>7
  <2> QED
    BY <2>1, <2>2
<1>6. Protects(t, u)
  BY <1>2, <1>3, <1>5 DEF Protects
<1> QED
  BY <1>6 DEF t, u

\* The log alone moves on, for a transition that the list does not have.
LEMMA ProtectsMissed ==
    ASSUME NEW s \in BoundedNonces, NEW l \in BoundedHistory, Protects(s, l)
    PROVE  Protects(s, Append(MakeRoom(l), None))
<1> DEFINE u == Append(MakeRoom(l), None)
<1>1. s \in Seq(Nonces) /\ l \in Seq(Nonces \cup {None}) /\ Len(l) <= MaxGCMReplayNonces
  BY DEF BoundedNonces, BoundedHistory
<1>2. /\ u \in Seq(Nonces \cup {None})
      /\ Len(u) \in {Len(l), Len(l) + 1}
      /\ u[Len(u)] = None
      /\ \A i \in 1..(Len(u) - 1) : u[i] = l[i + Len(l) - (Len(u) - 1)]
  BY <1>1, AppendFacts
<1> HIDE DEF u
<1>3. ASSUME NEW i \in 1..Len(u), u[i] # None
      PROVE  \E j \in 1..Len(s) : s[j] = u[i] /\ Len(s) - j <= Len(u) - i
  <2>0. \A x \in 1..Len(l) : l[x] # None =>
            \E j \in 1..Len(s) : s[j] = l[x] /\ Len(s) - j <= Len(l) - x
    BY <1>1 DEF Protects
  <2> DEFINE h == i + Len(l) - (Len(u) - 1)
  <2>1. h \in 1..Len(l) /\ u[i] = l[h] /\ Len(l) - h = Len(u) - 1 - i
    BY <1>1, <1>2, <1>3
  <2> HIDE DEF h
  <2>2. PICK j \in 1..Len(s) : s[j] = l[h] /\ Len(s) - j <= Len(l) - h
    BY <1>3, <2>0, <2>1
  <2> QED
    BY <1>1, <1>2, <2>1, <2>2
<1>4. Protects(s, u)
  BY <1>1, <1>2, <1>3 DEF Protects
<1> QED
  BY <1>4 DEF u

\* What is protected is remembered.
LEMMA ProtectsRange ==
    ASSUME NEW s, NEW l, Protects(s, l), NEW n, n # None, n \in Range(l)
    PROVE  n \in Range(s)
  BY DEF Protects, Range

-----------------------------------------------------------------------------
(* Granted adoption states are valid.                                      *)

\* A response leads from a valid adoption state to a valid one.
LEMMA AppliedValid ==
    ASSUME NEW a \in AdoptionState, ValidAdoption(a), NEW b \in Bodies
    PROVE  ValidAdoption(Applied(a, b))
<1>1. CASE b.type = "setdefault"
  BY <1>1 DEF Applied, FactoryReset, NewAdoption, ValidAdoption
<1>2. CASE b.type # "setdefault"
  <2>1. CASE b.type = "setparam"
    <3> DEFINE n == ApplyMgmtCfg(a, b.mgmt)
    <3>1. n \in AdoptionState
      BY <2>1, BodyFields DEF ApplyMgmtCfg, AdoptionState, MgmtCfg
    <3>2. Applied(a, b) = [n EXCEPT !.adopted = TRUE]
      BY <2>1 DEF Applied
    <3> HIDE DEF n
    <3> QED
      BY <3>1, <3>2 DEF ValidAdoption, AdoptionState
  <2>2. CASE b.type # "setparam"
    BY <1>2, <2>2 DEF Applied, ValidAdoption, AdoptionState
  <2> QED
    BY <2>1, <2>2
<1> QED
  BY <1>1, <1>2

\* So does what is granted of it.
LEMMA ConfinedValid ==
    ASSUME NEW a \in AdoptionState, ValidAdoption(a),
           NEW next \in AdoptionState, ValidAdoption(next)
    PROVE  ValidAdoption(Confined(a, next))
  BY DEF Confined, ValidAdoption, AdoptionState

\* What a supported response makes of the state, the saved nonces and the window.
LEMMA NextStateFacts ==
    ASSUME TypeOK, StatesValid, WindowAgrees, NEW p \in Packets, Supported(p)
    PROVE  LET s == NextState(p)
               w == Rebased(AcceptedWindow(p), NextState(p)) IN
           /\ ValidState(s)
           /\ w.epoch = EpochOf(s.adoption) /\ w.protected = s.nonces
           /\ IF SameEpoch(p)
              THEN s.nonces = IF adoption.gcm /\ Granted(p) # adoption
                              THEN Append(MakeRoom(persistent.nonces), p.nonce)
                              ELSE persistent.nonces
              ELSE s.nonces = <<>>
<1> DEFINE s == NextState(p)
           w == AcceptedWindow(p)
           changed == Granted(p) # adoption
           t == Append(MakeRoom(persistent.nonces), p.nonce)
<1>1. Delivered(p)
  BY DEF Supported, Ordinary
<1>2. /\ adoption \in AdoptionState
      /\ persistent.nonces \in BoundedNonces
      /\ window \in Windows
      /\ ValidAdoption(adoption)
      /\ ~adoption.gcm => persistent.nonces = <<>>
      /\ Distinct(persistent.nonces)
      /\ window.epoch = EpochOf(adoption)
      /\ window.protected = persistent.nonces
  BY DEF TypeOK, States, adoption, StatesValid, ValidState, WindowAgrees
<1>3. /\ Granted(p) \in AdoptionState
      /\ adoption.gcm => p.nonce \in Nonces
      /\ w \in Windows
      /\ s \in States /\ s.adoption = Granted(p)
  BY <1>1, NextStateType
<1>4. ValidAdoption(Granted(p))
  BY <1>2, PacketFields, AppliedType, AppliedValid, ConfinedValid DEF Granted
<1>5. ASSUME adoption.gcm
      PROVE  /\ p.nonce \in Nonces
             /\ t \in BoundedNonces /\ Distinct(t)
             /\ AppendBounded(persistent.nonces, p.nonce) = t
  <2>1. p.nonce \notin Range(persistent.nonces)
    BY <1>1, <1>2, <1>5 DEF Delivered, Decodes, Replayed, WindowContains
  <2> QED
    BY <1>2, <1>3, <1>5, <2>1, AppendDistinct DEF AppendBounded
<1>6. w.epoch = EpochOf(adoption)
  BY <1>2 DEF AcceptedWindow, WithAccepted, Windows
<1>7. w.protected = IF adoption.gcm /\ changed /\ SameEpoch(p) THEN t ELSE persistent.nonces
  BY <1>2, <1>5 DEF AcceptedWindow, WithAccepted, Windows
<1> HIDE DEF t
<1>8. CASE SameEpoch(p)
  <2>1. /\ EpochOf(s.adoption) = EpochOf(adoption)
        /\ Granted(p).gcm = adoption.gcm
    BY <1>3, <1>8 DEF SameEpoch, EpochOf
  <2>2. s.nonces = IF adoption.gcm /\ changed THEN t ELSE persistent.nonces
    BY <1>7, <1>8 DEF NextState
  <2>3. Rebased(w, s) = w
    BY <1>6, <2>1 DEF Rebased
  <2>4. ValidState(s)
    <3>1. Len(s.nonces) <= MaxGCMReplayNonces
      BY <1>3 DEF States, BoundedNonces
    <3>2. Distinct(s.nonces) /\ (~s.adoption.gcm => s.nonces = <<>>)
      BY <1>2, <1>3, <1>5, <2>1, <2>2
    <3> QED
      BY <1>3, <1>4, <3>1, <3>2 DEF ValidState
  <2> QED
    BY <1>6, <1>7, <1>8, <2>1, <2>2, <2>3, <2>4 DEF t
<1>9. CASE ~SameEpoch(p)
  <2>1. s.nonces = <<>>
    BY <1>9 DEF NextState
  <2>2. EpochOf(s.adoption) # w.epoch
    BY <1>3, <1>6, <1>9 DEF SameEpoch
  <2>3. Rebased(w, s) = NewWindow(s)
    BY <2>2 DEF Rebased
  <2>4. ValidState(s)
    BY <1>3, <1>4, <2>1, ReplayWindowAssumption DEF ValidState, Distinct
  <2> QED
    BY <1>9, <2>1, <2>3, <2>4 DEF NewWindow
<1> QED
  BY <1>8, <1>9

-----------------------------------------------------------------------------
(* The adoption state, its file and the replay window.                     *)

StateInv == StatesValid /\ WindowAgrees /\ StatesProtect

\* Steps that leave the states, the protected nonces and their log alone.
LEMMA StateKept ==
    ASSUME StateInv, UNCHANGED <<persistent, diskState>>, up' => up,
           window'.epoch = window.epoch, window'.protected = window.protected,
           history'["adoption"] = history["adoption"]
    PROVE  StateInv'
  BY DEF StateInv, StatesValid, StateFileLoadable, WindowAgrees, StatesProtect, adoption

\* There is no file before the first start, and a valid state in memory.
LEMMA InitState == Init => StateInv
<1> SUFFICES ASSUME Init PROVE StateInv
  OBVIOUS
<1>1. ValidState(persistent)
  BY ReplayWindowAssumption
     DEF Init, Fresh, NewAdoption, ValidState, ValidAdoption, Distinct
<1>2. WindowAgrees
  BY DEF Init, WindowAgrees, NewWindow, Fresh, NewAdoption, adoption
<1>3. history["adoption"] = <<>>
  BY DEF Init, Logs
<1> QED
  BY <1>1, <1>2, <1>3, ProtectsNothing
     DEF Init, StateInv, StatesValid, StateFileLoadable, StatesProtect

\* Loading keeps the epoch and the nonces of the file.
LEMMA LoadedFacts ==
    ASSUME TypeOK, StateInv, NEW c \in AllowedConfigurations
    PROVE  /\ Loaded(c) \in States
           /\ ValidState(Loaded(c))
           /\ diskState # None => /\ EpochOf(Loaded(c).adoption) = EpochOf(diskState.adoption)
                                 /\ Loaded(c).nonces = diskState.nonces
<1>1. Loaded(c) \in States
  BY LoadedType
<1>2. CASE diskState = None
  BY <1>1, <1>2, ReplayWindowAssumption
     DEF Loaded, Fresh, NewAdoption, ValidState, ValidAdoption, Distinct
<1>3. CASE diskState # None
  <2>1. diskState \in States /\ ValidState(diskState)
    BY <1>3 DEF TypeOK, StateInv, StatesValid, StateFileLoadable
  <2> DEFINE s == [diskState EXCEPT !.adoption.url = c.url]
  <2>2. ValidState(s) /\ EpochOf(s.adoption) = EpochOf(diskState.adoption)
        /\ s.nonces = diskState.nonces
    BY <2>1 DEF States, AdoptionState, ValidState, ValidAdoption, EpochOf
  <2> HIDE DEF s
  <2>3. Loaded(c) \in {diskState, s}
    BY <1>3 DEF Loaded, s
  <2> QED
    BY <1>1, <2>1, <2>2, <2>3
<1> QED
  BY <1>2, <1>3

\* A start takes the state, and its protection, from the file.
LEMMA StartState ==
    ASSUME TypeOK, StateInv, NEW c \in AllowedConfigurations, NEW bad \in SUBSET Kinds,
           Start(c, bad)
    PROVE  StateInv'
<1> DEFINE s == Loaded(c)
<1>1. /\ s \in States /\ ValidState(s)
      /\ diskState # None => /\ EpochOf(s.adoption) = EpochOf(diskState.adoption)
                            /\ s.nonces = diskState.nonces
  BY LoadedFacts
<1>2. /\ persistent' = s /\ diskState' = s /\ window' = NewWindow(s)
      /\ history'["adoption"] = IF EpochOf(s.adoption) = EpochOf(adoption)
                                THEN history["adoption"] ELSE <<>>
  BY DEF Start, Logs, Kinds
<1> HIDE DEF s
<1>3. s # None
  BY <1>1, GatewayAssumption
<1>4. StatesValid'
  BY <1>1, <1>2, <1>3 DEF StatesValid, StateFileLoadable
<1>5. WindowAgrees'
  <2>1. ~s.adoption.gcm => s.nonces = <<>>
    BY <1>1 DEF ValidState
  <2> QED
    BY <1>2, <2>1 DEF WindowAgrees, NewWindow, adoption
<1>6. Protects(s.nonces, history'["adoption"])
  <2>1. CASE EpochOf(s.adoption) = EpochOf(adoption) /\ diskState # None
    BY <1>1, <1>2, <2>1 DEF StateInv, StatesProtect
  <2>2. CASE diskState = None \/ EpochOf(s.adoption) # EpochOf(adoption)
    <3>1. history'["adoption"] = <<>>
      BY <1>2, <2>2 DEF StateInv, StatesProtect
    <3> QED
      BY <3>1, ProtectsNothing
  <2> QED
    BY <2>1, <2>2
<1> QED
  BY <1>2, <1>3, <1>4, <1>5, <1>6 DEF StateInv, StatesProtect

\* A failed start leaves a valid file of the same epoch.
LEMMA StartFailsState ==
    ASSUME TypeOK, StateInv, NEW c \in AllowedConfigurations, StartFails(c)
    PROVE  StateInv'
<1> DEFINE s == Loaded(c)
<1>1. /\ s \in States /\ ValidState(s)
      /\ diskState # None => /\ EpochOf(s.adoption) = EpochOf(diskState.adoption)
                            /\ s.nonces = diskState.nonces
  BY LoadedFacts
<1>2. diskState' = s /\ ~up /\ up' = up /\ UNCHANGED <<persistent, window, history>>
  BY DEF StartFails
<1> HIDE DEF s
<1>3. StatesValid' /\ WindowAgrees'
  BY <1>1, <1>2 DEF StateInv, StatesValid, StateFileLoadable, WindowAgrees, adoption
<1>4. EpochOf(s.adoption) = EpochOf(adoption) => Protects(s.nonces, history["adoption"])
  <2>1. CASE diskState = None
    BY <2>1, ProtectsNothing DEF StateInv, StatesProtect
  <2>2. CASE diskState # None
    BY <1>1, <2>2 DEF StateInv, StatesProtect
  <2> QED
    BY <2>1, <2>2
<1>5. diskState' = None => history'["adoption"] = <<>>
  <2>1. CASE diskState = None
    BY <1>2, <2>1 DEF StateInv, StatesProtect
  <2>2. CASE diskState # None
    BY <1>1, <1>2, GatewayAssumption
  <2> QED
    BY <2>1, <2>2
<1> QED
  BY <1>2, <1>3, <1>4, <1>5 DEF StateInv, StatesProtect, adoption

\* Starts, crashes and time keep states and protection.
LEMMA EnvironmentState ==
    ASSUME TypeOK, StateInv, Environment
    PROVE  StateInv'
<1>1. ASSUME NEW c \in AllowedConfigurations, NEW bad \in SUBSET Kinds, Start(c, bad)
      PROVE  StateInv'
  BY <1>1, StartState
<1>2. ASSUME NEW c \in AllowedConfigurations, StartFails(c)
      PROVE  StateInv'
  BY <1>2, StartFailsState
<1>3. CASE Crash
  BY <1>3, StateKept DEF Crash
<1>4. CASE Tick
  BY <1>4, StateKept DEF Tick
<1> QED
  BY <1>1, <1>2, <1>3, <1>4 DEF Environment

\* Steps of an inform that leave the adoption state and its log alone.
LEMMA ReceiptStepState ==
    ASSUME TypeOK, StateInv, NEW p \in Packets, NEW k \in Kinds, NEW replaced \in BOOLEAN,
           \/ EnvelopeRejected(p)
           \/ ResponseRefused(p)
           \/ ReceiptRefused(k, p)
           \/ ReceiptRepeated(k, p)
           \/ ReceiptDeferred(k, p)
           \/ ReceiptCommitted(k, p)
           \/ ReceiptCommitFails(k, p, replaced)
           \/ ReceiptRemembered(k, p)
           \/ ReceiptRejected(k, p)
    PROVE  StateInv'
<1>1. k # "adoption" /\ "adoption" \in Logs /\ window \in Windows
      /\ history \in [Logs -> BoundedHistory]
  BY DEF Kinds, Logs, TypeOK
<1>2. UNCHANGED <<persistent, diskState, up>>
  BY DEF EnvelopeRejected, ResponseRefused, ReceiptRefused, ReceiptRepeated, ReceiptDeferred,
         ReceiptCommitted, ReceiptCommitFails, ReceiptRemembered, ReceiptRejected,
         Published, Failed, Ended
<1>3. window' \in {window, WithAccepted(window, p.nonce, FALSE)}
  BY DEF EnvelopeRejected, ResponseRefused, ReceiptRefused, ReceiptRepeated, ReceiptDeferred,
         ReceiptCommitted, ReceiptCommitFails, ReceiptRemembered, ReceiptRejected, Published
<1>4. window'.epoch = window.epoch /\ window'.protected = window.protected
  BY <1>1, <1>3 DEF WithAccepted, Windows
<1>5. \E n \in {p.nonce, None} : history' \in {history, Logged(k, n)}
  BY DEF EnvelopeRejected, ResponseRefused, ReceiptRefused, ReceiptRepeated, ReceiptDeferred,
         ReceiptCommitted, ReceiptCommitFails, ReceiptRemembered, ReceiptRejected, Published
<1>6. history'["adoption"] = history["adoption"]
  BY <1>1, <1>5 DEF Logged
<1> QED
  BY <1>2, <1>4, <1>6, StateKept

\* Responses that are applied keep states and protection, saved or not.
LEMMA ResponseState ==
    ASSUME TypeOK, StateInv, NEW p \in Packets, NEW replaced \in BOOLEAN,
           \/ ResponseAccepted(p)
           \/ TransitionCommitted(p)
           \/ TransitionSaveFails(p, replaced)
    PROVE  StateInv'
<1> DEFINE s == NextState(p)
           w == Rebased(AcceptedWindow(p), NextState(p))
           logged == adoption.gcm /\ SameEpoch(p) /\ Granted(p) # adoption
           t == Append(MakeRoom(persistent.nonces), p.nonce)
<1>1. Supported(p) /\ Delivered(p) /\ up
  BY DEF ResponseAccepted, TransitionCommitted, TransitionSaveFails, Supported, Ordinary, Delivered
<1>2. /\ s \in States /\ s.adoption = Granted(p)
      /\ adoption.gcm => p.nonce \in Nonces
  BY <1>1, NextStateType
<1>3. /\ ValidState(s)
      /\ w.epoch = EpochOf(s.adoption) /\ w.protected = s.nonces
      /\ IF SameEpoch(p) THEN s.nonces = IF logged THEN t ELSE persistent.nonces
         ELSE s.nonces = <<>>
  BY <1>1, NextStateFacts DEF StateInv
<1>4. s # None /\ diskState # None
  BY <1>1, <1>2, GatewayAssumption DEF StateInv, StatesValid
<1>5. /\ persistent.nonces \in BoundedNonces
      /\ history["adoption"] \in BoundedHistory
      /\ Protects(persistent.nonces, history["adoption"])
      /\ diskState \in States
      /\ EpochOf(diskState.adoption) = EpochOf(adoption) =>
             diskState.nonces \in BoundedNonces
             /\ Protects(diskState.nonces, history["adoption"])
      /\ "adoption" \in Logs
  BY <1>4 DEF TypeOK, States, Logs, StateInv, StatesProtect
<1>6. SameEpoch(p) <=> EpochOf(s.adoption) = EpochOf(adoption)
  BY <1>2 DEF SameEpoch
<1> HIDE DEF s, w, t
<1>7. CASE ResponseAccepted(p)
  <2>1. Granted(p) = adoption /\ SameEpoch(p)
    BY <1>7 DEF ResponseAccepted, SameEpoch
  <2>2. /\ persistent' = s /\ window' = w
        /\ UNCHANGED <<diskState, history, up>>
    BY <1>7 DEF ResponseAccepted, Ended, s, w
  <2>3. s.nonces = persistent.nonces /\ s.adoption = adoption
    BY <1>2, <1>3, <2>1
  <2>4. StatesValid' /\ WindowAgrees'
    BY <1>3, <2>2 DEF StateInv, StatesValid, StateFileLoadable, WindowAgrees, adoption
  <2> QED
    BY <1>5, <2>2, <2>3, <2>4 DEF StateInv, StatesProtect, adoption
<1>8. CASE TransitionCommitted(p)
  <2>1. /\ persistent' = s /\ window' = w /\ diskState' = s
        /\ history'["adoption"] = IF logged THEN Append(MakeRoom(history["adoption"]), p.nonce)
                                  ELSE <<>>
        /\ up' = up
    BY <1>5, <1>8 DEF TransitionCommitted, Ended, s, w
  <2>2. StatesValid' /\ WindowAgrees'
    BY <1>3, <1>4, <2>1 DEF StatesValid, StateFileLoadable, WindowAgrees, adoption
  <2>3. Protects(s.nonces, history'["adoption"])
    <3>1. CASE logged
      <4>1. Protects(t, Append(MakeRoom(history["adoption"]), p.nonce))
        BY <1>2, <1>5, <3>1, ProtectsAppended DEF t
      <4> QED
        BY <1>3, <2>1, <3>1, <4>1
    <3>2. CASE ~logged
      BY <2>1, <3>2, ProtectsNothing
    <3> QED
      BY <3>1, <3>2
  <2> QED
    BY <1>4, <2>1, <2>2, <2>3 DEF StateInv, StatesProtect
<1>9. CASE TransitionSaveFails(p, replaced)
  <2>1. UNCHANGED <<persistent, window, up>>
    BY <1>9 DEF TransitionSaveFails, Failed, Ended
  <2>2. StatesValid' /\ WindowAgrees' /\ diskState' # None
    BY <1>3, <1>4, <1>9, <2>1
       DEF TransitionSaveFails, StateInv, StatesValid, StateFileLoadable, WindowAgrees,
           adoption, s
  <2>3. CASE replaced /\ logged
    <3> DEFINE u == Append(MakeRoom(history["adoption"]), None)
    <3>1. diskState' = s /\ history'["adoption"] = u
      BY <1>5, <1>9, <2>3 DEF TransitionSaveFails, Logged, TypeOK, s
    <3>2. Protects(persistent.nonces, u)
      BY <1>5, ProtectsMissed
    <3>3. Protects(t, u)
      BY <1>2, <1>5, <2>3, ProtectsAppended DEF t
    <3>4. s.nonces = t
      BY <1>3, <2>3
    <3> HIDE DEF u
    <3> QED
      BY <2>1, <2>2, <3>1, <3>2, <3>3, <3>4 DEF StateInv, StatesProtect, adoption
  <2>4. CASE replaced /\ ~logged
    <3>1. diskState' = s /\ history' = history /\ Granted(p) # adoption
      BY <1>9, <2>4 DEF TransitionSaveFails, s
    <3>2. EpochOf(s.adoption) = EpochOf(adoption) => s.nonces = persistent.nonces
      BY <1>3, <1>6, <2>4
    <3> QED
      BY <1>5, <2>1, <2>2, <3>1, <3>2 DEF StateInv, StatesProtect, adoption
  <2>5. CASE ~replaced
    <3>1. diskState' = diskState /\ history' = history
      BY <1>9, <2>5 DEF TransitionSaveFails
    <3> QED
      BY <2>1, <3>1, StateKept
  <2> QED
    BY <2>3, <2>4, <2>5
<1> QED
  BY <1>7, <1>8, <1>9

\* Informs keep states and protection.
LEMMA InformState ==
    ASSUME TypeOK, StateInv, Inform
    PROVE  StateInv'
<1>1. CASE InformBegin
  <2>1. window' = window
    BY <1>1 DEF InformBegin, Rebased, StateInv, WindowAgrees, adoption
  <2> QED
    BY <1>1, <2>1, StateKept DEF InformBegin
<1>2. ASSUME NEW result \in {"pending", "failure"}, NEW reached \in BOOLEAN,
             ExchangeFails(result, reached)
      PROVE  StateInv'
  BY <1>2, StateKept DEF ExchangeFails, Ended
<1>3. "config" \in Kinds
  BY DEF Kinds
<1> QED
  BY <1>1, <1>2, <1>3, ReceiptStepState, ResponseState DEF Inform

\* The part of the invariant about the adoption state is inductive.
LEMMA StateInductive == TypeOK /\ StateInv /\ [Next]_vars => StateInv'
<1> SUFFICES ASSUME TypeOK, StateInv, [Next]_vars PROVE StateInv'
  OBVIOUS
<1>1. CASE Poll
  BY <1>1, StateKept DEF Poll, PollSucceeds, PollFails
<1>2. CASE UNCHANGED vars
  BY <1>2, StateKept DEF vars
<1> QED
  BY <1>1, <1>2, EnvironmentState, InformState DEF Next

(* Whatever responses, failed saves and crashes came before, a restart     *)
(* finds a state file that loads.                                          *)
THEOREM FilesLoadable == Spec => []StateFileLoadable
<1>1. Init => TypeOK /\ StateInv
  BY InitTypeOK, InitState
<1>2. TypeOK /\ StateInv /\ [Next]_vars => (TypeOK /\ StateInv)'
  <2>1. TypeOK /\ UNCHANGED vars => TypeOK'
    BY DEF TypeOK, vars, receipts, telemetry
  <2> QED
    BY <2>1, StateInductive, EnvironmentTypeOK, PollTypeOK, InformTypeOK DEF Next
<1>3. StateInv => StateFileLoadable
  BY DEF StateInv, StatesValid
<1> QED
  BY <1>1, <1>2, <1>3, PTL DEF Spec

-----------------------------------------------------------------------------
(* Receipts and their files.                                               *)

ReceiptInv == ReceiptsDistinct /\ ReceiptsProtect

\* Steps that leave the receipts and their logs alone.
LEMMA ReceiptsKept ==
    ASSUME ReceiptInv,
           UNCHANGED <<config, receipt, receiptEpoch, diskReceipt>>,
           \A k \in Kinds : history'[k] = history[k]
    PROVE  ReceiptInv'
  BY DEF ReceiptInv, ReceiptsDistinct, ReceiptsProtect, Durable

\* Before the first start there is no receipt.
LEMMA InitReceipts == Init => ReceiptInv
<1> SUFFICES ASSUME Init PROVE ReceiptInv
  OBVIOUS
<1>1. \A k \in Kinds : /\ receipt[k] = NoReceipt /\ diskReceipt[k] = None
                       /\ history[k] = <<>>
  BY DEF Init, Logs
<1>2. Distinct(NoReceipt.nonces)
  BY DEF NoReceipt, Distinct
<1> QED
  BY <1>1, <1>2, ProtectsNothing DEF ReceiptInv, ReceiptsDistinct, ReceiptsProtect

\* A start takes a receipt, and its protection, from its file.
LEMMA StartReceipts ==
    ASSUME TypeOK, ReceiptInv, NEW c \in AllowedConfigurations, NEW bad \in SUBSET Kinds,
           Start(c, bad)
    PROVE  ReceiptInv'
<1> SUFFICES ASSUME NEW k \in Kinds
             PROVE  /\ receipt'[k] = NoReceipt \/ receipt'[k].epoch = receiptEpoch'[k]
                    /\ Distinct(receipt'[k].nonces)
                    /\ diskReceipt'[k] # None => Distinct(diskReceipt'[k].nonces)
                    /\ Protects(receipt'[k].nonces, history'[k])
                    /\ Durable(k)' /\ diskReceipt'[k] # None
                          /\ diskReceipt'[k].epoch = receiptEpoch'[k] =>
                              Protects(diskReceipt'[k].nonces, history'[k])
  BY DEF ReceiptInv, ReceiptsDistinct, ReceiptsProtect
<1> DEFINE s == Loaded(c)
           restored == ReceiptRestored(k, c, s, bad)
<1>1. /\ receipt'[k] = IF restored THEN diskReceipt[k] ELSE NoReceipt
      /\ receiptEpoch'[k] = ReceiptEpoch(k, c, s.adoption)
      /\ diskReceipt' = diskReceipt
  BY DEF Start
<1>2. history'[k] = IF Durable(k) /\ restored /\ diskReceipt[k].epoch = receiptEpoch[k]
                    THEN history[k] ELSE <<>>
  BY DEF Start, Logs, Kinds
<1>3. restored => diskReceipt[k] # None /\ diskReceipt[k].epoch = ReceiptEpoch(k, c, s.adoption)
  BY DEF ReceiptRestored
<1>4. /\ diskReceipt[k] # None => Distinct(diskReceipt[k].nonces)
      /\ Durable(k) /\ diskReceipt[k] # None /\ diskReceipt[k].epoch = receiptEpoch[k] =>
             Protects(diskReceipt[k].nonces, history[k])
  BY DEF ReceiptInv, ReceiptsDistinct, ReceiptsProtect
<1>5. Distinct(NoReceipt.nonces)
  BY DEF NoReceipt, Distinct
<1> HIDE DEF s, restored
<1>6. CASE history'[k] = <<>>
  BY <1>1, <1>3, <1>4, <1>5, <1>6, ProtectsNothing
<1>7. CASE history'[k] # <<>>
  <2>1. restored /\ Durable(k) /\ diskReceipt[k].epoch = receiptEpoch[k]
        /\ history'[k] = history[k]
    BY <1>2, <1>7
  <2> QED
    BY <1>1, <1>3, <1>4, <2>1
<1> QED
  BY <1>6, <1>7

\* A new receipt repeats no nonce and protects the log one entry further.
LEMMA NextReceiptFacts ==
    ASSUME TypeOK, ReceiptInv, NEW p \in Packets, NEW k \in Kinds, NewMarker(k, p),
           NEW m \in {p.nonce, None}
    PROVE  LET r == NextReceipt(k, p) IN
           /\ r \in Receipts
           /\ r.epoch = receiptEpoch[k]
           /\ ValidReceipt(r)
           /\ Protects(r.nonces, Append(MakeRoom(history[k]), m))
<1> DEFINE r == NextReceipt(k, p)
           s == IF receipt[k].epoch = receiptEpoch[k] THEN receipt[k].nonces ELSE <<>>
           t == Append(MakeRoom(s), p.nonce)
<1>1. r \in Receipts /\ p.nonce \in Nonces /\ MarkerOf(p.body) \in Markers
  BY NextReceiptType
<1>2. r = [epoch |-> receiptEpoch[k], version |-> MarkerOf(p.body), nonces |-> t]
  BY DEF NextReceipt, NewReceipt
<1>3. /\ receipt[k].nonces \in BoundedNonces
      /\ Distinct(receipt[k].nonces)
      /\ Protects(receipt[k].nonces, history[k])
      /\ receipt[k] = NoReceipt \/ receipt[k].epoch = receiptEpoch[k]
      /\ history[k] \in BoundedHistory
  BY DEF TypeOK, Receipts, Logs, ReceiptInv, ReceiptsDistinct, ReceiptsProtect
<1>4. s = receipt[k].nonces
  BY <1>3 DEF NoReceipt
<1>5. p.nonce \notin Range(receipt[k].nonces)
  <2>1. adoption.gcm
    BY DEF NewMarker, IsReceipt, Eligible, FirmwareEligible, ReceiptsEligible, ManagedOverHTTP
  <2> QED
    BY <2>1 DEF NewMarker, Delivered, Decodes, Replayed
<1> HIDE DEF s
<1>6. t \in BoundedNonces /\ Distinct(t)
  BY <1>1, <1>3, <1>4, <1>5, AppendDistinct
<1>7. Len(t) \in 1..MaxGCMReplayNonces
  BY <1>1, <1>3, <1>4, AppendFacts DEF BoundedNonces
<1>8. Protects(t, Append(MakeRoom(history[k]), m))
  BY <1>1, <1>3, <1>4, ProtectsAppended
<1>9. receiptEpoch[k] # None
  BY DEF NewMarker, ReceiptUnavailable
<1> HIDE DEF t
<1>10. ValidReceipt(r)
  BY <1>1, <1>2, <1>6, <1>7, <1>9, AdoptionAssumption DEF ValidReceipt
<1> QED
  BY <1>1, <1>2, <1>8, <1>10

\* A marker that is recorded, or that a failed commit may have recorded, stays
\* protected.
LEMMA ReceiptStepReceipts ==
    ASSUME TypeOK, ReceiptInv, NEW p \in Packets, NEW k \in Kinds, NEW replaced \in BOOLEAN,
           \/ ReceiptCommitted(k, p)
           \/ ReceiptCommitFails(k, p, replaced)
           \/ ReceiptRemembered(k, p)
    PROVE  ReceiptInv'
<1> DEFINE r == NextReceipt(k, p)
           log == Append(MakeRoom(history[k]), p.nonce)
           missed == Append(MakeRoom(history[k]), None)
<1>1. NewMarker(k, p)
  BY DEF ReceiptCommitted, ReceiptCommitFails, ReceiptRemembered
<1>2. /\ r \in Receipts /\ r.epoch = receiptEpoch[k] /\ Distinct(r.nonces)
      /\ Protects(r.nonces, log) /\ Protects(r.nonces, missed)
  BY <1>1, NextReceiptFacts DEF ValidReceipt
<1>3. /\ receipt \in [Kinds -> Receipts] /\ diskReceipt \in [Kinds -> Receipts \cup {None}]
      /\ history \in [Logs -> BoundedHistory] /\ k \in Logs /\ Kinds \subseteq Logs
      /\ receipt[k].nonces \in BoundedNonces
  BY DEF TypeOK, Logs, Receipts
<1>4. \A l \in Kinds :
         /\ receipt[l] = NoReceipt \/ receipt[l].epoch = receiptEpoch[l]
         /\ Distinct(receipt[l].nonces)
         /\ diskReceipt[l] # None => Distinct(diskReceipt[l].nonces)
         /\ Protects(receipt[l].nonces, history[l])
         /\ Durable(l) /\ diskReceipt[l] # None
               /\ diskReceipt[l].epoch = receiptEpoch[l] =>
                   Protects(diskReceipt[l].nonces, history[l])
  BY DEF ReceiptInv, ReceiptsDistinct, ReceiptsProtect
<1>5. UNCHANGED <<config, receiptEpoch>>
  BY DEF ReceiptCommitted, ReceiptCommitFails, ReceiptRemembered, Published, Ended, Failed
<1> HIDE DEF r, log, missed
<1>6. CASE ReceiptCommitted(k, p) \/ ReceiptRemembered(k, p)
  <2>1. /\ receipt' = [receipt EXCEPT ![k] = r]
        /\ history' = [history EXCEPT ![k] = log]
    BY <1>3, <1>6 DEF ReceiptCommitted, ReceiptRemembered, Published, Logged, r, log
  <2>2. CASE ReceiptCommitted(k, p)
    <3>1. diskReceipt' = [diskReceipt EXCEPT ![k] = r]
      BY <2>2 DEF ReceiptCommitted, r
    <3> QED
      BY <1>2, <1>3, <1>4, <1>5, <2>1, <3>1
         DEF ReceiptInv, ReceiptsDistinct, ReceiptsProtect, Durable
  <2>3. CASE ReceiptRemembered(k, p)
    <3>1. diskReceipt' = diskReceipt /\ ~Durable(k)
      BY <2>3 DEF ReceiptRemembered
    <3> QED
      BY <1>2, <1>3, <1>4, <1>5, <2>1, <3>1
         DEF ReceiptInv, ReceiptsDistinct, ReceiptsProtect, Durable
  <2> QED
    BY <1>6, <2>2, <2>3
<1>7. CASE ReceiptCommitFails(k, p, replaced)
  <2>1. receipt' = receipt
    BY <1>7 DEF ReceiptCommitFails
  <2>2. CASE replaced
    <3>1. /\ diskReceipt' = [diskReceipt EXCEPT ![k] = r]
          /\ history' = [history EXCEPT ![k] = missed]
      BY <1>3, <1>7, <2>2 DEF ReceiptCommitFails, Logged, r, missed
    <3>2. Protects(receipt[k].nonces, missed)
      BY <1>3, <1>4, ProtectsMissed DEF missed
    <3> QED
      BY <1>2, <1>3, <1>4, <1>5, <2>1, <3>1, <3>2
         DEF ReceiptInv, ReceiptsDistinct, ReceiptsProtect, Durable
  <2>3. CASE ~replaced
    <3>1. diskReceipt' = diskReceipt /\ history' = history
      BY <1>3, <1>7, <2>3 DEF ReceiptCommitFails
    <3> QED
      BY <1>5, <2>1, <3>1, ReceiptsKept
  <2> QED
    BY <2>2, <2>3
<1> QED
  BY <1>6, <1>7

\* A transition starts every receipt anew.
LEMMA TransitionReceipts ==
    ASSUME TypeOK, ReceiptInv, NEW p \in Packets, TransitionCommitted(p)
    PROVE  ReceiptInv'
<1>1. \A k \in Kinds : receipt'[k] = NoReceipt /\ history'[k] = <<>>
  BY DEF TransitionCommitted, Logs, Kinds
<1>2. diskReceipt' = diskReceipt /\ config' = config
  BY DEF TransitionCommitted, Ended
<1>3. Distinct(NoReceipt.nonces)
  BY DEF NoReceipt, Distinct
<1> QED
  BY <1>1, <1>2, <1>3, ProtectsNothing
     DEF ReceiptInv, ReceiptsDistinct, ReceiptsProtect

\* The part of the invariant about the receipts is inductive.
LEMMA ReceiptInductive == TypeOK /\ ReceiptInv /\ [Next]_vars => ReceiptInv'
<1> SUFFICES ASSUME TypeOK, ReceiptInv, [Next]_vars PROVE ReceiptInv'
  OBVIOUS
<1>1. ASSUME NEW c \in AllowedConfigurations, NEW bad \in SUBSET Kinds, Start(c, bad)
      PROVE  ReceiptInv'
  BY <1>1, StartReceipts
<1>2. ASSUME NEW c \in AllowedConfigurations, StartFails(c)
      PROVE  ReceiptInv'
  BY <1>2, ReceiptsKept DEF StartFails, receipts
<1>3. CASE Crash \/ Tick \/ Poll \/ InformBegin \/ UNCHANGED vars
  BY <1>3, ReceiptsKept
     DEF Crash, Tick, Poll, PollSucceeds, PollFails, InformBegin, vars, receipts
<1>4. ASSUME NEW result, NEW reached, ExchangeFails(result, reached)
      PROVE  ReceiptInv'
  BY <1>4, ReceiptsKept DEF ExchangeFails, Ended, receipts
<1>5. ASSUME NEW p \in Packets, NEW k \in Kinds,
             \/ EnvelopeRejected(p) \/ ResponseRefused(p) \/ ResponseAccepted(p)
             \/ ReceiptRefused(k, p) \/ ReceiptRepeated(k, p) \/ ReceiptDeferred(k, p)
             \/ ReceiptRejected(k, p)
      PROVE  ReceiptInv'
  <2>1. UNCHANGED <<config, receipts, history>>
    BY <1>5 DEF EnvelopeRejected, ResponseRefused, ResponseAccepted, ReceiptRefused,
       ReceiptRepeated, ReceiptDeferred, ReceiptRejected, Failed, Ended
  <2> QED
    BY <2>1, ReceiptsKept DEF receipts
<1>6. ASSUME NEW p \in Packets, NEW replaced \in BOOLEAN, TransitionSaveFails(p, replaced)
      PROVE  ReceiptInv'
  <2>1. \A k \in Kinds : history'[k] = history[k]
    <3>1. history' \in {history, Logged("adoption", None)}
      BY <1>6 DEF TransitionSaveFails
    <3> QED
      BY <3>1 DEF Logged, Kinds, Logs, TypeOK
  <2>2. UNCHANGED <<config, receipts>>
    BY <1>6 DEF TransitionSaveFails, Failed, Ended
  <2> QED
    BY <2>1, <2>2, ReceiptsKept DEF receipts
<1>7. "config" \in Kinds
  BY DEF Kinds
<1> QED
  BY <1>1, <1>2, <1>3, <1>4, <1>5, <1>6, <1>7, ReceiptStepReceipts, TransitionReceipts
     DEF Next, Environment, Inform

-----------------------------------------------------------------------------

\* The whole invariant is inductive.
LEMMA SafetyInductive ==
    /\ Init => SafetyInv
    /\ SafetyInv /\ [Next]_vars => SafetyInv'
<1>1. TypeOK /\ [Next]_vars => TypeOK'
  <2>1. TypeOK /\ UNCHANGED vars => TypeOK'
    BY DEF TypeOK, vars, receipts, telemetry
  <2> QED
    BY <2>1, EnvironmentTypeOK, PollTypeOK, InformTypeOK DEF Next
<1> QED
  BY <1>1, InitTypeOK, InitState, InitReceipts, StateInductive, ReceiptInductive
     DEF SafetyInv, StateInv, ReceiptInv

(* Valid states, one list of protected nonces in memory and file, and      *)
(* lists that protect what their logs remember: the invariant the theorems *)
(* of this module follow from.                                             *)
THEOREM SafetyInvariant == Spec => []SafetyInv
  BY SafetyInductive, PTL DEF Spec

(* No response takes effect twice while its nonce is among the             *)
(* MaxGCMReplayNonces latest transitions of its epoch, across noops,       *)
(* restarts and saves of unknown outcome.                                  *)
THEOREM TransitionsNotReplayed == Spec => []NoTransitionReplayed
<1>1. SafetyInv => NoTransitionReplayed
  <2> SUFFICES ASSUME SafetyInv, NEW p \in Packets,
                      p.gcm, ~Replayed(p), NEW l \in Logs, p.nonce \in Range(history[l])
               PROVE  FALSE
    BY DEF NoTransitionReplayed
  <2>1. p.nonce # None
    BY PacketFields, ReplayWindowAssumption
  <2>2. CASE l = "adoption"
    <3>1. p.nonce \in Range(window.protected)
      BY <2>1, <2>2, ProtectsRange DEF SafetyInv, StatesProtect, WindowAgrees
    <3> QED
      BY <3>1 DEF Replayed, WindowContains
  <2>3. CASE l \in Kinds
    <3>1. p.nonce \in Range(receipt[l].nonces)
      BY <2>1, <2>3, ProtectsRange DEF SafetyInv, ReceiptsProtect
    <3> QED
      BY <2>3, <3>1 DEF Replayed
  <2> QED
    BY <2>2, <2>3 DEF Logs
<1> QED
  BY <1>1, SafetyInvariant, PTL

(* SaveReceipt's validation never refuses a receipt the gateway built.     *)
THEOREM ReceiptsAlwaysStorable == Spec => []ReceiptsStorable
<1>1. SafetyInv => ReceiptsStorable
  BY NextReceiptFacts DEF SafetyInv, ReceiptInv, ReceiptsStorable
<1> QED
  BY <1>1, SafetyInvariant, PTL

\* A delivered response under AES-GCM is new to the window, and then in it.
LEMMA DeliveredRemembered ==
    ASSUME SafetyInv, NEW p \in Packets, Delivered(p), adoption.gcm, NEW b \in BOOLEAN
    PROVE  /\ WithAccepted(window, p.nonce, b).recent # window.recent
           /\ WithAccepted(window, p.nonce, b).epoch = EpochOf(adoption)
<1>1. p.gcm /\ p.nonce \in Nonces
  BY PacketFields DEF Delivered, Decodes
<1>2. p.nonce \notin Range(window.recent)
  BY <1>1 DEF Delivered, Replayed, WindowContains
<1>3. window \in Windows /\ window.epoch = EpochOf(adoption)
  BY DEF SafetyInv, TypeOK, WindowAgrees
<1>4. /\ WithAccepted(window, p.nonce, b).recent = AppendBounded(window.recent, p.nonce)
      /\ WithAccepted(window, p.nonce, b).epoch = window.epoch
      /\ window.recent \in BoundedNonces
  BY <1>3 DEF WithAccepted, Windows
<1>5. p.nonce \in Range(AppendBounded(window.recent, p.nonce))
  BY <1>1, <1>4, AppendBoundedFacts
<1> QED
  BY <1>2, <1>3, <1>4, <1>5

\* Every response ends the inform with all of its effects or with none.
LEMMA ResponseAllOrNothing ==
    ASSUME SafetyInv, NEW p \in Packets, ResponseAccepted(p) \/ TransitionCommitted(p)
    PROVE  /\ monitor'.result = "success"
           /\ adoption.gcm /\ <<persistent, reported, receipt>>'
                                # <<persistent, reported, receipt>> =>
                 \/ EpochOf(adoption') # EpochOf(adoption)
                 \/ window'.recent # window.recent
<1>1. Delivered(p)
  BY DEF ResponseAccepted, TransitionCommitted, Supported, Ordinary
<1>2. monitor'.result = "success"
  BY DEF ResponseAccepted, TransitionCommitted, Ended
<1>3. ASSUME adoption.gcm, EpochOf(adoption') = EpochOf(adoption)
      PROVE  window'.recent # window.recent
  <2>1. NextState(p).adoption = Granted(p) /\ adoption' = Granted(p)
    BY <1>1, NextStateType
       DEF ResponseAccepted, TransitionCommitted, adoption, SafetyInv
  <2>2. window' = Rebased(AcceptedWindow(p), NextState(p))
    BY DEF ResponseAccepted, TransitionCommitted
  <2> DEFINE protect == Granted(p) # adoption /\ SameEpoch(p)
  <2>3. AcceptedWindow(p) = WithAccepted(window, p.nonce, protect) /\ protect \in BOOLEAN
    BY <1>3 DEF AcceptedWindow
  <2> HIDE DEF protect
  <2>4. /\ AcceptedWindow(p).recent # window.recent
        /\ AcceptedWindow(p).epoch = EpochOf(adoption)
    BY <1>1, <1>3, <2>3, DeliveredRemembered
  <2>5. window' = AcceptedWindow(p)
    BY <1>3, <2>1, <2>2, <2>4 DEF Rebased
  <2> QED
    BY <2>4, <2>5
<1> QED
  BY <1>2, <1>3

\* A marker that is published has its nonce in the window.
LEMMA ReceiptAllOrNothing ==
    ASSUME SafetyInv, NEW p \in Packets, NEW k \in Kinds,
           ReceiptCommitted(k, p) \/ ReceiptRemembered(k, p)
    PROVE  monitor'.result = "success" /\ (adoption.gcm => window'.recent # window.recent)
<1>1. Delivered(p) /\ Published(k, p)
  BY DEF ReceiptCommitted, ReceiptRemembered, NewMarker
<1>2. monitor'.result = "success" /\ window' = WithAccepted(window, p.nonce, FALSE)
  BY <1>1 DEF Published, Ended
<1> QED
  BY <1>1, <1>2, DeliveredRemembered

(* An inform that does not succeed leaves memory as it was; one that moves *)
(* the adoption state, a report or a receipt under AES-GCM leaves its      *)
(* nonce in the window, unless it moved to another epoch.                  *)
THEOREM InformsAreAllOrNothing == Spec => InformAllOrNothing
<1> DEFINE Nothing == UNCHANGED <<persistent, window, reported, receipt, receiptEpoch>>
           Remembered ==
               adoption.gcm /\ <<persistent, reported, receipt>>'
                                # <<persistent, reported, receipt>> =>
                   \/ EpochOf(adoption') # EpochOf(adoption)
                   \/ window'.recent # window.recent
           Goal == (monitor'.result # "success" => Nothing) /\ Remembered
<1>1. ASSUME SafetyInv, ReportInv, [Next]_vars, inflight # None, inflight' = None, up'
      PROVE  Goal
  <2> USE <1>1
  <2>1. ASSUME Nothing PROVE Goal
    BY <2>1
  <2>2. ASSUME NEW p \in Packets, ResponseAccepted(p) \/ TransitionCommitted(p)
        PROVE  Goal
    BY <2>2, ResponseAllOrNothing
  <2>3. ASSUME NEW p \in Packets, NEW k \in Kinds,
               ReceiptCommitted(k, p) \/ ReceiptRemembered(k, p)
        PROVE  Goal
    BY <2>3, ReceiptAllOrNothing
  <2>4. ASSUME NEW p \in Packets, NEW k \in Kinds, NEW replaced \in BOOLEAN,
               \/ ReceiptRefused(k, p) \/ ReceiptDeferred(k, p)
               \/ ReceiptCommitFails(k, p, replaced) \/ ReceiptRejected(k, p)
               \/ EnvelopeRejected(p) \/ ResponseRefused(p)
               \/ TransitionSaveFails(p, replaced)
        PROVE  Nothing
    BY <2>4 DEF ReceiptRefused, ReceiptDeferred, ReceiptCommitFails, ReceiptRejected,
                EnvelopeRejected, ResponseRefused, TransitionSaveFails, receipts
  <2>5. ASSUME NEW p \in Packets, NEW k \in Kinds, ReceiptRepeated(k, p)
        PROVE  Goal
    <3>1. monitor'.result = "success"
      BY <2>5 DEF ReceiptRepeated, Ended
    <3>2. UNCHANGED <<persistent, reported, receipt>>
      BY <2>5 DEF ReceiptRepeated, receipts
    <3> QED
      BY <3>1, <3>2
  <2>6. CASE \E result \in {"pending", "failure"}, reached \in BOOLEAN :
                 ExchangeFails(result, reached)
    BY <2>1, <2>6 DEF ExchangeFails, receipts
  <2>7. ~InformBegin /\ ~Poll
    BY DEF InformBegin, Poll, PollSucceeds, PollFails
  <2>8. ~Environment
    BY DEF Environment, Start, StartFails, Crash, Tick, ReportInv, InformUnderWay
  <2>9. ~UNCHANGED vars
    BY DEF vars
  <2>10. Inform
    BY <2>7, <2>8, <2>9 DEF Next
  <2>11. "config" \in Kinds
    BY DEF Kinds
  <2> HIDE DEF Goal, Nothing
  <2> QED
    BY <2>1, <2>2, <2>3, <2>4, <2>5, <2>6, <2>7, <2>10, <2>11 DEF Inform
<1>2. SafetyInv /\ ReportInv /\ [Next]_vars =>
          [inflight # None /\ inflight' = None /\ up' => Goal]_vars
  BY <1>1
<1> QED
  BY <1>2, SafetyInvariant, ReportInvariant, PTL DEF Spec, InformAllOrNothing

=============================================================================
