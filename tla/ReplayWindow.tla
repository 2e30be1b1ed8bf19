---------------------------- MODULE ReplayWindow ----------------------------
(***************************************************************************)
(* The bounded replay windows of the gateway: gcmReplayWindow, which       *)
(* remembers the nonces of accepted AES-GCM responses of the active        *)
(* key/mode epoch, and the nonce list of a report receipt.                 *)
(*                                                                         *)
(* A window keeps two bounded lists: "recent", every accepted response,    *)
(* and "protected", the responses that changed the persistent adoption     *)
(* state.  The code keeps each list beside a set of its elements; here the *)
(* set is the range of the list.  The epoch's key digest is the key.       *)
(***************************************************************************)
EXTENDS Adoption, Sequences, Functions

CONSTANTS
    Nonces,           \* the nonces of AES-GCM envelopes
    MaxGCMReplayNonces

ASSUME ReplayWindowAssumption ==
    /\ MaxGCMReplayNonces \in Nat \ {0}
    /\ None \notin Nonces

BoundedNonces == {s \in Seq(Nonces) : Len(s) <= MaxGCMReplayNonces}

\* Drops the oldest entry of a full list to make room for one more.
MakeRoom(s) == IF Len(s) = MaxGCMReplayNonces THEN Tail(s) ELSE s

\* A mistaken append that never evicts.
AppendUnbounded(s, n) == IF n \in Range(s) THEN s ELSE Append(s, n)

\* appendBoundedNonce
AppendBounded(s, n) == IF n \in Range(s) THEN s ELSE Append(MakeRoom(s), n)

-----------------------------------------------------------------------------
(* state.State: the adoption state with the nonces saved beside it.        *)

States == [adoption : AdoptionState, nonces : BoundedNonces]

Distinct(s) == \A i, j \in DOMAIN s : s[i] = s[j] => i = j

\* state.State.Validate together with AdoptionState.Validate.
ValidState(s) ==
    /\ ValidAdoption(s.adoption)
    /\ Len(s.nonces) <= MaxGCMReplayNonces
    /\ ~s.adoption.gcm => s.nonces = <<>>
    /\ Distinct(s.nonces)

-----------------------------------------------------------------------------
(* gcmReplayWindow                                                         *)

EpochOf(a) == [key |-> a.key, gcm |-> a.gcm]

Windows ==
    [epoch : [key : Keys, gcm : BOOLEAN],
     recent : BoundedNonces, protected : BoundedNonces]

\* newGCMReplayWindow
NewWindow(s) ==
    [epoch |-> EpochOf(s.adoption), recent |-> <<>>,
     protected |-> IF s.adoption.gcm THEN s.nonces ELSE <<>>]

\* gcmReplayWindow.sync and .rebased
Rebased(w, s) == IF w.epoch = EpochOf(s.adoption) THEN w ELSE NewWindow(s)

WindowContains(w, n) == n \in Range(w.recent) \cup Range(w.protected)

WithAccepted(w, n, protect) ==
    [w EXCEPT !.recent = AppendBounded(@, n),
              !.protected = IF protect THEN AppendBounded(@, n) ELSE @]

-----------------------------------------------------------------------------
(* state.Receipt and state.FirmwareReceipt                                 *)

Receipts ==
    [epoch : Contexts \cup {None}, version : Markers \cup {None},
     nonces : BoundedNonces]

NoReceipt == [epoch |-> None, version |-> None, nonces |-> <<>>]

\* A mistaken receipt that starts its nonce list anew.
NewReceiptForgetting(epoch, version, previous, n) ==
    [epoch |-> epoch, version |-> version, nonces |-> <<n>>]

\* NewReceipt: the nonces of the same epoch, and the one that moved the marker.
NewReceipt(epoch, version, previous, n) ==
    [epoch |-> epoch, version |-> version,
     nonces |-> Append(MakeRoom(IF previous.epoch = epoch
                                THEN previous.nonces ELSE <<>>), n)]

\* Receipt.Validate: what SaveReceipt refuses to write.
ValidReceipt(r) ==
    /\ r.epoch # None /\ r.version # None
    /\ Len(r.nonces) \in 1..MaxGCMReplayNonces
    /\ Distinct(r.nonces)

=============================================================================
