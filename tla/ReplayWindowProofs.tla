-------------------------- MODULE ReplayWindowProofs --------------------------
(* What the bounded nonce lists of ReplayWindow preserve, for every bound. *)
EXTENDS ReplayWindow, SequenceTheorems, TLAPS

\* What makes room keeps the newest entries, in order.
LEMMA MakeRoomFacts ==
    ASSUME NEW S, NEW s \in Seq(S), Len(s) <= MaxGCMReplayNonces
    PROVE  /\ MakeRoom(s) \in Seq(S)
           /\ Len(MakeRoom(s)) < MaxGCMReplayNonces
           /\ Len(MakeRoom(s)) \in {Len(s), Len(s) - 1}
           /\ \A i \in 1..Len(MakeRoom(s)) :
                 MakeRoom(s)[i] = s[i + Len(s) - Len(MakeRoom(s))]
<1>1. CASE Len(s) = MaxGCMReplayNonces
  <2>1. /\ Tail(s) \in Seq(S)
        /\ Len(Tail(s)) = Len(s) - 1
        /\ \A i \in 1..Len(Tail(s)) : Tail(s)[i] = s[i + 1]
    BY <1>1, ReplayWindowAssumption
  <2> QED
    BY <1>1, <2>1, ReplayWindowAssumption DEF MakeRoom
<1>2. CASE Len(s) # MaxGCMReplayNonces
  <2>1. MakeRoom(s) = s
    BY <1>2 DEF MakeRoom
  <2>2. Len(s) \in Nat /\ Len(s) < MaxGCMReplayNonces
    BY <1>2, ReplayWindowAssumption
  <2> QED
    BY <2>1, <2>2, ReplayWindowAssumption
<1> QED
  BY <1>1, <1>2

\* An append that made room is bounded and ends in the new entry.
LEMMA AppendFacts ==
    ASSUME NEW S, NEW s \in Seq(S), Len(s) <= MaxGCMReplayNonces, NEW n \in S
    PROVE  LET t == Append(MakeRoom(s), n) IN
           /\ t \in Seq(S)
           /\ Len(t) \in 1..MaxGCMReplayNonces
           /\ Len(t) \in {Len(s), Len(s) + 1}
           /\ t[Len(t)] = n
           /\ \A i \in 1..(Len(t) - 1) : t[i] = s[i + Len(s) - (Len(t) - 1)]
<1> DEFINE r == MakeRoom(s)
           t == Append(r, n)
<1>1. /\ r \in Seq(S)
      /\ Len(r) < MaxGCMReplayNonces
      /\ Len(r) \in {Len(s), Len(s) - 1}
      /\ \A i \in 1..Len(r) : r[i] = s[i + Len(s) - Len(r)]
  BY MakeRoomFacts
<1> HIDE DEF r
<1>2. /\ t \in Seq(S)
      /\ Len(t) = Len(r) + 1
      /\ t[Len(t)] = n
      /\ \A i \in 1..Len(r) : t[i] = r[i]
  BY <1>1
<1> HIDE DEF t
<1>3. /\ t \in Seq(S)
      /\ Len(t) \in 1..MaxGCMReplayNonces
      /\ Len(t) \in {Len(s), Len(s) + 1}
      /\ t[Len(t)] = n
      /\ \A i \in 1..(Len(t) - 1) : t[i] = s[i + Len(s) - (Len(t) - 1)]
  BY <1>1, <1>2, ReplayWindowAssumption
<1> QED
  BY <1>3 DEF t, r

\* Appending a new nonce to a list without repetitions repeats none.
LEMMA AppendDistinct ==
    ASSUME NEW s \in BoundedNonces, Distinct(s), NEW n \in Nonces, n \notin Range(s)
    PROVE  /\ Append(MakeRoom(s), n) \in BoundedNonces
           /\ Distinct(Append(MakeRoom(s), n))
<1> DEFINE t == Append(MakeRoom(s), n)
<1>1. s \in Seq(Nonces) /\ Len(s) <= MaxGCMReplayNonces
  BY DEF BoundedNonces
<1>2. /\ t \in Seq(Nonces)
      /\ Len(t) \in 1..MaxGCMReplayNonces
      /\ Len(t) \in {Len(s), Len(s) + 1}
      /\ t[Len(t)] = n
      /\ \A i \in 1..(Len(t) - 1) : t[i] = s[i + Len(s) - (Len(t) - 1)]
  BY <1>1, AppendFacts
<1> HIDE DEF t
<1>3. \A i \in 1..Len(s) : s[i] # n
  BY <1>1 DEF Range
<1>4. \A i, j \in 1..Len(s) : s[i] = s[j] => i = j
  BY <1>1 DEF Distinct
<1>5. ASSUME NEW i \in 1..Len(t), NEW j \in 1..Len(t), t[i] = t[j], i < j
      PROVE  FALSE
  <2> DEFINE d == Len(s) - (Len(t) - 1)
  <2>1. i \in 1..(Len(t) - 1) /\ i + d \in 1..Len(s) /\ t[i] = s[i + d]
    BY <1>1, <1>2, <1>5
  <2>2. CASE j = Len(t)
    BY <1>2, <1>3, <1>5, <2>1, <2>2
  <2>3. CASE j # Len(t)
    <3>1. j + d \in 1..Len(s) /\ t[j] = s[j + d]
      BY <1>1, <1>2, <1>5, <2>3
    <3>2. i + d = j + d
      BY <1>4, <1>5, <2>1, <3>1
    <3> QED
      BY <1>1, <1>2, <1>5, <3>2
  <2> QED
    BY <2>2, <2>3
<1>6. Distinct(t)
  BY <1>2, <1>5 DEF Distinct
<1> QED
  BY <1>2, <1>6, ReplayWindowAssumption DEF t, BoundedNonces

\* appendBoundedNonce keeps a list bounded and free of repetitions, and the
\* nonce is in it afterwards.
LEMMA AppendBoundedFacts ==
    ASSUME NEW s \in BoundedNonces, NEW n \in Nonces
    PROVE  /\ AppendBounded(s, n) \in BoundedNonces
           /\ n \in Range(AppendBounded(s, n))
           /\ Distinct(s) => Distinct(AppendBounded(s, n))
<1>1. CASE n \in Range(s)
  BY <1>1 DEF AppendBounded
<1>2. CASE n \notin Range(s)
  <2> DEFINE t == Append(MakeRoom(s), n)
  <2>1. AppendBounded(s, n) = t
    BY <1>2 DEF AppendBounded
  <2>2. t \in Seq(Nonces) /\ Len(t) \in 1..MaxGCMReplayNonces /\ t[Len(t)] = n
    BY AppendFacts DEF BoundedNonces
  <2>3. t \in BoundedNonces /\ n \in Range(t)
    <3> HIDE DEF t
    <3> QED BY <2>2, ReplayWindowAssumption DEF BoundedNonces, Range
  <2>4. Distinct(s) => Distinct(t)
    BY <1>2, AppendDistinct
  <2> QED
    BY <2>1, <2>3, <2>4
<1> QED
  BY <1>1, <1>2

\* newGCMReplayWindow and rebased yield windows.
LEMMA NewWindowType == ASSUME NEW s \in States PROVE NewWindow(s) \in Windows
<1>1. <<>> \in BoundedNonces
  BY ReplayWindowAssumption DEF BoundedNonces
<1> QED
  BY <1>1 DEF NewWindow, Windows, States, EpochOf, AdoptionState

\* A window that follows its state to another epoch stays a window.
LEMMA RebasedType ==
    ASSUME NEW s \in States, NEW w \in Windows PROVE Rebased(w, s) \in Windows
  BY NewWindowType DEF Rebased

\* So does withAccepted.
LEMMA WithAcceptedType ==
    ASSUME NEW w \in Windows, NEW n \in Nonces, NEW b \in BOOLEAN
    PROVE  WithAccepted(w, n, b) \in Windows
  BY AppendBoundedFacts DEF WithAccepted, Windows

\* A new receipt extends the nonces of its epoch.
LEMMA NewReceiptType ==
    ASSUME NEW e \in Contexts, NEW m \in Markers, NEW r \in Receipts, NEW n \in Nonces
    PROVE  NewReceipt(e, m, r, n) \in Receipts
<1> DEFINE s == IF r.epoch = e THEN r.nonces ELSE <<>>
<1>1. s \in Seq(Nonces) /\ Len(s) <= MaxGCMReplayNonces
  BY ReplayWindowAssumption DEF Receipts, BoundedNonces
<1>2. Append(MakeRoom(s), n) \in BoundedNonces
  <2> HIDE DEF s
  <2> DEFINE t == Append(MakeRoom(s), n)
  <2>1. t \in Seq(Nonces) /\ Len(t) \in 1..MaxGCMReplayNonces
    BY <1>1, AppendFacts
  <2> HIDE DEF t
  <2> QED BY <2>1, ReplayWindowAssumption DEF t, BoundedNonces
<1> QED
  BY <1>2 DEF NewReceipt, Receipts

=============================================================================
