--------------------------- MODULE GatewayRunProofs ---------------------------
(* The safety properties of GatewayRun for any number of clients, any limit   *)
(* and any range of sequences.                                                *)
EXTENDS GatewayRun, FiniteSetTheorems, SequenceTheorems, TLAPS

(* The live connections change only as Accepted and Close say.                *)
LEMMA LiveChanges ==
    ASSUME RunTypeOK
    PROVE  /\ IsFiniteSet(Live) /\ Cardinality(Live) \in Nat
           /\ conn' = conn => Live' = Live
           /\ \A c \in Connections, s \in {"none", "dialed", "live", "shut"} :
                conn' = [conn EXCEPT ![c] = s] =>
                    Live' = IF s = "live" THEN Live \cup {c} ELSE Live \ {c}
<1>1. IsFiniteSet(Live)
  BY FS_Subset, RunAssumption DEF Live
<1>2. Cardinality(Live) \in Nat
  BY <1>1, FS_CardinalityType
<1>3. conn' = conn => Live' = Live
  BY DEF Live
<1>4. ASSUME NEW c \in Connections, NEW s \in {"none", "dialed", "live", "shut"},
             conn' = [conn EXCEPT ![c] = s]
      PROVE  Live' = IF s = "live" THEN Live \cup {c} ELSE Live \ {c}
  BY <1>4 DEF Live, RunTypeOK
<1> QED
  BY <1>1, <1>2, <1>3, <1>4

(* A slot is taken only below the limit and given back only if it was taken.  *)
RunInv == RunTypeOK /\ SlotsAccounted

(* A process starts with no slot taken.                                       *)
LEMMA InitRun == Init => RunInv
<1> SUFFICES ASSUME Init PROVE RunInv
  OBVIOUS
<1>1. RunTypeOK
  <2>1. {ctx, runCtx, result, inShutdown, done, inner, pollDone} \subseteq BOOLEAN
    BY DEF Init
  <2>2. slots \in 0..MaxConnections /\ fatal \in 0..1
    BY RunAssumption DEF Init
  <2>3. next \in 0..(SequenceNumbers - 1) /\ sent \in Seq(0..(SequenceNumbers - 1))
    BY RunAssumption DEF Init
  <2>4. conn \in [Connections -> {"none", "dialed", "live", "shut"}]
    BY DEF Init
  <2> QED
    BY <2>1, <2>2, <2>3, <2>4 DEF Init, RunTypeOK
<1>2. Live = {}
  BY DEF Init, Live
<1>3. SlotsAccounted
  BY <1>2, FS_EmptySet DEF Init, SlotsAccounted
<1> QED
  BY <1>1, <1>3 DEF RunInv

(* The main goroutine leaves the slots and the connections alone.             *)
LEMMA MainStep ==
    ASSUME RunInv,
           Launched \/ Cancel \/ Selected \/ Joined \/ (\E err \in BOOLEAN : ShutdownReturns(err))
    PROVE  RunInv'
<1> USE DEF runVars, server, listener, limiter, loops
<1>1. /\ UNCHANGED <<serve, limiter, loops>>
      /\ main' \in {"selecting", "shutting", "joining", "returned", main}
      /\ {ctx', runCtx', result', inShutdown', done', inner'} \subseteq BOOLEAN
      /\ fatal' \in 0..1
  <2> USE DEF RunInv, RunTypeOK
  <2>1. CASE Launched
    BY <2>1 DEF Launched
  <2>2. CASE Cancel
    BY <2>2 DEF Cancel
  <2>3. CASE Selected
    <3>1. main' = "shutting" /\ runCtx' = TRUE /\ inShutdown' = TRUE /\ ctx' = ctx
      BY <2>3 DEF Selected
    <3>2. UNCHANGED <<serve, limiter, loops>> /\ result' \in {result, TRUE} /\ fatal' \in {fatal, 0}
      BY <2>3 DEF Selected
    <3>3. done' \in {done, TRUE} /\ inner' \in {inner, TRUE}
      BY <2>3 DEF Selected, CloseListener
    <3>4. {ctx', runCtx', result', inShutdown', done', inner'} \subseteq BOOLEAN
      BY <3>1, <3>2, <3>3
    <3>5. fatal' \in 0..1
      BY <3>2
    <3> QED
      BY <3>1, <3>2, <3>4, <3>5
  <2>4. CASE Joined
    BY <2>4 DEF Joined
  <2>5. CASE \E err \in BOOLEAN : ShutdownReturns(err)
    <3>1. PICK err \in BOOLEAN : ShutdownReturns(err)
      BY <2>5
    <3>2. result' \in BOOLEAN
      BY <3>1 DEF ShutdownReturns, Outcome
    <3>3. /\ UNCHANGED <<ctx, runCtx, inShutdown, serve, fatal, limiter, loops>>
          /\ main' = "joining" /\ done' = TRUE /\ inner' = TRUE
      BY <3>1 DEF ShutdownReturns, CloseListener
    <3>4. {ctx', runCtx', result', inShutdown', done', inner'} \subseteq BOOLEAN
      BY <3>2, <3>3
    <3>5. fatal' \in 0..1
      BY <3>3
    <3> QED
      BY <3>3, <3>4, <3>5
  <2> QED
    BY <2>1, <2>2, <2>3, <2>4, <2>5
<1>2. RunTypeOK'
  BY <1>1 DEF RunInv, RunTypeOK
<1>3. SlotsAccounted'
  BY <1>1, LiveChanges DEF RunInv, SlotsAccounted
<1> QED
  BY <1>2, <1>3 DEF RunInv

\* The steps of the poll, inform and announcement loops.
Loop ==
    \/ PollEnds \/ PollTick \/ PollStops \/ InformBegins \/ InformEnds \/ InformStops
    \/ Announce \/ AnnounceTick \/ AnnounceStops

(* The number after n is n + 1, or 0 after the last one.                      *)
LEMMA NumberAdvances ==
    ASSUME NEW n \in 0..(SequenceNumbers - 1)
    PROVE  /\ (n + 1) % SequenceNumbers \in 0..(SequenceNumbers - 1)
           /\ (n + 1) % SequenceNumbers \in {0, n + 1}
  BY RunAssumption

(* The loops leave everything but their own places and the sequence alone.    *)
LEMMA LoopStep ==
    ASSUME RunInv, Loop
    PROVE  RunInv'
<1> USE DEF Loop, runVars, server, listener, limiter, loops,
            PollEnds, PollTick, PollStops, InformBegins, InformEnds, InformStops,
            Announce, AnnounceTick, AnnounceStops
<1>1. UNCHANGED <<runVars, server, listener, limiter>>
  OBVIOUS
<1>2. /\ poll' \in {"polling", "idle", "ended"}
      /\ inform' \in {"gated", "informing", "idle", "ended"}
      /\ announce' \in {"checking", "waiting", "ended"}
      /\ pollDone' \in BOOLEAN
  BY DEF RunInv, RunTypeOK
<1>3. next' \in 0..(SequenceNumbers - 1) /\ sent' \in Seq(0..(SequenceNumbers - 1))
  <2>1. next \in 0..(SequenceNumbers - 1) /\ sent \in Seq(0..(SequenceNumbers - 1))
    BY DEF RunInv, RunTypeOK
  <2>2. CASE UNCHANGED <<next, sent>>
    BY <2>1, <2>2
  <2>3. CASE sent' = Append(sent, next) /\ next' = (next + 1) % SequenceNumbers
    <3>1. sent' \in Seq(0..(SequenceNumbers - 1))
      BY <2>1, <2>3
    <3>2. next' \in 0..(SequenceNumbers - 1)
      BY <2>1, <2>3, NumberAdvances
    <3> QED
      BY <3>1, <3>2
  <2> QED
    BY <2>2, <2>3 DEF NextSequence
<1>4. RunTypeOK'
  BY <1>1, <1>2, <1>3 DEF RunInv, RunTypeOK
<1>5. SlotsAccounted'
  BY <1>1, LiveChanges DEF RunInv, SlotsAccounted
<1> QED
  BY <1>4, <1>5 DEF RunInv

(* The goroutine of the server takes a slot before it accepts, and gives it   *)
(* back if it accepts nothing (health.go:275-291).                            *)
LEMMA ServerStep ==
    ASSUME RunInv, Register \/ TakeSlot \/ AcceptRefused \/ AcceptFails \/ AcceptFailsForNow
    PROVE  RunInv'
<1> USE DEF runVars, server, listener, limiter, loops, ServeEnds, Report, CloseListener
<1>1. /\ conn' = conn /\ Live' = Live /\ Cardinality(Live) \in Nat
      /\ UNCHANGED <<runVars, loops>>
      /\ fatal' \in 0..1 /\ {done', inner'} \subseteq BOOLEAN
      /\ serve' \in {"accepting", "slotted", "ended"}
  <2>1. conn' = conn /\ UNCHANGED <<runVars, loops>>
    BY DEF Register, TakeSlot, AcceptRefused, AcceptFails, AcceptFailsForNow
  <2>2. Live' = Live /\ Cardinality(Live) \in Nat
    BY <2>1, LiveChanges DEF RunInv
  <2>3. fatal' \in 0..1 /\ serve' \in {"accepting", "slotted", "ended"}
    BY DEF RunInv, RunTypeOK, Register, TakeSlot, AcceptRefused, AcceptFails, AcceptFailsForNow
  <2>4. {done', inner'} \subseteq BOOLEAN
    BY DEF RunInv, RunTypeOK, Register, TakeSlot, AcceptRefused, AcceptFails, AcceptFailsForNow
  <2> QED
    BY <2>1, <2>2, <2>3, <2>4
<1>2. slots' = Cardinality(Live') + (IF serve' = "slotted" THEN 1 ELSE 0) /\ slots' \in 0..MaxConnections
  <2>1. slots \in 0..MaxConnections /\ slots = Cardinality(Live) + (IF serve = "slotted" THEN 1 ELSE 0)
    BY DEF RunInv, RunTypeOK, SlotsAccounted
  <2>2. CASE Register \/ AcceptRefused
    BY <1>1, <2>1, <2>2 DEF Register, AcceptRefused
  <2>3. CASE TakeSlot
    BY <1>1, <2>1, <2>3, RunAssumption DEF TakeSlot
  <2>4. CASE AcceptFails \/ AcceptFailsForNow
    BY <1>1, <2>1, <2>4, RunAssumption DEF AcceptFails, AcceptFailsForNow
  <2> QED
    BY <2>2, <2>3, <2>4
<1>3. RunTypeOK'
  BY <1>1, <1>2 DEF RunInv, RunTypeOK
<1> QED
  BY <1>2, <1>3 DEF RunInv, SlotsAccounted

(* A connection takes over the slot of its Accept and gives it back at the    *)
(* first Close only (health.go:295-307).                                      *)
LEMMA ConnectionStep ==
    ASSUME RunInv, NEW c \in Connections, Accepted(c) \/ Close(c) \/ Dial(c) \/ GiveUp(c)
    PROVE  RunInv'
<1> USE DEF runVars, server, listener, limiter, loops
<1>1. /\ UNCHANGED <<runVars, fatal, listener, loops>>
      /\ serve' \in {"accepting", serve}
      /\ \E s \in {"none", "dialed", "live", "shut"} : conn' = [conn EXCEPT ![c] = s]
  BY DEF Accepted, Close, Dial, GiveUp
<1>2. Cardinality(Live) \in Nat /\ IsFiniteSet(Live) /\ (c \in Live <=> conn[c] = "live")
  BY LiveChanges DEF RunInv, Live
<1>3. slots' = Cardinality(Live') + (IF serve' = "slotted" THEN 1 ELSE 0) /\ slots' \in 0..MaxConnections
  <2>1. slots \in 0..MaxConnections /\ slots = Cardinality(Live) + (IF serve = "slotted" THEN 1 ELSE 0)
    BY DEF RunInv, RunTypeOK, SlotsAccounted
  <2>2. CASE Accepted(c)
    <3>1. Live' = Live \cup {c} /\ c \notin Live
      BY <1>2, <2>2, LiveChanges DEF Accepted, RunInv
    <3>2. Cardinality(Live') = Cardinality(Live) + 1
      BY <1>2, <3>1, FS_AddElement
    <3> QED
      BY <1>2, <2>1, <2>2, <3>2 DEF Accepted
  <2>3. CASE Close(c)
    <3>1. Live' = Live \ {c}
      BY <2>3, LiveChanges DEF Close, RunInv
    <3>2. Cardinality(Live') = IF conn[c] = "live" THEN Cardinality(Live) - 1 ELSE Cardinality(Live)
      BY <1>2, <3>1, FS_RemoveElement
    <3>3. Cardinality(Live') \in Nat
      BY <1>2, <3>1, FS_RemoveElement, FS_CardinalityType
    <3> QED
      BY <1>2, <2>1, <2>3, <3>2, <3>3, RunAssumption DEF Close, Release
  <2>4. CASE Dial(c) \/ GiveUp(c)
    <3>1. Live' = Live \ {c} /\ c \notin Live
      BY <1>2, <2>4, LiveChanges DEF Dial, GiveUp, RunInv
    <3>2. Live' = Live
      BY <3>1
    <3> QED
      BY <2>1, <2>4, <3>2 DEF Dial, GiveUp
  <2> QED
    BY <2>2, <2>3, <2>4
<1>4. RunTypeOK'
  BY <1>1, <1>3 DEF RunInv, RunTypeOK
<1> QED
  BY <1>3, <1>4 DEF RunInv, SlotsAccounted

(* Every step keeps the invariant.                                            *)
LEMMA StepRun == RunInv /\ [Next]_vars => RunInv'
<1> SUFFICES ASSUME RunInv, [Next]_vars PROVE RunInv'
  OBVIOUS
<1>1. CASE Launched \/ Cancel \/ Selected \/ Joined \/ (\E err \in BOOLEAN : ShutdownReturns(err))
  BY <1>1, MainStep
<1>2. CASE Register \/ TakeSlot \/ AcceptRefused \/ AcceptFails \/ AcceptFailsForNow
  BY <1>2, ServerStep
<1>3. CASE \E c \in Connections : Accepted(c) \/ Close(c) \/ Dial(c) \/ GiveUp(c)
  BY <1>3, ConnectionStep
<1>4. CASE Loop
  BY <1>4, LoopStep
<1>5. CASE UNCHANGED vars
  BY <1>5, LiveChanges DEF RunInv, RunTypeOK, SlotsAccounted,
     vars, runVars, server, listener, limiter, loops
<1> QED
  BY <1>1, <1>2, <1>3, <1>4, <1>5 DEF Next, Loop

(* The variables of Run keep their types; in particular no more connections   *)
(* are accepted than the limit allows.                                        *)
THEOREM RunTypeCorrect == Spec => []RunTypeOK
<1>1. RunInv => RunTypeOK
  BY DEF RunInv
<1> QED
  BY InitRun, StepRun, <1>1, PTL DEF Spec

(* No slot is lost or given back twice, for any limit and any clients         *)
(* (health.go:269-307).                                                       *)
THEOREM SlotsAlwaysAccounted == Spec => []SlotsAccounted
<1>1. RunInv => SlotsAccounted
  BY DEF RunInv
<1> QED
  BY InitRun, StepRun, <1>1, PTL DEF Spec

-------------------------------------------------------------------------------
(* Run goes on to its end only for a cancelled context or with an error.      *)
EndsForCause == main \notin {"starting", "selecting"} => result \/ ctx

(* Only Selected leaves the wait, and nothing takes a cause back.             *)
LEMMA StepEndsForCause == EndsForCause /\ [Next]_vars => EndsForCause'
<1> SUFFICES ASSUME EndsForCause, [Next]_vars PROVE EndsForCause'
  OBVIOUS
<1> USE DEF EndsForCause, runVars, server, listener, limiter, loops
<1>1. CASE Launched
  BY <1>1 DEF Launched
<1>2. CASE Cancel
  BY <1>2 DEF Cancel
<1>3. CASE Selected
  BY <1>3 DEF Selected
<1>4. CASE Joined
  BY <1>4 DEF Joined
<1>5. CASE \E err \in BOOLEAN : ShutdownReturns(err)
  <2>1. PICK err \in BOOLEAN : ShutdownReturns(err)
    BY <1>5
  <2>2. main = "shutting" /\ ctx' = ctx
    BY <2>1 DEF ShutdownReturns
  <2>3. result' = (result \/ err)
    BY <2>1 DEF ShutdownReturns, Outcome
  <2>4. result \/ ctx
    BY <2>2
  <2> QED
    BY <2>2, <2>3, <2>4
<1>6. CASE Register \/ TakeSlot \/ AcceptRefused \/ AcceptFails \/ AcceptFailsForNow
  BY <1>6 DEF Register, TakeSlot, AcceptRefused, AcceptFails, AcceptFailsForNow
<1>7. CASE \E c \in Connections : Accepted(c) \/ Close(c) \/ Dial(c) \/ GiveUp(c)
  BY <1>7 DEF Accepted, Close, Dial, GiveUp
<1>8. CASE Loop
  BY <1>8 DEF Loop, PollEnds, PollTick, PollStops, InformBegins, InformEnds, InformStops,
              Announce, AnnounceTick, AnnounceStops
<1>9. CASE UNCHANGED vars
  BY <1>9 DEF vars
<1> QED
  BY <1>1, <1>2, <1>3, <1>4, <1>5, <1>6, <1>7, <1>8, <1>9 DEF Next, Loop

(* Run returns without an error only if it was asked to stop                  *)
(* (gateway.go:678-694).                                                      *)
THEOREM NoErrorOnlyIfAskedHolds == Spec => []NoErrorOnlyIfAsked
<1>1. Init => EndsForCause
  BY DEF Init, EndsForCause
<1>2. EndsForCause => NoErrorOnlyIfAsked
  BY DEF EndsForCause, NoErrorOnlyIfAsked
<1> QED
  BY <1>1, <1>2, StepEndsForCause, PTL DEF Spec

-------------------------------------------------------------------------------
(* The sequences given away rise and are behind the counter, until the        *)
(* counter is exhausted.                                                      *)
Ahead == SequencesIncrease /\ (next = 0 \/ \A i \in DOMAIN sent : sent[i] < next)

(* An announcement takes the counter's value and moves the counter on.        *)
LEMMA AnnounceSequence ==
    ASSUME RunTypeOK, Ahead, Announce
    PROVE  Ahead'
<1>1. next \in 0..(SequenceNumbers - 1) /\ sent \in Seq(0..(SequenceNumbers - 1))
  BY DEF RunTypeOK
<1>2. CASE next = 0
  BY <1>2 DEF Announce, NextSequence, Ahead, SequencesIncrease
<1>3. CASE next # 0
  <2>1. sent' = Append(sent, next) /\ next' = (next + 1) % SequenceNumbers
    BY <1>3 DEF Announce, NextSequence
  <2>2. next' = 0 \/ next' = next + 1
    BY <1>1, <2>1, NumberAdvances
  <2>3. Len(sent) \in Nat /\ DOMAIN sent = 1..Len(sent) /\ DOMAIN sent' = 1..(Len(sent) + 1)
    BY <1>1, <2>1
  <2>4. /\ sent'[Len(sent) + 1] = next
        /\ \A i \in DOMAIN sent : sent'[i] = sent[i]
    BY <1>1, <2>1, <2>3
  <2>5. \A i \in DOMAIN sent : sent[i] < next /\ sent[i] \in Nat
    <3>1. \A i \in DOMAIN sent : sent[i] < next
      BY <1>3 DEF Ahead
    <3>2. \A i \in DOMAIN sent : sent[i] \in 0..(SequenceNumbers - 1)
      BY <1>1, LenProperties
    <3> QED
      BY <3>1, <3>2
  <2>6. SequencesIncrease'
    <3> SUFFICES ASSUME NEW i \in DOMAIN sent', NEW j \in DOMAIN sent', i < j
                 PROVE  sent'[i] < sent'[j]
      BY DEF SequencesIncrease
    <3>1. i \in DOMAIN sent
      BY <2>3
    <3>2. CASE j = Len(sent) + 1
      BY <3>1, <3>2, <2>4, <2>5
    <3>3. CASE j \in DOMAIN sent
      BY <3>1, <3>3, <2>4 DEF Ahead, SequencesIncrease
    <3> QED
      BY <3>2, <3>3, <2>3
  <2>7. next' = next + 1 => \A i \in DOMAIN sent' : sent'[i] < next'
    BY <1>1, <2>3, <2>4, <2>5
  <2> QED
    BY <2>2, <2>6, <2>7 DEF Ahead
<1> QED
  BY <1>2, <1>3

(* No other step touches the counter or the sequences given away.             *)
LEMMA StepSequence ==
    ASSUME RunTypeOK, Ahead, [Next]_vars
    PROVE  Ahead'
<1> USE DEF runVars, server, listener, limiter, loops
<1>1. Announce \/ UNCHANGED <<next, sent>>
  <2>1. CASE \/ Launched \/ Cancel \/ Selected \/ Joined
             \/ \E err \in BOOLEAN : ShutdownReturns(err)
    BY <2>1 DEF Launched, Cancel, Selected, Joined, ShutdownReturns
  <2>2. CASE Register \/ TakeSlot \/ AcceptRefused \/ AcceptFails \/ AcceptFailsForNow
    BY <2>2 DEF Register, TakeSlot, AcceptRefused, AcceptFails, AcceptFailsForNow
  <2>3. CASE \E c \in Connections : Accepted(c) \/ Close(c) \/ Dial(c) \/ GiveUp(c)
    BY <2>3 DEF Accepted, Close, Dial, GiveUp
  <2>4. CASE Loop
    BY <2>4 DEF Loop, PollEnds, PollTick, PollStops, InformBegins, InformEnds, InformStops,
                AnnounceTick, AnnounceStops
  <2>5. CASE UNCHANGED vars
    BY <2>5 DEF vars
  <2> QED
    BY <2>1, <2>2, <2>3, <2>4, <2>5 DEF Next, Loop
<1>2. CASE UNCHANGED <<next, sent>>
  BY <1>2 DEF Ahead, SequencesIncrease
<1> QED
  BY <1>1, <1>2, AnnounceSequence

(* Announcement sequences rise and none is ever used twice, for any range of  *)
(* the counter (gateway.go:807-816).                                          *)
THEOREM SequencesAlwaysIncrease == Spec => []SequencesIncrease
<1>1. Init => Ahead
  BY DEF Init, Ahead, SequencesIncrease
<1>2. RunTypeOK /\ Ahead /\ [Next]_vars => Ahead'
  BY StepSequence
<1>3. Ahead => SequencesIncrease
  BY DEF Ahead
<1> QED
  BY <1>1, <1>2, <1>3, RunTypeCorrect, PTL DEF Spec

===============================================================================
