------------------------------ MODULE GatewayRun ------------------------------
(***************************************************************************)
(* One call of Gateway.Run: the main goroutine, the health server with its *)
(* connection limit, and the poll, inform and announcement loops, until    *)
(* the context is cancelled or the health listener fails.  net/http is     *)
(* external: Serve registers its listener and accepts until it is closed;  *)
(* Shutdown closes registered listeners, waits for Serve to leave, and     *)
(* then for the connections or for its deadline.                           *)
(***************************************************************************)
EXTENDS Integers, FiniteSets, Sequences

CONSTANTS
    Connections,      \* clients of the health server
    MaxConnections,   \* maxHealthConnections
    SequenceNumbers,  \* values of the discovery sequence (2^32)
    Managed           \* is there a managed network status

ASSUME RunAssumption ==
    /\ IsFiniteSet(Connections) /\ MaxConnections \in Nat \ {0}
    /\ SequenceNumbers \in Nat /\ SequenceNumbers > 1 /\ Managed \in BOOLEAN

VARIABLES
    main,        \* where Run is
    ctx,         \* the caller cancelled
    runCtx,      \* Run cancelled its own context
    result,      \* Run returns an error
    fatal,       \* messages in the channel of that name
    inShutdown,  \* Shutdown was called
    serve,       \* the goroutine of the health server
    done, inner, \* the limited listener and the listener in it are closed
    slots,       \* slots taken
    conn,        \* per client: none, dialed, live or shut
    poll, pollDone, inform, announce,
    next,        \* nextDiscovery
    sent         \* the sequences given to announcements, in their order

runVars == <<main, ctx, runCtx, result, inShutdown>>
server == <<serve, fatal>>
listener == <<done, inner>>
limiter == <<slots, conn>>
loops == <<poll, pollDone, inform, announce, next, sent>>
vars == <<runVars, server, listener, limiter, loops>>

Live == {c \in Connections : conn[c] = "live"}

RunTypeOK ==
    /\ main \in {"starting", "selecting", "shutting", "joining", "returned"}
    /\ {ctx, runCtx, result, inShutdown, done, inner, pollDone} \subseteq BOOLEAN
    /\ fatal \in 0..1
    /\ serve \in {"new", "accepting", "slotted", "ended"}
    /\ slots \in 0..MaxConnections
    /\ conn \in [Connections -> {"none", "dialed", "live", "shut"}]
    /\ poll \in {"polling", "idle", "ended"}
    /\ inform \in {"gated", "informing", "idle", "ended"}
    /\ announce \in {"checking", "waiting", "ended"}
    /\ next \in 0..(SequenceNumbers - 1) /\ sent \in Seq(0..(SequenceNumbers - 1))

Init ==
    /\ main = "starting" /\ ctx = FALSE /\ runCtx = FALSE /\ result = FALSE
    /\ inShutdown = FALSE /\ fatal = 0 /\ serve = "new"
    /\ done = FALSE /\ inner = FALSE
    /\ slots = 0 /\ conn = [c \in Connections |-> "none"]
    /\ poll = "polling" /\ pollDone = FALSE /\ inform = "gated" /\ announce = "checking"
    /\ next = 1 /\ sent = <<>>

-------------------------------------------------------------------------------
\* The limited listener.

\* A mistaken Close that does not wake an Accept waiting for a slot.
CloseInnerOnly == inner' = TRUE /\ UNCHANGED done

CloseListener == done' = TRUE /\ inner' = TRUE

\* A mistaken Accept that does not wait for a slot.
TakeSlotAlways ==
    /\ serve = "accepting"
    /\ slots' = slots + 1 /\ serve' = "slotted"
    /\ UNCHANGED <<runVars, fatal, listener, conn, loops>>

\* Either case of the select, if both are ready.
TakeSlot ==
    /\ serve = "accepting" /\ slots < MaxConnections
    /\ slots' = slots + 1 /\ serve' = "slotted"
    /\ UNCHANGED <<runVars, fatal, listener, conn, loops>>

Accepted(c) ==
    /\ serve = "slotted" /\ ~inner /\ conn[c] = "dialed"
    /\ conn' = [conn EXCEPT ![c] = "live"] /\ serve' = "accepting"
    /\ UNCHANGED <<runVars, fatal, listener, slots, loops>>

\* A mistaken connection that gives back a slot on every Close.
ReleaseEveryTime(c) == slots' = IF slots > 0 THEN slots - 1 ELSE 0

Release(c) == slots' = IF conn[c] = "live" THEN slots - 1 ELSE slots

\* net/http may close a connection more than once.
Close(c) ==
    /\ conn[c] \in {"live", "shut"}
    /\ Release(c) /\ conn' = [conn EXCEPT ![c] = "shut"]
    /\ UNCHANGED <<runVars, server, listener, loops>>

-------------------------------------------------------------------------------
\* The goroutine of the health server.

\* A mistaken report that is lost unless Run is already waiting for it.
ReportUnbuffered == fatal' = IF main = "selecting" THEN 1 ELSE 0

Report == fatal' = 1

\* Serve returns, closes its listener, and reports an error other than ErrServerClosed.
ServeEnds ==
    /\ serve' = "ended" /\ CloseListener
    /\ IF inShutdown THEN UNCHANGED fatal ELSE Report

Register ==
    /\ serve = "new"
    /\ IF inShutdown THEN ServeEnds ELSE serve' = "accepting" /\ UNCHANGED <<fatal, listener>>
    /\ UNCHANGED <<runVars, limiter, loops>>

AcceptRefused ==
    /\ serve = "accepting" /\ done
    /\ ServeEnds
    /\ UNCHANGED <<runVars, limiter, loops>>

\* The inner listener is closed, or fails for good.
AcceptFails ==
    /\ serve = "slotted" /\ slots' = slots - 1
    /\ ServeEnds
    /\ UNCHANGED <<runVars, conn, loops>>

\* A failure that net/http retries.
AcceptFailsForNow ==
    /\ serve = "slotted" /\ ~inner
    /\ slots' = slots - 1 /\ serve' = "accepting"
    /\ UNCHANGED <<runVars, fatal, listener, conn, loops>>

Dial(c) ==
    /\ conn[c] = "none" /\ ~inner
    /\ conn' = [conn EXCEPT ![c] = "dialed"]
    /\ UNCHANGED <<runVars, server, listener, slots, loops>>

GiveUp(c) ==
    /\ conn[c] \in {"dialed", "shut"}
    /\ conn' = [conn EXCEPT ![c] = "none"]
    /\ UNCHANGED <<runVars, server, listener, slots, loops>>

-------------------------------------------------------------------------------
\* The main goroutine.

Launched ==
    /\ main = "starting" /\ main' = "selecting"
    /\ UNCHANGED <<ctx, runCtx, result, inShutdown, server, listener, limiter, loops>>

Cancel ==
    /\ ~ctx /\ ctx' = TRUE
    /\ UNCHANGED <<main, runCtx, result, inShutdown, server, listener, limiter, loops>>

\* Either case of the select; then the loops are cancelled and Shutdown begins,
\* which closes the listener if Serve has registered it.
Selected ==
    /\ main = "selecting"
    /\ \/ ctx /\ UNCHANGED <<result, fatal>>
       \/ fatal = 1 /\ result' = TRUE /\ fatal' = 0
    /\ main' = "shutting" /\ runCtx' = TRUE /\ inShutdown' = TRUE
    /\ IF serve \in {"accepting", "slotted"} THEN CloseListener ELSE UNCHANGED listener
    /\ UNCHANGED <<ctx, serve, limiter, loops>>

\* A mistaken end that lets the outcome of Shutdown replace the error.
OutcomeOfShutdown(err) == result' = err

Outcome(err) == result' = (result \/ err)

\* Shutdown returns: no connection is left, or its five seconds are over.
ShutdownReturns(err) ==
    /\ main = "shutting" /\ serve \notin {"accepting", "slotted"}
    /\ err = (Live # {})
    /\ Outcome(err) /\ main' = "joining"
    /\ CloseListener
    /\ UNCHANGED <<ctx, runCtx, inShutdown, server, limiter, loops>>

Joined ==
    /\ main = "joining"
    /\ serve = "ended" /\ poll = "ended" /\ inform = "ended" /\ announce = "ended"
    /\ main' = "returned"
    /\ UNCHANGED <<ctx, runCtx, result, inShutdown, server, listener, limiter, loops>>

-------------------------------------------------------------------------------
\* The loops.  Polls and informs end by themselves or with their context.

PollEnds ==
    /\ poll = "polling" /\ poll' = "idle" /\ pollDone' = TRUE
    /\ UNCHANGED <<runVars, server, listener, limiter, inform, announce, next, sent>>

PollTick ==
    /\ poll = "idle" /\ poll' = "polling"
    /\ UNCHANGED <<runVars, server, listener, limiter, pollDone, inform, announce, next, sent>>

PollStops ==
    /\ poll = "idle" /\ runCtx /\ poll' = "ended"
    /\ UNCHANGED <<runVars, server, listener, limiter, pollDone, inform, announce, next, sent>>

InformBegins ==
    /\ \/ inform = "gated" /\ pollDone
       \/ inform = "idle"
    /\ inform' = "informing"
    /\ UNCHANGED <<runVars, server, listener, limiter, poll, pollDone, announce, next, sent>>

InformEnds ==
    /\ inform = "informing" /\ inform' = "idle"
    /\ UNCHANGED <<runVars, server, listener, limiter, poll, pollDone, announce, next, sent>>

InformStops ==
    /\ inform \in {"gated", "idle"} /\ runCtx /\ inform' = "ended"
    /\ UNCHANGED <<runVars, server, listener, limiter, poll, pollDone, announce, next, sent>>

\* A mistaken sequence that goes on after the last number.
NextSequenceWrapping ==
    sent' = Append(sent, next) /\ next' = (next + 1) % SequenceNumbers

\* A mistaken counter that stays at the last number.
NextSequenceStuck ==
    /\ sent' = Append(sent, next)
    /\ next' = IF next < SequenceNumbers - 1 THEN next + 1 ELSE next

\* After the last number there is no announcement any more.
NextSequence ==
    IF next = 0 THEN UNCHANGED <<next, sent>>
    ELSE sent' = Append(sent, next) /\ next' = (next + 1) % SequenceNumbers

Announce ==
    /\ announce = "checking" /\ ~runCtx
    /\ NextSequence /\ announce' = "waiting"
    /\ UNCHANGED <<runVars, server, listener, limiter, poll, pollDone, inform>>

AnnounceTick ==
    /\ announce = "waiting" /\ announce' = "checking"
    /\ UNCHANGED <<runVars, server, listener, limiter, poll, pollDone, inform, next, sent>>

\* For good, on cancellation or on one look at a status that is not current.
AnnounceStops ==
    /\ \/ runCtx /\ announce \in {"checking", "waiting"}
       \/ Managed /\ announce = "checking"
    /\ announce' = "ended"
    /\ UNCHANGED <<runVars, server, listener, limiter, poll, pollDone, inform, next, sent>>

-------------------------------------------------------------------------------
Serve == Register \/ TakeSlot \/ AcceptRefused \/ (inner /\ AcceptFails)

Next ==
    \/ Launched \/ Cancel \/ Selected \/ Joined \/ \E err \in BOOLEAN : ShutdownReturns(err)
    \/ Register \/ TakeSlot \/ AcceptRefused \/ AcceptFails \/ AcceptFailsForNow
    \/ \E c \in Connections : Accepted(c) \/ Close(c) \/ Dial(c) \/ GiveUp(c)
    \/ PollEnds \/ PollTick \/ PollStops
    \/ InformBegins \/ InformEnds \/ InformStops
    \/ Announce \/ AnnounceTick \/ AnnounceStops

\* Every goroutine that can proceed does, and a select chooses every case that
\* is ready again and again (SF).  Clients need never close their connections.
Fairness ==
    /\ WF_vars(Launched) /\ WF_vars(Selected) /\ WF_vars(Joined)
    /\ WF_vars(\E err \in BOOLEAN : ShutdownReturns(err))
    /\ WF_vars(Serve)
    /\ WF_vars(PollEnds) /\ SF_vars(PollStops)
    /\ WF_vars(InformEnds) /\ SF_vars(InformStops)
    /\ WF_vars(AnnounceStops /\ runCtx)

Spec == Init /\ [][Next]_vars /\ Fairness

-------------------------------------------------------------------------------
(* Every slot taken belongs to a live connection or to the Accept under way:  *)
(* none is lost on an error and none is given back twice (health.go:269-307). *)
SlotsAccounted == slots = Cardinality(Live) + (IF serve = "slotted" THEN 1 ELSE 0)

(* Run ends after its context is cancelled, even if clients hold every slot   *)
(* and never close (gateway.go:678-694, health.go:242-245).                   *)
ReturnsWhenCancelled == ctx ~> main = "returned"

(* gateway.go:637: "listener failures stop the process".  Serve does not end  *)
(* for good while Run stays, however early it fails (gateway.go:652-663).     *)
ReturnsWhenServerFails == serve = "ended" ~> main = "returned"

(* Run returns without an error only when it was asked to stop, so that       *)
(* run exits with 1 otherwise (gateway.go:678-694, main.go:77-82).            *)
NoErrorOnlyIfAsked == (main = "returned" /\ ~result) => ctx

(* The announcements of a gateway carry rising sequences: none is used twice, *)
(* not by the next announcement, nor when the counter is exhausted, nor by    *)
(* going on from zero (gateway.go:807-816).                                   *)
SequencesIncrease == \A i, j \in DOMAIN sent : i < j => sent[i] < sent[j]
===============================================================================
