---------------------------- MODULE DurableRegister ----------------------------
(***************************************************************************)
(* What the gateway expects of a file it replaces: a register that always  *)
(* holds a whole value, and that after a power loss holds one of a set of  *)
(* values it held since the last time it settled.                          *)
(***************************************************************************)
CONSTANTS
    Values,   \* contents of the register
    Absent    \* what it holds before anything was put

VARIABLES
    value,    \* what a reader finds
    outcomes  \* what a power loss may leave

registerVars == <<value, outcomes>>

RegisterInit == value = Absent /\ outcomes = {Absent}

\* A reader finds v; a power loss may still undo the change.
Put(v) == value' = v /\ outcomes' = outcomes \cup {v}

\* Older values are out of reach of a power loss; the value itself never is.
Settle == value' = value /\ outcomes' \in SUBSET outcomes /\ value \in outcomes'

PowerLoss == value' \in outcomes /\ outcomes' = {value'}

RegisterNext == (\E v \in Values : Put(v)) \/ Settle \/ PowerLoss

RegisterSpec == RegisterInit /\ [][RegisterNext]_registerVars

=============================================================================
