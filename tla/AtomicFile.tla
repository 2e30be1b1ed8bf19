------------------------------ MODULE AtomicFile ------------------------------
(***************************************************************************)
(* How the gateway replaces a file (savePrivateBytes), step by step: a     *)
(* temporary file is created, written, synced, closed and renamed, and the *)
(* directory is synced.  Any step may fail, the process may die at any     *)
(* point, and the machine may lose power.                                  *)
(*                                                                         *)
(* A power loss keeps what was synced.  A rename that is not followed by a *)
(* directory sync may be undone; a renamed file that was not synced may be *)
(* torn; a directory whose own entry is not durable may vanish.  Temporary *)
(* files left by a crash are never read and are left out.                  *)
(***************************************************************************)
EXTENDS FiniteSets

CONSTANTS
    Contents,   \* whole contents of the file
    Torn,       \* what is left of an interrupted or unsynced write
    None        \* no file

ASSUME FileAssumption == None \notin Contents /\ Torn \notin Contents \cup {None}

VARIABLES
    up,           \* is the process running
    memory,       \* the content the process works from
    step,         \* the next step of savePrivateBytes, or "idle"
    target,       \* the content being saved
    temp,         \* the temporary file: its data and whether it is synced
    visible,      \* the content a reader finds
    possible,     \* the contents a power loss may leave
    dirDurable,   \* does the directory itself survive a power loss
    attempted     \* history: contents since the last certain one

process == <<up, memory, step, target, temp>>
disk == <<visible, possible, dirDurable>>
vars == <<process, disk, attempted>>

Steps == {"idle", "create", "write", "sync", "close", "rename", "syncdir"}
NoTemp == [data |-> None, synced |-> FALSE]

TypeOK ==
    /\ up \in BOOLEAN
    /\ memory \in Contents \cup {None}
    /\ step \in Steps
    /\ target \in Contents \cup {None}
    /\ temp \in [data : Contents \cup {Torn, None}, synced : BOOLEAN]
    /\ visible \in Contents \cup {Torn, None}
    /\ possible \in SUBSET (Contents \cup {Torn, None})
    /\ dirDurable \in BOOLEAN
    /\ attempted \in SUBSET (Contents \cup {None})

\* MkdirAll may have to create the directory, and never syncs its parent.
Init ==
    /\ up = FALSE
    /\ memory = None
    /\ step = "idle"
    /\ target = None
    /\ temp = NoTemp
    /\ visible = None
    /\ possible = {None}
    /\ dirDurable \in BOOLEAN
    /\ attempted = {}

-----------------------------------------------------------------------------
(* The process.                                                            *)

\* A start reads the file; what it had before may be what a power loss restores.
Load ==
    /\ ~up
    /\ visible # Torn
    /\ up' = TRUE
    /\ memory' = visible
    /\ attempted' = attempted \cup {memory}
    /\ UNCHANGED <<step, target, temp, disk>>

BeginSave(v) ==
    /\ up
    /\ step = "idle"
    /\ step' = "create"
    /\ target' = v
    /\ attempted' = attempted \cup {v}
    /\ UNCHANGED <<up, memory, temp, disk>>

\* One step of savePrivateBytes goes well, and leaves the disk as it is.
Proceeds(from, to, file) ==
    /\ up
    /\ step = from
    /\ step' = to
    /\ temp' = file
    /\ UNCHANGED <<up, memory, target, disk, attempted>>

CreateTemp == Proceeds("create", "write", [data |-> Torn, synced |-> FALSE])
WriteTemp == Proceeds("write", "sync", [data |-> target, synced |-> FALSE])

\* A mistaken save that does not sync the temporary file.
SkipSync == Proceeds("sync", "close", temp)

SyncTemp == Proceeds("sync", "close", [temp EXCEPT !.synced = TRUE])
CloseTemp == Proceeds("close", "rename", temp)

Rename ==
    /\ up
    /\ step = "rename"
    /\ step' = "syncdir"
    /\ visible' = temp.data
    /\ possible' = possible \cup {temp.data} \cup (IF temp.synced THEN {} ELSE {Torn})
    /\ temp' = NoTemp
    /\ UNCHANGED <<up, memory, target, dirDurable, attempted>>

\* What a successful save has in common: the caller now works from the target.
Saved ==
    /\ up
    /\ step = "syncdir"
    /\ step' = "idle"
    /\ memory' = target
    /\ attempted' = IF dirDurable THEN {} ELSE attempted
    /\ UNCHANGED <<up, target, temp, visible, dirDurable>>

\* A mistaken save that ends with the rename.
ReturnWithoutSync == Saved /\ UNCHANGED possible

SyncDirectory ==
    /\ Saved
    /\ possible' = {visible} \cup (IF dirDurable THEN {} ELSE {None})

\* Any step may fail; the temporary file is removed, the rename is not undone.
SaveFails ==
    /\ up
    /\ step # "idle"
    /\ step' = "idle"
    /\ temp' = NoTemp
    /\ UNCHANGED <<up, memory, target, disk, attempted>>

-----------------------------------------------------------------------------
(* What happens to the process and to the machine.                         *)

Stopped == up' = FALSE /\ step' = "idle" /\ temp' = NoTemp

Crash ==
    /\ up
    /\ Stopped
    /\ UNCHANGED <<memory, target, disk, attempted>>

\* A file that survived proves that its directory did.
LosePower ==
    /\ Stopped
    /\ visible' \in possible
    /\ possible' = {visible'}
    /\ dirDurable' = (dirDurable \/ visible' # None)
    /\ UNCHANGED <<memory, target, attempted>>

Next ==
    \/ Load
    \/ \E v \in Contents : BeginSave(v)
    \/ CreateTemp \/ WriteTemp \/ SyncTemp \/ CloseTemp \/ Rename \/ SyncDirectory
    \/ SaveFails
    \/ Crash
    \/ LosePower

Spec == Init /\ [][Next]_vars

-----------------------------------------------------------------------------
(* Properties.                                                             *)

Register ==
    INSTANCE DurableRegister
        WITH Values <- Contents, Absent <- None, value <- visible, outcomes <- possible

(* The file is a durable register: a reader, a crash and a power loss find *)
(* whole contents only, and a power loss brings back only what a directory *)
(* sync has not put out of reach; that a completed save does so is what    *)
(* OnlyAttempted says.                                                     *)
ImplementsRegister == Register!RegisterSpec

(* After any failures, crashes and power losses the file holds what the    *)
(* process works from, or a content whose save was begun or whose undoing  *)
(* was possible since the last successful save.  In particular a           *)
(* successful save (in a durable directory) survives a power loss.         *)
OnlyAttempted == {visible} \cup possible \subseteq {memory} \cup attempted

-----------------------------------------------------------------------------
(* The inductive invariant behind the first two.                           *)

\* The temporary file is whole and synced before it is renamed, and what was
\* renamed is the content being saved.
SaveInOrder ==
    /\ step # "idle" => target \in Contents /\ target \in attempted
    /\ step \in {"sync", "close", "rename"} => temp.data = target
    /\ step \in {"close", "rename"} => temp.synced
    /\ step = "syncdir" => visible = target

DiskWhole == visible \in possible /\ Torn \notin possible

\* While the directory may vanish, so may the file.
VanishesWithDirectory ==
    ~dirDurable =>
        /\ None \in possible
        /\ None \in attempted \/ (~up /\ memory = None)

FileInv ==
    /\ TypeOK
    /\ SaveInOrder
    /\ DiskWhole
    /\ VanishesWithDirectory
    /\ OnlyAttempted

=============================================================================
