---------------------------- MODULE AtomicFileProofs ----------------------------
(* The replacement of a file keeps FileInv, and implements a durable       *)
(* register, for any set of contents.                                      *)
EXTENDS AtomicFile, TLAPS

\* Before the first save the file is absent or whole.
LEMMA InitFile == Init => FileInv
<1> SUFFICES ASSUME Init PROVE FileInv
  OBVIOUS
<1>1. TypeOK
  BY DEF Init, TypeOK, Steps, NoTemp
<1>2. SaveInOrder
  BY DEF Init, SaveInOrder
<1>3. DiskWhole
  BY FileAssumption DEF Init, DiskWhole
<1>4. VanishesWithDirectory /\ OnlyAttempted
  BY DEF Init, VanishesWithDirectory, OnlyAttempted
<1> QED
  BY <1>1, <1>2, <1>3, <1>4 DEF FileInv

\* A start and the steps before the rename leave the disk alone.
LEMMA QuietStepFile ==
  ASSUME FileInv,
         Load \/ (\E v \in Contents : BeginSave(v)) \/ CreateTemp \/ WriteTemp
           \/ SyncTemp \/ CloseTemp \/ SaveFails \/ Crash
  PROVE  FileInv' /\ UNCHANGED disk
<1> USE DEF FileInv, TypeOK, Steps, NoTemp, SaveInOrder, DiskWhole,
            VanishesWithDirectory, OnlyAttempted, disk
<1>1. CASE Load
  BY <1>1 DEF Load
<1>2. CASE \E v \in Contents : BeginSave(v)
  BY <1>2 DEF BeginSave
<1>3. CASE CreateTemp
  BY <1>3 DEF CreateTemp, Proceeds
<1>4. CASE WriteTemp
  BY <1>4 DEF WriteTemp, Proceeds
<1>5. CASE SyncTemp
  BY <1>5 DEF SyncTemp, Proceeds
<1>6. CASE CloseTemp
  BY <1>6 DEF CloseTemp, Proceeds
<1>7. CASE SaveFails
  BY <1>7 DEF SaveFails
<1>8. CASE Crash
  BY <1>8 DEF Crash, Stopped
<1> QED
  BY <1>1, <1>2, <1>3, <1>4, <1>5, <1>6, <1>7, <1>8

\* The rename puts the content being saved in the place of the old one.
LEMMA RenameFile ==
  ASSUME FileInv, Rename
  PROVE  FileInv' /\ Register!Put(target) /\ target \in Contents
<1>1. /\ visible' = target /\ possible' = possible \cup {target}
      /\ target \in Contents /\ target \in attempted
  BY DEF FileInv, SaveInOrder, Rename
<1>2. TypeOK' /\ SaveInOrder'
  BY <1>1 DEF FileInv, TypeOK, Steps, NoTemp, SaveInOrder, Rename
<1>3. DiskWhole' /\ VanishesWithDirectory' /\ OnlyAttempted'
  BY <1>1, FileAssumption
     DEF FileInv, DiskWhole, VanishesWithDirectory, OnlyAttempted, Rename
<1> QED
  BY <1>1, <1>2, <1>3 DEF FileInv, Register!Put

\* The sync of the directory settles the file on what it shows.
LEMMA SyncDirectoryFile ==
  ASSUME FileInv, SyncDirectory
  PROVE  FileInv' /\ Register!Settle
<1>1. visible = target /\ target \in Contents /\ visible \in possible
  BY DEF FileInv, SaveInOrder, DiskWhole, SyncDirectory, Saved
<1>2. /\ visible' = visible /\ memory' = target
      /\ possible' = {visible} \cup (IF dirDurable THEN {} ELSE {None})
      /\ dirDurable' = dirDurable
      /\ attempted' = IF dirDurable THEN {} ELSE attempted
      /\ up /\ up' /\ step' = "idle"
  BY DEF SyncDirectory, Saved
<1>3. possible' \subseteq possible /\ visible \in possible'
  BY <1>1, <1>2 DEF FileInv, VanishesWithDirectory
<1>4. TypeOK' /\ SaveInOrder'
  BY <1>1, <1>2 DEF FileInv, TypeOK, Steps, SaveInOrder, SyncDirectory, Saved
<1>5. DiskWhole' /\ VanishesWithDirectory' /\ OnlyAttempted'
  BY <1>1, <1>2, <1>3 DEF FileInv, DiskWhole, VanishesWithDirectory, OnlyAttempted
<1> QED
  BY <1>2, <1>3, <1>4, <1>5 DEF FileInv, Register!Settle

\* A power loss leaves one of the possible outcomes, and all of them are
\* whole.
LEMMA LosePowerFile ==
  ASSUME FileInv, LosePower
  PROVE  FileInv' /\ Register!PowerLoss
<1> QED
  BY DEF FileInv, TypeOK, Steps, NoTemp, SaveInOrder, DiskWhole,
         VanishesWithDirectory, OnlyAttempted, LosePower, Stopped, Register!PowerLoss

\* The grid: every step keeps the invariant and is a step of the register or a
\* stutter.
LEMMA StepFile ==
  ASSUME FileInv, [Next]_vars
  PROVE  FileInv' /\ [Register!RegisterNext]_(Register!registerVars)
<1>1. CASE Rename
  BY <1>1, RenameFile DEF Register!RegisterNext
<1>2. CASE SyncDirectory
  BY <1>2, SyncDirectoryFile DEF Register!RegisterNext
<1>3. CASE LosePower
  BY <1>3, LosePowerFile DEF Register!RegisterNext
<1>4. CASE Load \/ (\E v \in Contents : BeginSave(v)) \/ CreateTemp \/ WriteTemp
             \/ SyncTemp \/ CloseTemp \/ SaveFails \/ Crash
  BY <1>4, QuietStepFile DEF disk, Register!registerVars
<1>5. CASE UNCHANGED vars
  BY <1>5 DEF vars, process, disk, FileInv, TypeOK, SaveInOrder, DiskWhole,
              VanishesWithDirectory, OnlyAttempted, Register!registerVars
<1> QED
  BY <1>1, <1>2, <1>3, <1>4, <1>5 DEF Next

(* What savePrivateBytes leaves behind, whichever of its steps fails and   *)
(* wherever the process or the machine stops, is what the process works    *)
(* from or a content that was being saved.                                 *)
THEOREM OnlyAttemptedSurvives == Spec => []OnlyAttempted
<1>1. FileInv /\ [Next]_vars => FileInv'
  BY StepFile
<1>2. FileInv => OnlyAttempted
  BY DEF FileInv
<1> QED
  BY InitFile, <1>1, <1>2, PTL DEF Spec

(* A file replaced by savePrivateBytes is a durable register.              *)
THEOREM FileImplementsRegister == Spec => ImplementsRegister
<1>1. Init => Register!RegisterInit
  BY DEF Init, Register!RegisterInit
<1>2. FileInv /\ [Next]_vars => FileInv'
  BY StepFile
<1>3. FileInv /\ [Next]_vars => [Register!RegisterNext]_(Register!registerVars)
  BY StepFile
<1> QED
  BY InitFile, <1>1, <1>2, <1>3, PTL
     DEF Spec, ImplementsRegister, Register!RegisterSpec

=============================================================================
