---------------------------- MODULE ReceiptPromises ----------------------------
(***************************************************************************)
(* What the documentation promises about receipt files, and history to     *)
(* state it with.  InformGateway records in lastWrite what the code        *)
(* records: the time the inform began, before the request was sent.  This  *)
(* module adds the time the file was replaced, and which files lay on the  *)
(* disk when the operator changed the receipt policy.                      *)
(***************************************************************************)
EXTENDS InformGateway

VARIABLES
    writtenAt,    \* per kind, the time of the last write of this process
    retired       \* kinds whose file is older than a change of receipt policy

promiseVars == <<vars, writtenAt, retired>>

PromiseInit ==
    /\ Init
    /\ writtenAt = [k \in Kinds |-> None]
    /\ retired = {}

\* Files on the disk when a process starts under another policy are retired;
\* the next write of such a file is current again.
PromiseNext ==
    /\ Next
    /\ writtenAt' = [k \in Kinds |-> IF ~up THEN None
                                     ELSE IF diskReceipt'[k] # diskReceipt[k] THEN now
                                     ELSE writtenAt[k]]
    /\ retired' = IF config'.receipts # config.receipts
                  THEN {k \in Kinds : diskReceipt[k] # None}
                  ELSE {k \in retired : diskReceipt'[k] = diskReceipt[k]}

PromiseSpec == PromiseInit /\ [][PromiseNext]_promiseVars

(* docs/configuration.md:176 and SECURITY.md:209 promise at most one       *)
(* receipt transition written per 30 seconds per process.  The code spaces *)
(* the starts of the informs, and an answer may take the inform timeout.   *)
ReceiptWritesSpaced ==
    [][\A k \in Kinds :
          diskReceipt'[k] # diskReceipt[k] /\ writtenAt[k] # None
              => now - writtenAt[k] >= ReceiptWriteInterval]_promiseVars

(* docs/configuration.md:172-173 says that changing the receipt policy     *)
(* invalidates the cached receipt.  ReceiptEpoch does not depend on the    *)
(* policy: switched off and on again, it takes up the old file.            *)
RetiredReceiptsUnused ==
    up => \A k \in retired : Durable(k) => receipt[k] = NoReceipt

=============================================================================
