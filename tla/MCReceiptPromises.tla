--------------------------- MODULE MCReceiptPromises ---------------------------
(* Small instances of ReceiptPromises: one device over plain HTTP, with    *)
(* persistent configuration receipts, or with a policy that changes.       *)
EXTENDS ReceiptPromises, TLC

CONSTANTS k1, m1, m2, h1, s1, c1

NonceSymmetry == Permutations(Nonces)

Mgmt(m, k, gcm, rest) == [cfg |-> m, url |-> None, key |-> k, gcm |-> gcm, rest |-> rest]
SetParam(mgmt) == [type |-> "setparam", mgmt |-> mgmt, strict |-> TRUE]

ReceiptPackets ==
    {[key |-> DefaultKey, gcm |-> FALSE, nonce |-> None,
      body |-> SetParam(Mgmt(None, k1, "true", "nothing"))]}
        \cup {[key |-> k1, gcm |-> TRUE, nonce |-> n,
               body |-> SetParam(Mgmt(m, None, "absent", "inert"))] :
                  n \in Nonces, m \in {m1, m2}}

Policy(mode) ==
    [url |-> [scheme |-> "http", host |-> h1, spelling |-> s1],
     receipts |-> mode, firmwareSync |-> FALSE, volatileSync |-> FALSE, carrier |-> c1]

OnePolicy == {Policy("persistent")}
TwoPolicies == {Policy("persistent"), Policy("memory")}

=============================================================================
