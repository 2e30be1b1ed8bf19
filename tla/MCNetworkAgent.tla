--------------------------- MODULE MCNetworkAgent ---------------------------
(* The managed network agent on a small instance. *)
EXTENDS NetworkAgent, TLC

\* Servers, transactions and generations are interchangeable; networks are not,
\* one of them is the static one.
Interchangeable == Permutations(Servers) \cup Permutations(Xids) \cup Permutations(Generations)
=============================================================================
