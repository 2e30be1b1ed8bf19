--------------------------- MODULE MCInformGateway ---------------------------
(* Small instances of InformGateway: the responses the network can deliver *)
(* and the configurations of the process, one pair of sets per run.        *)
EXTENDS InformGateway, TLC

CONSTANTS k1, k2,      \* controller keys
          m0, m1, m2,  \* markers, m0 the one of a fresh device
          h1, h2,      \* hosts
          s1, s2,      \* spellings
          c1, c2       \* carriers

NonceSymmetry == Permutations(Nonces)

\* Bodies of responses.
Noop == [type |-> "noop"]
SetDefault == [type |-> "setdefault"]
Malformed == [type |-> "malformed"]
Empty == [cfg |-> None, url |-> None, key |-> None, gcm |-> "absent", rest |-> "nothing"]
SetParam(m) == [type |-> "setparam", mgmt |-> m, strict |-> TRUE]
Marker(m) == SetParam([Empty EXCEPT !.cfg = m])
Inert(m) == SetParam([Empty EXCEPT !.cfg = m, !.rest = "inert"])
Key(k) == SetParam([Empty EXCEPT !.key = k])
SwitchToGCM == SetParam([Empty EXCEPT !.gcm = "enabled"])
KeyAndGCM(k) == SetParam([Empty EXCEPT !.key = k, !.gcm = "true"])
MoveTo(u) == SetParam([Empty EXCEPT !.url = u])
Upgrade(v) == [type |-> "upgrade", version |-> v, strict |-> TRUE]

Url(scheme, host, spelling) == [scheme |-> scheme, host |-> host, spelling |-> spelling]
Cbc(k, body) == [key |-> k, gcm |-> FALSE, nonce |-> None, body |-> body]
Gcm(k, n, body) == [key |-> k, gcm |-> TRUE, nonce |-> n, body |-> body]
AllGcm(k, bodies) == {Gcm(k, n, b) : n \in Nonces, b \in bodies}

Plain(url) ==
    [url |-> url, receipts |-> "off", firmwareSync |-> FALSE,
     volatileSync |-> FALSE, carrier |-> c1]
WithReceipts(url, mode) == [Plain(url) EXCEPT !.receipts = mode]

-----------------------------------------------------------------------------
(* Trusted HTTPS: full response semantics.  Markers move the state within  *)
(* a replay epoch, keys and resets end it, and the operator may point a    *)
(* device that is pending again at another host.                           *)

HttpsUrl == Url("https", h1, s1)
HttpsConfigurations == {Plain(HttpsUrl), Plain(Url("https", h2, s1))}
HttpsPackets ==
    {Cbc(DefaultKey, b) : b \in {Noop, KeyAndGCM(k1), MoveTo(Url("https", h2, s1))}}
        \cup {Cbc(k2, b) : b \in {SwitchToGCM, Malformed}}
        \cup AllGcm(k1, {Noop, Marker(m0), Marker(m1), Key(k2), SetDefault,
                         MoveTo(Url("https", h1, s2)), MoveTo(Url("https", h2, s1))})
        \cup AllGcm(k2, {Marker(m1), Key(k1)})

-----------------------------------------------------------------------------
(* Plain HTTP: bootstrap and confinement, no receipts.                     *)

HttpUrl == Url("http", h1, s1)
HttpConfigurations ==
    {Plain(HttpUrl), Plain(Url("http", h2, s1)), Plain(HttpsUrl),
     WithReceipts(HttpUrl, "memory"),
     [Plain(HttpUrl) EXCEPT !.volatileSync = TRUE]}
HttpPackets ==
    {Cbc(k, b) : k \in {DefaultKey, k1},
                 b \in {Noop, Key(k1), Key(k2), KeyAndGCM(k1), SwitchToGCM,
                        Marker(m1), SetDefault, MoveTo(Url("https", h1, s1)),
                        Malformed}}
        \cup AllGcm(k1, {Marker(m1), Key(k2), SetDefault})
        \cup AllGcm(DefaultKey, {Noop, Key(k1), Marker(m1)})

-----------------------------------------------------------------------------
(* Receipts, over plain HTTP: every receipt policy, with the operator      *)
(* changing policy or carrier between runs of the process.                 *)

PolicyPackets ==
    {Cbc(DefaultKey, KeyAndGCM(k1))}
        \cup AllGcm(k1, {Inert(m1), Inert(m2), Upgrade(m1)})
PolicyConfigurations ==
    {WithReceipts(HttpUrl, "memory"),
     [WithReceipts(HttpUrl, "persistent") EXCEPT !.firmwareSync = TRUE],
     [WithReceipts(HttpUrl, "persistent") EXCEPT !.carrier = c2]}

=============================================================================
