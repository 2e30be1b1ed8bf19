SPECIFICATION PromiseSpec
CONSTANTS
    k1 = k1
    m1 = m1  m2 = m2
    h1 = h1
    s1 = s1
    c1 = c1
    DefaultKey = dk
    None = None
    ControllerKeys = {k1}
    Markers = {m0, m1, m2}
    ZeroMarker = m0
    Hosts = {h1}
    Spellings = {s1}
    Carriers = {c1}
    Nonces = {n1, n2}
    MaxGCMReplayNonces = 2
    Packets <- ReceiptPackets
    AllowedConfigurations <- TwoPolicies
    ReceiptWriteInterval = 0
    StaleAfter = 0
    MaxTime = 0
SYMMETRY NonceSymmetry
INVARIANT RetiredReceiptsUnused
