SPECIFICATION Spec
CONSTANTS
    k1 = k1  k2 = k2
    m0 = m0  m1 = m1  m2 = m2
    h1 = h1  h2 = h2
    s1 = s1  s2 = s2
    c1 = c1  c2 = c2
    DefaultKey = dk
    None = None
    ControllerKeys = {k1, k2}
    Markers = {m0, m1, m2}
    ZeroMarker = m0
    Hosts = {h1, h2}
    Spellings = {s1, s2}
    Carriers = {c1, c2}
    Nonces = {n1, n2}
    MaxGCMReplayNonces = 1
    Packets <- HttpPackets
    AllowedConfigurations <- HttpConfigurations
    ReceiptWriteInterval = 0
    StaleAfter = 0
    MaxTime = 0
SYMMETRY NonceSymmetry
INVARIANT
    StateFileLoadable
PROPERTIES
    AdoptionPinned
    InformAllOrNothing
