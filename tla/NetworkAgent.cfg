SPECIFICATION AgentSpec
CONSTANTS
    Networks = {n1, n2}
    Generations = {g1, g2}
    None = None
    KernelLifetime = 4
    Second = 2
    GuardTime = 1
    Servers = {s1, s2}
    Xids = {x1, x2}
    Modes = {"dhcp", "static"}
    StaticNetwork = n1
    LeaseTime = 7
    RenewTime = 2
    RebindTime = 4
    Margin = 5
    StartPause = 5
    ProbeTime = 1
    MaxWire = 2
INVARIANTS
    AgentTypeOK
    AddressGranted
    Recoverable
    StatusBacked
PROPERTIES
    ImplementsOwner
SYMMETRY Interchangeable
