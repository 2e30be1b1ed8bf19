SPECIFICATION HandoffSpec
CONSTANTS
    Networks = {n1}
    Generations = {g1, g2}
    None = None
    KernelLifetime = 3
    Second = 3
    GuardTime = 1
    WatchLimit = 2
    Horizon = 4
PROPERTIES
    UnchangedRenewalKeepsGateway
