SPECIFICATION LiveGateSpec
CONSTANTS
    n1 = n1
    n2 = n2
    c1 = c1
    c2 = c2
    h1 = h1
    b1 = b1
    Nodes = {n1, n2}
    Cron = {c1, c2}
    Hotplug = {h1}
    Host <- HostOf
    Bss = {b1}
    K = 2
    MaxEvents = 2
INVARIANTS
    GateTypeOK
    GatedInTime
PROPERTIES
    AloneGatesOffAfterK
    IslandedGoesSilent
    ReachableServes
