SPECIFICATION GateSpec
CONSTANTS
    n1 = n1
    n2 = n2
    c1 = c1
    c2 = c2
    h1 = h1
    b1 = b1
    Nodes = {n1}
    Cron = {c1}
    Hotplug = {h1}
    Host <- HostOf
    Bss = {b1}
    K = 2
    MaxEvents = 4
PROPERTIES
    GateOffAfterK
