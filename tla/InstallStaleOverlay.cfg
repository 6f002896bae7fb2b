SPECIFICATION InstallSpec
CONSTANTS
    m1 = m1
    m2 = m2
    m3 = m3
    m4 = m4
    Identity <- OnePuck
    Macs = {m1, m2}
    Images = {"i1", "i2"}
    Handlers = {h1}
    Clis = {}
    Main = Main
    MaxFaults = 1
    MaxPublishes = 0
INVARIANTS
    NoStaleOverlay
