SPECIFICATION LiveSpiSpec
CONSTANTS
    Pucks = {"p1", "p2"}
    Rekeyed = {"p2"}
    Last = 4
    Plan <- ThreeRegions
    SlotA = {1, 2}
    SlotB = {3}
    Zero = {1}
    MaxFaults = 2
INVARIANTS
    SpiTypeOK
    VerifiedIsOnChip
    AwakeMeansOffered
PROPERTIES
    GbbLast
    NeverGoesBack
    ImplementsFlashTool
    CommandEnds
