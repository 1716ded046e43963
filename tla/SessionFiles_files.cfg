SPECIFICATION Spec
CONSTANTS
    Width = 7
    BasePort = 2
    PortCount = 2
    Exhausted = Exhausted
    Procs = {p1, p2}
    k1 = k1  k2 = k2  k3 = k3  b1 = b1  b2 = b2
    Kilds = {k1, k2, k3}
    Branches = {b1, b2}
    BranchOf <- TwoProjects
    OldRanges <- Old
    NoKild = NoKild
    NoBranch = NoBranch
    NoFile = NoFile
    Torn = Torn
    MaxCommands = 3
SYMMETRY Interchangeable
INVARIANTS TypeOK SavedIsReadable OneKildPerBranch PortsDisjoint CleanupSparesKilds
