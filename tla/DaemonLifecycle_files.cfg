SPECIFICATION Spec
CONSTANTS
    Procs = {k1, k2}
    Daemons = {d1, d2}
    None = None
    Empty = Empty
    MaxVersion = 1
SYMMETRY Interchangeable
INVARIANTS ServingIsKnown UpgradeIsCalm StartGetsPast
