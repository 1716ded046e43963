SPECIFICATION Spec
CONSTANTS
    Shims = {s1, s2}
    MaxPanes = 2
    MaxWindows = 2
    MaxDirs = 2
    NoPane = NoPane
    NoFile = NoFile
    Torn = Torn
SYMMETRY Interchangeable
INVARIANTS RegistryIsValid NoLostUpdate EveryPaneIsListed
