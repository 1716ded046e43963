SPECIFICATION Spec
CONSTANTS
    Procs = {p1, p2}
    Workers = {w}
    Brain = honryu
    NoFile = NoFile
    Torn = Torn
    MaxCommands = 4
SYMMETRY Interchangeable
INVARIANTS InboxKeepsAll TeamIsListed
