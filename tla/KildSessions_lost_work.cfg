SPECIFICATION Spec
CONSTANTS
    Procs = {p1}
    MaxAgents = 1
PROPERTIES
    UnforcedDestroyKeepsWork
