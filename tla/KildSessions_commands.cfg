SPECIFICATION Spec
CONSTANTS
    Procs = {p1, p2}
    MaxAgents = 2
SYMMETRY Symmetry
INVARIANTS
    AgentsAreNumbered
    NextIdIsFree
    StoppedAgentIsDead
PROPERTIES
    AgentsDieBeforeWorktree
