SPECIFICATION ViewSpec
CONSTANTS
    Kilds = {k1, k2}
    SlotCount = 2
    MaxTabs = 2
    MaxAttaches = 1
    NoKild = NoKild
    NoTabs = NoTabs
    NoPane = NoPane
    NoSlot = NoSlot
SYMMETRY Interchangeable
INVARIANTS ViewTypeOK GridIsConsistent ActiveTabExists ViewsAreListed FocusHasTerminal ChangesAreAnnounced
PROPERTIES TerminalsSurvive
