SPECIFICATION Spec
CONSTANTS
    Block = 8
    BufCap = 32
    PacketSize = 8
    EpSlots = 1
    Chunk = 5
    MaxCmds = 2
    MaxResets = 1
    HostCbws <- MCHostCbwsUfi
INVARIANTS
    TypeOK
    NoBabble
    CswValid
    ResidueAgrees
    CommandPhaseClean
PROPERTIES
    CommandCompletes
    ImplementsBotCycle
