SPECIFICATION Spec
CONSTANTS
    Block = 32
    BufCap = 32
    PacketSize = 8
    EpSlots = 1
    Chunk = 5
    MaxCmds = 2
    MaxResets = 1
    HostCbws <- MCHostCbwsRp2040User
INVARIANTS
    CommandPhaseClean
    CswValid
CHECK_DEADLOCK FALSE
