SPECIFICATION Spec
CONSTANTS
    Block = 8
    BufCap = 32
    PacketSize = 8
    EpSlots = 1
    Chunk = 5
    MaxCmds = 1
    MaxResets = 1
    HostCbws <- MCHostCbwsHiLtDi
INVARIANT
    NoBabble
