SPECIFICATION Spec
INVARIANTS
    ScsiDecodes
    UfiDecodes
    ChsRoundTrip
    CbwDecodes
    CswEncodes
