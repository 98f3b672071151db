SPECIFICATION Spec
INVARIANT
    NoParsePanic
