SPECIFICATION Spec
CONSTANT Tenths <- MCTenths
INVARIANTS
    AutoIsEarned
    ModeIsCeiling
    EvidenceIsMonotone
