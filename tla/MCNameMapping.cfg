CONSTANTS
    Name = "p"
    CondaName = {1, 2, 3}
    Placeholder = 0
    NameAxis <- MCNameAxis
    Canonical <- MCCanonical
    Tables <- MCTables
    Chains <- MCChains
SPECIFICATION Spec
INVARIANTS
    TypeOK
    EvidenceIsMonotone
    OverridesDecide
    AmbiguityIsReported
    BestBacked
    CondaLockAloneIsUncontested
    VendoredNeverDisplaces
