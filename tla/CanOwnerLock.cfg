SPECIFICATION Spec
CONSTANTS
    ArmNodes = {a1, a2}
    WbcNodes = {w1}
    Nobody = Nobody
    Orphans = Orphans
INVARIANTS
    OneWriterInService
    RefusalNamesOwner
