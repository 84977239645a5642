\* A check is marked assessed although no scanner of it has run.
SPECIFICATION Spec
CONSTANTS
    i1 = i1
    i2 = i2
    i3 = i3
    NoItem = NoItem
    Items = {i1, i2, i3}
    MaxItems = 2
    Configurations <- AllConfigurations
SYMMETRY ItemSymmetry
INVARIANTS
    NotAssessedUnlessRun
