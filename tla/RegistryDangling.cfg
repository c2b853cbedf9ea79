SPECIFICATION Spec
CONSTANTS
    Slugs = {dosa}
    MaxSuffix = 2
    MaxStock = 1
    Categories = {}
    ComboIds = {k1}
    MaxRefs = 2
    Invalid = Invalid
    None = None
    Handles = {h1}
    MaxItems = 2
    RepeatRefs = TRUE
    Renames = FALSE
    SaveMayFail = FALSE
    Serial = TRUE
SYMMETRY Symmetry
INVARIANT CombosNeverDangle
