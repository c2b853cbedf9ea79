SPECIFICATION StoreSpec
CONSTANTS
    Slugs = {dosa}
    MaxSuffix = 2
    MaxStock = 0
    Categories = {}
    ComboIds = {k1}
    MaxRefs = 1
    Invalid = Invalid
    None = None
    Handles = {h1, h2}
    MaxItems = 2
    RepeatRefs = FALSE
    Renames = FALSE
    SaveMayFail = FALSE
    Serial = FALSE
SYMMETRY Symmetry
PROPERTY LoadReturnsPersisted
