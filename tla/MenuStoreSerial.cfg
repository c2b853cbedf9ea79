SPECIFICATION StoreSpec
CONSTANTS
    Slugs = {dosa}
    MaxSuffix = 2
    MaxStock = 2
    Categories = {c1}
    ComboIds = {k1}
    MaxRefs = 2
    Invalid = Invalid
    None = None
    Handles = {h1, h2}
    MaxItems = 2
    RepeatRefs = TRUE
    Renames = TRUE
    SaveMayFail = TRUE
    Serial = TRUE
SYMMETRY Symmetry
INVARIANTS StoreTypeOK StoredIsSerial
PROPERTY ImplementsRegistry
