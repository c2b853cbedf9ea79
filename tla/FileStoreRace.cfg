SPECIFICATION Spec
CONSTANTS
    Keys = {k1, k2}
    Values = {v1, v2}
    Workers = {w1, w2}
    Offers <- MCOffers
    Partial = Partial
    None = None
SYMMETRY Symmetry
INVARIANTS TypeOK FilesAreWhole
PROPERTIES ImplementsAggregateStore ListIsPlausible
