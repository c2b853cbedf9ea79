SPECIFICATION Spec
CONSTANTS
    Handles = {h1}
    Items = {a, b}
    Prices = {5, 15}
    MaxQuantity = 2
    Codes = {parcel}
    Fees = {10}
    Discounts <- MCDiscounts
    TaxRates = {0, 100}
    SaveMayFail = TRUE
    None = None
SYMMETRY MCSymmetry
INVARIANTS
    TypeOK
    DiscountIsBounded
    RoundingIsBounded
PROPERTY
    MoreNeverCostsLess
