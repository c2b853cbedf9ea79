SPECIFICATION Spec
CONSTANTS
    OrderIds = {o1, o2, f1}
    ForeignIds = {f1}
    PaymentIds = {p1, p2}
    Amounts = {100, 250}
    Carts = {c1}
    Workers = {w1, w2}
    None = None
SYMMETRY Symmetry
INVARIANTS TypeOK PaidImpliesSigned OnePaymentOneOrder AmountIsCharged
