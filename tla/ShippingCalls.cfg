SPECIFICATION Spec
CONSTANTS
    o1 = o1
    o2 = o2
    w1 = w1
    w2 = w2
    o3 = o3
    Orders = {o1, o2, o3}
    Unserved = {o3}
    Waybills = {w1, w2}
    MockWaybill <- MCMockWaybill
    Providers = {"delhivery", "mock"}
    Texts = {"manifested", "undelivered", "delivered", "cancelled"}
    MaxCalls = 3
    None = None
CHECK_DEADLOCK FALSE
INVARIANTS TypeOK HeldIsManifested NoStrayParcel OneParcelPerCall CancelHolds FinalReportsHold PickupIsBooked
