SPECIFICATION Spec
CONSTANTS
    o1 = o1
    o2 = o2
    p1 = p1
    store1 = store1
    c1 = c1
    c2 = c2
    r1 = r1
    r2 = r2
    None = None
    Orders <- MCOneOrder
    Products <- MCProducts
    Partnerships <- MCPartnerships
    PartnershipOf <- MCPartnershipOf
    RequestLines <- MCRequestLines
    SubscriptionStates <- AnySubscription
    CompanyStates <- AnyCompany
    Couriers <- MCCouriers
    Runs <- MCOneRun
    MaxAttempts = 3
    MaxQuantity = 2
    MaxShipped = 2
SYMMETRY IdSymmetry
INVARIANTS
    TypeOK
    OneOpenDelivery
    ChargedOnceWhenHandedOver
    OnRoadCanBeDelivered
PROPERTIES
    NoWayBack
