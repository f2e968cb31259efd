SPECIFICATION InventorySpec
CONSTANTS
    o1 = o1
    o2 = o2
    p1 = p1
    p2 = p2
    Orders <- MCOrders
    Products <- MCProducts
    MaxQuantity = 2
    MaxShipped = 2
SYMMETRY OrderSymmetry
INVARIANTS
    ReservedIsSumOfActive
    GoodsAreAccountedFor
PROPERTIES
    ReservationIsAllOrNothing
