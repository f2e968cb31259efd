SPECIFICATION Spec
CONSTANTS
    o1 = o1
    pay1 = pay1
    a1 = a1
    a2 = a2
    r1 = r1
    None = None
    Orders <- MCOrders
    Payments <- MCPayments
    Adjustments <- MCAdjustments
    Returns <- MCReturns
    Amounts <- MCAmounts
    CreditDays <- MCCreditDays
    LastDay = 2
    MaxEntries = 3
SYMMETRY AdjustmentSymmetry
INVARIANTS
    BooksAreTrue
    NoIdleMoney
    DisputesAwaitTheirCredit
PROPERTIES
    OldestDebtFirst
