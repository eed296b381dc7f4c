CONSTANTS
    Seller = {s1}
    Buyer = {b1, b2}
    Quantity = {1, 2}
    Rating = {5}
    Workers = 2
    MaxItems = 1
    MaxDisturbances = 1
SPECIFICATION Spec
INVARIANTS
    TypeOK
    NeverOversold
    RatingsAddUp
    RatingsNeverInvented
    PurchasesComplete
    SuccessMeansNotified
PROPERTY
    EveryCallEnds
