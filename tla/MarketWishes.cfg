CONSTANTS
    Seller = {s1}
    Buyer = {b1, b2, b3}
    Quantity = {1}
    Rating = {}
    Workers = 3
    MaxItems = 1
    MaxDisturbances = 0
SPECIFICATION Spec
INVARIANT UpdateReachesWishers
