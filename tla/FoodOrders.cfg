\* Three orders of two items around midnight, while the menu changes once.
CONSTANTS
    Orders = {o1, o2, o3}
    Items = {i1, i2}
    Desks = {}
    NoOrder = NoOrder
    Prices = {2, 3}
    MaxQty = 1
    MaxDay = 1
    MaxMenuChanges = 1
    MaxMoves = 0
    Worked = {}
SPECIFICATION Spec
INVARIANTS
    NumbersGapFree
    PricedAtOneMoment
SYMMETRY OrderSymmetry
\* Every order may be placed.
CHECK_DEADLOCK FALSE
