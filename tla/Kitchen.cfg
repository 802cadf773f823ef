\* One order, three members of staff.
CONSTANTS
    Orders = {o1}
    Items = {i1}
    Desks = {d1, d2, d3}
    NoOrder = NoOrder
    Prices = {2}
    MaxQty = 1
    MaxDay = 0
    MaxMenuChanges = 0
    MaxMoves = 4
    Worked = {o1}
SPECIFICATION FairSpec
INVARIANT
    HistoryTellsStatus
PROPERTY
    KitchenCatchesUp
