\* A yard order, the order made from it and another one, two users.
SPECIFICATION Spec
CONSTANTS
    y = y  c1 = c1  c2 = c2  ly = ly  l1 = l1  l2 = l2  l3 = l3
    User = {u1, u2}
    Order = {y, c1, c2}
    NoOrder = NoOrder
    Customer = {c1, c2}
    Parent <- FromYard
    Serviced = {y}
    Line = {ly, l1, l2, l3}
    OrderOf <- LineOrders
    Price <- RoutePrices
    Goods = 3
    Billed = 4
    ConfirmTwice = FALSE
    MaxPresses = 5
SYMMETRY Users
INVARIANTS TypeOK OneDifference WayBillRewardsOnce
PROPERTIES CancelTakesAll 
CHECK_DEADLOCK FALSE
