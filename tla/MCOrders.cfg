SPECIFICATION Spec
CHECK_DEADLOCK FALSE
CONSTANTS
    Calls = {c1, c2}
    Users = {u1, u2}
    Stocks = {s1, s2}
    Stock = s1
    Terms = {buy1, sell1}
    buy1 = buy1
    sell1 = sell1
    Sessions = {x1}
    Tasks = {t1}
    Owner = u1
    ClientKeys = {k1, long}
    LongKeys = {long}
    DirectionOf <- MCDirectionOf
    OwnerOf <- MCOwnerOf
    StockOf <- MCStockOf
    None = None
    MaxRequests = 3
    MaxOrders = 3
    MaxFaults = 1
SYMMETRY CallSymmetry
INVARIANTS
    TypeOK
    AuditNamesItsOrder
    OneOrderPerKey
