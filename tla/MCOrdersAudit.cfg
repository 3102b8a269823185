SPECIFICATION Spec
CHECK_DEADLOCK FALSE
CONSTANTS
    Calls = {c1}
    Users = {u1}
    Stocks = {s1}
    Stock = s1
    Terms = {buy1, sell1}
    buy1 = buy1
    sell1 = sell1
    Sessions = {x1}
    Tasks = {}
    Owner = u1
    ClientKeys = {}
    LongKeys = {}
    DirectionOf <- MCDirectionOf
    OwnerOf <- MCOwnerOf
    StockOf <- MCStockOf
    None = None
    MaxRequests = 3
    MaxOrders = 3
    MaxFaults = 0
INVARIANT AuditDescribesItsOrder
