SPECIFICATION Spec
CHECK_DEADLOCK FALSE
CONSTANTS
    Clients = {c1, c2}
    Workers = {}
    None = None
    MaxRequests = 3
    MaxFaults = 1
    Parts = {"accounts", "settings", "bridge", "orders", "history", "stream", "sessions", "health"}
    Rows = {1, 2}
    Uids = {a, b}
    Providers = {deepseek, siliconflow, retired}
    Supported = {deepseek, siliconflow}
    MaxRetries = 1
    MaxMisses = 3
    Prices = {2, 3}
    Quantities = {1, 4}
    MaxQty = 3
    MaxNotional = 7
    Margin = 5
    MaxCash = 7
    MaxHeld = 3
    Owners = {o1, o2}
    Messages = {m1}
    Stocks = {s1, s2}
    Urls = {u1}
    Tasks = {t1, t2}
    ListLimit = 2
    MaxMoves = 3
    DayLength = 5
    HourLength = 1
    ZoneOffset = 2
    MaxWindows = 2
    Unknown = Unknown
    Weights = {34, 35, 45, 75}
    CashRatios = {4, 5}
    Returns <- MCReturns
    Drawdowns = {14, 15}
    Equities = {84, 86, 100}
    MaxPoints = 3
SYMMETRY RequestSymmetry
INVARIANTS
    TypeOK
    AccessIsOfLastBind
    DepositShown
    TokenOfItsProvider
    VerdictsTrue
    StreamTellsLives
    NextOpenIsFirst
PROPERTIES
    OrderWithinMeans
    SavedOnce
    ScoreNeverGains
