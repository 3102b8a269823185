SPECIFICATION Spec
CHECK_DEADLOCK FALSE
CONSTANTS
    c1 = c1
    c2 = c2
    w1 = w1
    w2 = w2
    Clients = {c1, c2, w1, w2}
    Workers = {w1, w2}
    None = None
    Pages = {"replays", "jobs", "evaluations", "strategies"}
    MaxRequests = 2
    MaxFaults = 2
    Hashes = {h1, h2}
    Groups = {1, 2}
    MaxAttempts = 2
    o1 = o1
    s1 = s1
    s2 = s2
    Owners = {o1}
    Codes = {s1, s2}
    HistoryRows = {1, 2}
    OwnerOf <- MCOwnerOf
    CodeOf <- MCCodeOf
    Limit = 1
    Slots = {1, 2}
    Names = {n1, n2}
    Texts = {d1}
    Blank = Blank
    ma = ma
    macd = macd
    dsl = dsl
    Templates = {ma, macd, dsl}
    Dsl = dsl
    window = window
    fast = fast
    slow = slow
    entry = entry
    Fields = {window, fast, slow, entry}
    Entry = entry
    FieldsOf <- MCFieldsOf
    Least <- MCLeast
    Most <- MCMost
    DefaultOf <- MCDefaultOf
    Below <- MCBelow
    Given <- MCGiven
SYMMETRY RequestSymmetry
INVARIANTS
    TypeOK
    DetailIsOneVersion
    WorkHeldOnce
    CompletedIsInterpreted
    AttemptsBounded
    SummariesCurrent
PROPERTIES
    ReadingsStay
    EditsKept
