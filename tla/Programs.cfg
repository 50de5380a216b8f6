SPECIFICATION ProgramSpec
CONSTANTS
    d1 = d1
    d2 = d2
    d3 = d3
    low = low
    high = high
    NULL = NULL
    Free = Free
    Foreign = Foreign
    Bit <- MCBit
    VendorId <- MCVendorId
    ProductId <- MCProductId
    Hid = {a}
    Device = {d1, d2, d3}
    Iface = {i0}
    Interface0 = i0
    Handle = {x1, x2}
    Matcher <- MCMatcher
    Program <- AllPrograms
    HidClass = {d1, d2}
    AskedFor <- IdsOfSecond
    MaxOpen = 2
    MaxRetries = 3
    Os = "linux"
    Evictions = FALSE
    TidyClients = TRUE
INVARIANTS
    ProgramTypeOK
    TriedOnce
    NoneMissed
    TableFits
    LeavesNothingOpen
PROPERTIES
    DoneIsDetached
    ProgramEnds
