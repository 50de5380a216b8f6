SPECIFICATION WrapSpec
SYMMETRY Interchangeable
CONSTANTS
    low = low
    NULL = NULL
    Free = Free
    Foreign = Foreign
    Bit <- MCBit
    VendorId <- MCVendorId
    ProductId <- MCProductId
    Hid = {a, b, c}
    Device = {d1}
    Iface = {i0, i1}
    Interface0 = i0
    Handle = {x1, x2, x3}
    Matcher <- AnyMatcher
    MaxOpen = 3
    MaxRetries = 1
    MaxInits = 3
    Os = "darwin"
    Evictions = FALSE
    TidyClients = FALSE
INVARIANTS
    WrapTypeOK
    FlagTracksLibrary
    NoneLeftOpen
    CleanAtExit
    FreedAfterCleanup
    NoReopen
PROPERTIES
    DelRaises
