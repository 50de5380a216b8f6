SPECIFICATION Spec
CONSTANTS
    d1 = d1
    d2 = d2
    low = low
    high = high
    NULL = NULL
    Free = Free
    Foreign = Foreign
    Bit <- MCBit
    VendorId <- MCVendorId
    ProductId <- MCProductId
    Hid = {a, b, c}
    Device = {d1}
    Iface = {i0, i1, i2}
    Handle = {x1, x2, x3}
    Matcher <- AnyMatcher
    MaxOpen = 2
    MaxRetries = 1
    Os = "linux"
    Evictions = TRUE
    TidyClients = FALSE
SYMMETRY Interchangeable
VIEW AllButRet
INVARIANTS
    ExclusiveListed
PROPERTIES
    OwnClaimKept
