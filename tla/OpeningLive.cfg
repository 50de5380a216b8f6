SPECIFICATION Spec
CONSTANTS
    d1 = d1
    d2 = d2
    low = low
    high = high
    NULL = NULL
    Free = Free
    Foreign = Foreign
    Bit <- MCBit
    VendorId <- MCVendorId
    ProductId <- MCProductId
    Hid = {a, b}
    Device = {d1}
    Iface = {i0}
    Handle = {x1, x2, x3}
    Matcher <- AnyMatcher
    MaxOpen = 2
    MaxRetries = 1
    Os = "linux"
    Evictions = FALSE
    TidyClients = TRUE
PROPERTIES
    CallsReturn
    OwnershipSpec
