SPECIFICATION ExchangeSpec
CONSTANTS
    None = None
    Descriptor <- TwoDevices
    SearchPath <- Paths
    PathSize = 10
    Leftover = {7}
    Size = {2, 3}
INVARIANTS
    ExchangeTypeOK
    RightReport
    SuccessIsHonest
    FoundIsFirst
PROPERTY
    ReportCallReturns
