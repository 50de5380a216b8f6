SPECIFICATION Spec
CONSTANTS
    Field <- AllFields
    Settable <- Bytes
    Report <- Reports
    Value <- Values
INVARIANTS
    GetIsMeaning
    SetIsGot
PROPERTY
    OthersKept
