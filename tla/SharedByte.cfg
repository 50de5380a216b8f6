SPECIFICATION Spec
CONSTANTS
    Field <- Nibble
    Settable <- Nibble
    Report <- Reports
    Value <- Values
INVARIANT
    SetIsGot
