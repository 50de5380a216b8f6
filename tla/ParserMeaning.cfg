SPECIFICATION Spec
CONSTANTS
    None = None
    Descriptor <- NumberedOrRecorded
    SearchPath <- ShortPaths
    PathSize = 10
    Leftover = {7}
INVARIANTS
    TypeOK
    PathIsNesting
    OffsetsAreSums
    DumpIsRecorded
PROPERTIES
    CatalogueSpec
