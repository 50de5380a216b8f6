SPECIFICATION Spec
CONSTANTS
    None = None
    Descriptor <- Unnumbered
    SearchPath <- ShortPaths
    PathSize = 10
    Leftover = {7}
PROPERTY
    FoundIsOnPath
