CONSTANTS
    Worker = {w1, w2}
    Content = {"small", "other", "huge"}
    NoContent = "none"
    Names <- MCNames
    HasValidExt <- MCHasValidExt
    Unreadable <- MCUnreadable
    Prefix <- MCPrefix
    maxZipSize = 3
    Faults = {"kill", "http_error", "read_error", "write_error"}
SPECIFICATION Spec
SYMMETRY MCSymmetry
INVARIANTS
    TypeOK
    OnlyPrefixes
    MarkedIsWhole
    ZipIInv
CHECK_DEADLOCK FALSE
