CONSTANTS
    Version <- MCVersion
    Segments <- MCSegments
    Files <- MCFiles
    LinesOf <- MCLinesOf
    Binary <- MCBinary
    HasValidExt <- MCHasValidExt
    NameOf <- MCNameOf
    NoVersion = "none"
    Flaky = {}
    Failing <- MCNoFailing
    NoName = "none"
    Prefix <- MCPrefix
    NoPlatform = FALSE
    ReplacesOf <- MCReplacesOf
    LockOf <- MCLockOf
    Faults = {}
SPECIFICATION Spec
INVARIANTS
    SameAsSeparate
CHECK_DEADLOCK FALSE
