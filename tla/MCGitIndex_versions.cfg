CONSTANTS
    Version <- MCVersion
    Segments <- MCSegments
    Files <- MCFiles
    LinesOf <- MCLinesOf
    Binary <- MCBinary
    HasValidExt <- MCHasValidExt
    NameOf <- MCNameOf
    NoVersion = "none"
    Flaky <- MCFlaky
    Failing <- MCFailing
    NoName = "none"
    Prefix <- MCPrefix
    NoPlatform = FALSE
    ReplacesOf <- MCReplacesOf
    LockOf <- MCLockOf
    Faults = {"kill"}
SPECIFICATION Spec
INVARIANTS
    TypeOK
    LinesComplete
    NothingForgotten
PROPERTY
    ReplacedNotIndexed
CHECK_DEADLOCK FALSE
