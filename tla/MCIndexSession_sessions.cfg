CONSTANTS
    Slot = {s1, s2}
    Pkg <- MCPkg
    GitURL <- MCGitURL
    Version <- MCVersion
    NoPin = 0
    Upstream <- MCUpstream
    LockDeps <- MCLockDeps
    Replaces <- MCReplaces
    Args <- MCArgs
    Lock <- MCLock
    Unreadable <- MCUnreadable
    Commands = {"packagist", "composer", "update", "giturl"}
    Faults = {"kill", "signal", "manifest_write"}
SYMMETRY SlotSymmetry
SPECIFICATION Spec
INVARIANTS
    TypeOK
    MarkedIsComputed
    OnlyInFlightIsLost
    ClosedAfterWorkers
    SessionIInv
