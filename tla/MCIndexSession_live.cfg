CONSTANTS
    Slot = {s1, s2}
    Pkg <- MCPkg
    GitURL <- MCGitURL
    Version <- MCVersion
    NoPin = 0
    Upstream <- MCUpstream
    LockDeps <- MCLockDeps
    Replaces <- MCReplaces
    Args <- MCArgs
    Lock <- MCLock
    Unreadable = {}
    Commands = {"packagist", "composer", "giturl"}
    Faults = {"signal", "manifest_write"}
SPECIFICATION FairSpec
PROPERTIES
    SessionEnds
    DatabaseGrows
