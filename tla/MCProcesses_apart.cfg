CONSTANTS
    Process = {p1, p2}
    Nobody = nobody
    Entry <- MCEntry
    Nothing = "nothing"
    MaxSessions = 3
    Zero = "zero"
    Commands = {"index", "local", "merge"}
    Input = {"a1"}
    Fragment <- MCFragment
    MaxFailed = 1
    Faults = {"kill", "short_write", "open_error"}
SYMMETRY ProcessSymmetry
SPECIFICATION Spec
INVARIANTS
    TypeOK
    OneLinePerEntry
    BoundedDamage
    ApartIsSafe
CHECK_DEADLOCK FALSE
