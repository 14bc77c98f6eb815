CONSTANTS
    Process = {p1, p2}
    Nobody = nobody
    Entry <- MCEntry
    Nothing = "nothing"
    MaxSessions = 3
    Zero = "zero"
    Commands = {"index"}
    Input = {}
    Fragment <- MCFragment
    MaxFailed = 0
    Faults = {}
SYMMETRY ProcessSymmetry
SPECIFICATION Spec
INVARIANTS
    CrossProcessSafe
CHECK_DEADLOCK FALSE
