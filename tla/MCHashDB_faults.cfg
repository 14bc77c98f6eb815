CONSTANTS
    Hash = {h1, h2, h3}
    Zero = zero
    Modes = {"merge", "add"}
    Faults = {"short_write", "create_fail", "sync_fail"}
SYMMETRY HashSymmetry
SPECIFICATION Spec
INVARIANTS
    NoInvention
CHECK_DEADLOCK FALSE
