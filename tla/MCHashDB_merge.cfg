CONSTANTS
    Hash = {h1, h2, h3, h4}
    Zero = zero
    Modes = {"merge"}
    Faults = {"power"}
SYMMETRY HashSymmetry
SPECIFICATION Spec
INVARIANTS
    TypeOK
    Durability
    NoInvention
    FileMatchesMemory
    IInv
PROPERTY
    AbsSpec
