SPECIFICATION Spec
CONSTANTS
    None = None
    Recorders = {e1, e2, e3}
    MaxCrashes = 2
    MaxErrors = 1
    MaxDrops = 1
SYMMETRY MCSymmetry
INVARIANTS
    ChainUnbroken
    NumbersIncrease
    NumbersDistinct
    AckedWritten
PROPERTIES
    ImplementsTrail
