CONSTANTS
    MaxLines = 4
    MaxRotations = 2
    None = None
    MaxRows = 3
    PrimeTail = 1
SPECIFICATION Spec
INVARIANTS
    TypeOK
    CountedOnceInOrder
    CountedAtMostTwice
    TailContiguous
    RotationsReal
PROPERTY Attributed
