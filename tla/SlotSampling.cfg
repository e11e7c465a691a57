CONSTANTS
    NoPeer = NoPeer
    Scores = {1, 3}
    MaxSlots = 10
    MaxDead = 3
SPECIFICATION Spec
INVARIANTS
    TypeOK
    SelectionMatchesScan
