SPECIFICATION Spec
CONSTANTS
    Runs = {r1, r2}
    MaxEvents = 2
    Times <- MCTimes
SYMMETRY Symmetry
INVARIANTS
    ReceiptMeansStored
    OwnLinesApart
    OldestFirst
CHECK_DEADLOCK FALSE
