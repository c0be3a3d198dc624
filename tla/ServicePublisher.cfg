SPECIFICATION Spec
CONSTANTS
    Workers = {w1, w2}
    Buckets = {b1}
    MaxHandlers = 2
    MaxResults = 2
    MaxCommands = 2
    MaxErrors = 1
    None = None
SYMMETRY WorkerSymmetry
INVARIANTS TypeOK NoResultDroppedSilently ResultsAccounted DemodInOrder
PROPERTY NothingAddedToCleared
CHECK_DEADLOCK FALSE
