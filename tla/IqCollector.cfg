SPECIFICATION FairSpec
CONSTANTS
    Workers = {w1, w2}
    Rates = {1}
    MaxRequests = 2
    MaxDrops = 1
    None = None
INVARIANTS TypeOK ResponseIsOwn SocketsClosed OneTaskUnlessAbandoned TasksAccounted
PROPERTY CollectReturns
CHECK_DEADLOCK FALSE
