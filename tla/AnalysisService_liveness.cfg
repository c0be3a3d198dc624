SPECIFICATION FairSpec
CONSTANTS
    Workers = {w1, w2}
    Freqs = {150}
    BucketWidth = 100
    MaxQueueDepth = 2
    Cooldown = 1
    MaxTime = 2
    MaxContainers = 2
    None = None
PROPERTIES KeepsPromise StopReturns QueuedIsAnalysed
