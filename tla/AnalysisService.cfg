SPECIFICATION Spec
CONSTANTS
    Workers = {w1, w2}
    Freqs = {150, 250}
    BucketWidth = 100
    MaxQueueDepth = 2
    Cooldown = 2
    MaxTime = 3
    MaxContainers = 2
    None = None
SYMMETRY WorkerSymmetry
INVARIANTS TypeOK OnePlaceEach CooldownSpacing NoOrphanContainer
