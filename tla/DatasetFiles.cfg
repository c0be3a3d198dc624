SPECIFICATION DataSpec
CONSTANTS
    ClassOrder <- MCClassOrder
    Snrs <- MCSnrs
    TrainPerSnr = 2
    HoldPerSnr = 1
    Captured <- MCCaptured
    MaxRows = 10
    MaxTorn = 2
INVARIANTS FilesSound OriginsSound
PROPERTY SpliceLinesUp
CHECK_DEADLOCK FALSE
