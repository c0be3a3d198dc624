SPECIFICATION Spec
CONSTANTS
    Scripts <- MCScripts
    NpzFiles <- MCNpzFiles
    RadioFiles <- MCRadioFiles
    Trained <- MCTrained
    SynthSnrs <- MCSynthSnrs
    SnrMin = 0
    Models = {"m1", "m2"}
    Epochs = 2
    MaxScripts = 2
    NaN = NaN
    NoFile = NoFile
    Torn = Torn
INVARIANTS BestIsSaved RowsSound FilesAgree
PROPERTY NeverRegresses
CHECK_DEADLOCK FALSE
