SPECIFICATION Spec
CONSTANTS
    Scripts <- FusionScripts
    NpzFiles <- MCNpzFiles
    RadioFiles <- MCRadioFiles
    Trained <- MCTrained
    SynthSnrs <- MCSynthSnrs
    SnrMin = 0
    Models = {"m1"}
    Epochs = 2
    MaxScripts = 1
    NaN = NaN
    NoFile = NoFile
    Torn = Torn
PROPERTY NeverSacrificesWorst
CHECK_DEADLOCK FALSE
