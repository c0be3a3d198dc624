SPECIFICATION Spec
CONSTANTS
    TargetsOf <- MCTargetsOf
    LabelOrder <- MCLabelOrder
    MaxPerClass = 2
    NWindows = 3
    PerTarget = 2
    Lengths <- MCLengths
    None = None
INVARIANTS TasksAccounted WindowsSound CaptureSound
PROPERTY Finishes
CHECK_DEADLOCK FALSE
