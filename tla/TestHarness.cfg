SPECIFICATION Spec
CONSTANTS
    Plans <- MCPlans
    FeaturesOf <- MCFeaturesOf
    Labels <- MCLabels
    SnrMin <- MCSnrMin
    MaxPerClass = 2
    FftSize = 4096
    NaN = NaN
INVARIANTS SamplesSound ScoresSound
CHECK_DEADLOCK FALSE
