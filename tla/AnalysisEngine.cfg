SPECIFICATION Spec
CONSTANTS
    Features <- MCFeatures
    Labels <- MCLabels
    Confidences = {55, 80}
    FallbackConfidence = 60
    FallbackOnUnknown = TRUE
    LowConfidence = 50
    LowOnUnknown = TRUE
    SnrModelSplit = 8
INVARIANTS TypeOK Coherent RobustRulesStand UnknownIsAsked FitsListed
