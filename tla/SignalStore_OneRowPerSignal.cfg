SPECIFICATION Spec
CONSTANTS
    Workers = {w1, w2}
    Freqs = {0}
    Bandwidths = {0}
    Modulations = {m1}
    NoMod = NoMod
    MaxResults = 2
    MaxPlanted = 1
    None = None
SYMMETRY StoreSymmetry
INVARIANT OneRowPerSignal
CHECK_DEADLOCK FALSE
