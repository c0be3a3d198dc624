SPECIFICATION Spec
CONSTANTS
    Workers = {w1, w2}
    Freqs = {0, 6}
    Bandwidths = {0, 4, 7}
    Modulations = {m1, m2}
    NoMod = NoMod
    MaxResults = 2
    MaxPlanted = 1
    None = None
SYMMETRY StoreSymmetry
INVARIANTS TypeOK HitsAreCredits InsertsOnlyRaced PromotesOnlyRaced
CHECK_DEADLOCK FALSE
