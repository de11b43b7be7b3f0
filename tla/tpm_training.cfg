CONSTANTS
    K = 3
    N = 2
    L = 1

SPECIFICATION Spec

INVARIANTS
    WeightsBounded
    OutputIsProduct
    UpdateIsStable
    WireRoundTrip
    KeyIdentifiesWeights
    GenKeyDropsTwo
