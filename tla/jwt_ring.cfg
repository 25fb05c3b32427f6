SPECIFICATION Spec
CONSTANTS
    k1 = k1
    k2 = k2
    k3 = k3
    w1 = w1
    w2 = w2
    s1 = s1
    v1 = v1
    Kids = {k1, k2, k3}
    Imported = k1
    Workers = {w1, w2}
    Signers = {s1}
    Verifiers = {}
    Periods = {2, 4}
    Week = 2
    Cache = 2
    Lives = {1, 3}
    MaxLife = 3
    Refresh = 2
    RefetchGap = 1
    PassLag = 1
    SignLag = 1
    FetchLag = 1
    Horizon = 11
    MaxTokens = 1
INVARIANTS
    TypeOK
    RingConsistent
    KeysOutliveTokens
SYMMETRY Interchangeable
