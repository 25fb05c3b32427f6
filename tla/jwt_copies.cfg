SPECIFICATION Spec
CONSTANTS
    k1 = k1
    k2 = k2
    k3 = k3
    w1 = w1
    w2 = w2
    s1 = s1
    v1 = v1
    Kids = {k1, k2, k3}
    Imported = k1
    Workers = {w1}
    Signers = {s1}
    Verifiers = {v1}
    Periods = {3}
    Week = 2
    Cache = 3
    Lives = {2}
    MaxLife = 2
    Refresh = 3
    RefetchGap = 1
    PassLag = 1
    SignLag = 0
    FetchLag = 1
    Horizon = 8
    MaxTokens = 1
INVARIANTS
    StaleCopiesFade
    PromotedKeysAreKnown
    RefusalsFade
SYMMETRY Interchangeable
