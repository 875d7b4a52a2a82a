CONSTANTS
    Readers = {r1}
    Counters = {prompt, gen}
    HistoryLen = 2
    RateWindow = 1
    None = None
    MaxTime = 2
    MaxEpoch = 2
    MaxCount = 1
SYMMETRY CounterSymmetry
SPECIFICATION Spec
INVARIANTS
    TypeOK
    ResetsReal
    RatesNonNegative
    RateOneLife
    OnlyNewestBare
    LifetimeOnlyAfterGap
    ViewCoherent
