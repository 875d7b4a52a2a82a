CONSTANTS
    Latencies = {1, 3, 5}
    Bounds = {2, 4}
    Quantiles = {50, 90, 95, 99}
    MaxScrapes = 4
    MaxSeen = 3
    Nil = Nil
SPECIFICATION StatsSpec
CHECK_DEADLOCK FALSE
INVARIANTS
    StatsTypeOK
    LatenciesHonest
    QuantilesOrdered
    ChartComplete
