SPECIFICATION CacheSpec
CONSTANTS
    Worker = {w1, w2}
    Key = {k1, k2, k3}
    Garbled = Garbled
    TimedOut = TimedOut
    Nobody = Nobody
    MaxEntries = 2
INVARIANTS HoldsMostRecent
