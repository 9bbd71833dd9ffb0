SPECIFICATION FairPoolSpec
CONSTANTS
    w1 = w1
    w2 = w2
    t1 = t1
    t2 = t2
    k1 = k1
    Main = Main
    Garbled = Garbled
    TimedOut = TimedOut
    Nobody = Nobody
    Worker <- TwoWorkers
    Timer <- TwoTimers
    Key <- OneKey
    MaxFaults = 1
    MaxKills = 1
INVARIANTS PoolTypeOK OneGuest WarmIsTimed StopsClean
PROPERTIES NeverYanked LockReleased IdleIsReaped
