SPECIFICATION Spec
CONSTANTS
    w1 = w1
    w2 = w2
    t1 = t1
    t2 = t2
    k1 = k1
    k2 = k2
    Main = Main
    Garbled = Garbled
    TimedOut = TimedOut
    Nobody = Nobody
    Worker <- TwoWorkers
    Timer <- TwoTimers
    Key <- TwoKeys
    MaxFaults = 0
    MaxKills = 1
    MaxEntries = 1
SYMMETRY Alike
INVARIANTS CacheIsRight OwnOutput
PROPERTIES AnswersAreRight
