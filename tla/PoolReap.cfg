SPECIFICATION PromptSpec
CONSTANTS
    w1 = w1
    w2 = w2
    t1 = t1
    t2 = t2
    k1 = k1
    Main = Main
    Garbled = Garbled
    TimedOut = TimedOut
    Nobody = Nobody
    Worker <- TwoWorkers
    Timer <- TwoTimers
    Key <- OneKey
    MaxFaults = 0
    MaxKills = 0
PROPERTIES ReapsOnlyIdle
