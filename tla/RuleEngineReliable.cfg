\* Nothing fails: the engine implements the abstract episodes.
SPECIFICATION FairSpec
CONSTANTS
    Undefined = Undefined
    Infinity = 100
    NoState = NoState
    dev1 = dev1
    dev2 = dev2
    Rules <- BothRules
    Devices <- TwoDevices
    Readings <- FleetReadings
    LatestTime = 1
    MaxMessages = 3
    MaxOutages = 0
    MaxCrashes = 0
    MaxRedisFailures = 0
INVARIANT TypeOK
PROPERTY ImplementsEpisodes
