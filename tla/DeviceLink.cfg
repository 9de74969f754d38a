\* Both connections are lost and a subscription fails.
SPECIFICATION FairSpec
CONSTANTS
    MaxReadings = 4
    MaxConnects = 2
    MaxOutages = 1
    MaxRefusals = 1
INVARIANTS RepeatsOnlyByResending OneTimerUntilReconnect
PROPERTY EveryReadingArrives
