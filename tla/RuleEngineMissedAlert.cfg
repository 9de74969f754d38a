\* An outage while an alert is due.
SPECIFICATION Spec
CONSTANTS
    Undefined = Undefined
    Infinity = 100
    NoState = NoState
    dev1 = dev1
    dev2 = dev2
    Rules <- SustainedRule
    Devices <- OneDevice
    Readings <- TempReadings
    LatestTime = 2
    MaxMessages = 3
    MaxOutages = 1
    MaxCrashes = 0
    MaxRedisFailures = 0
INVARIANT ExactlyOncePerEpisode
