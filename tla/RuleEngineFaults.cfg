\* Connections, the process and Redis fail; handlers end within the backoff.
SPECIFICATION Spec
CONSTANTS
    Undefined = Undefined
    Infinity = 100
    NoState = NoState
    dev1 = dev1
    dev2 = dev2
    Rules <- BothRules
    Devices <- OneDevice
    Readings <- OneDeviceReadings
    LatestTime = 1
    MaxMessages = 3
    MaxOutages = 1
    MaxCrashes = 1
    MaxRedisFailures = 1
INVARIANTS TransientSpikesNeverPage RepeatsOnlyAfterCrash MissesOnlyInOutage
