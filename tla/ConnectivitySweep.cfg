\* Sweeps may overrun; queries, commands, the connection and the process fail.
SPECIFICATION Spec
CONSTANTS
    dev1 = dev1
    Devices <- OneDevice
    Stamps <- DeviceTimes
    Silence <- OfflineRules
    Interval = 1
    MaxTime = 4
    MaxReadings = 3
    MaxSweeps = 2
    MaxFaults = 1
INVARIANTS TypeOK  SilenceIsReported
