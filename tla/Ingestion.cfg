\* Transactions, pipelines and connections fail, the process crashes or is stopped.
SPECIFICATION FairSpec
CONSTANTS
    dev1 = dev1
    dev2 = dev2
    None = None
    Devices <- TwoDevices
    Readings <- FewReadings
    BatchSize = 2
    MaxInsert = 2
    DevicesReportInOrder = TRUE
    MaxReceived = 3
    MaxChained = 2
    MaxFailures = 1
    MaxOutages = 1
    MaxCrashes = 1
    MayShutDown = TRUE
INVARIANTS TypeOK EachReadingOnce EventsFollowRows ShadowIsLatest ShutdownFlushes
PROPERTIES DevicesNeverGoBack ReadingsAreFlushed
