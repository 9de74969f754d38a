\* A device's readings arrive out of order.
SPECIFICATION Spec
CONSTANTS
    dev1 = dev1
    dev2 = dev2
    None = None
    Devices <- TwoDevices
    Readings <- FewReadings
    BatchSize = 2
    MaxInsert = 2
    DevicesReportInOrder = FALSE
    MaxReceived = 3
    MaxChained = 2
    MaxFailures = 0
    MaxOutages = 0
    MaxCrashes = 0
    MayShutDown = FALSE
INVARIANT ShadowIsLatest
