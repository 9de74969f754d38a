\* Inserts, webhook calls and connections fail, the process crashes; handlers
\* end within the reconnect backoff.
SPECIFICATION FairSpec
CONSTANTS
    MaxMessages = 3
    MaxOutages = 2
    MaxCrashes = 1
    MaxFailures = 2
INVARIANTS TypeOK NoAlertIsLost RowsRepeatOnlyAfterLoss
PROPERTY EveryAlertIsStored
