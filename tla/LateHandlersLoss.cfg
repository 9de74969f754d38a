\* Handlers may outlive the reconnect: settlements reach the wrong channel.
SPECIFICATION Spec
CONSTANTS
    MaxMessages = 3
    MaxOutages = 2
    MaxCrashes = 1
INVARIANT NoEventIsLost
