\* Two consumers; connections close in whatever await they are used.
SPECIFICATION FairSpec
CONSTANTS
    Consumers = 2
    MaxOutages = 4
INVARIANTS TypeOK StrandedOnlyByRace OneReconnectChain SubscribedOnce
PROPERTIES Recovers NoConnectAfterShutdown
