\* Outages and crashes happen, and handlers may outlive a reconnect.
SPECIFICATION FairSpec
CONSTANTS
    MaxMessages = 3
    MaxOutages = 2
    MaxCrashes = 1
INVARIANTS TypeOK OneMessageAtATime NoMessageVanishes NoOvertaking SlotIsOwned
PROPERTY EveryMessageIsSettled
