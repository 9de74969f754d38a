\* Every argument in a small range.
SPECIFICATION Spec
CONSTANTS
    Undefined = Undefined
    Absent = Absent
    Empty = Empty
    Rejected = Rejected
    NoText = NoText
    OFFLINE_AFTER_MS = 30000
    SPIKE_AFTER_MS = 20000
    NotJson = NotJson
    Infinity = 100
    dev1 = dev1
    dev2 = dev2
    OFFLINE_THRESHOLD_MS = 60000
    MAX_SERIES_POINTS = 2
    Hour = 6
    Radius = 2
    ViewPolicy <- ViewPolicies
    TELEMETRY_METRICS <- SomeMetrics
    Now = 8
    NoTime = NoTime
    NotFound = NotFound
    Fallback = Fallback
INVARIANTS AlertExplainsItself StatusAgreesWithSweep SeriesHaveNoHoles
           ListsLeaveNothingOut AnswersAgree OwnReadingsArrive
