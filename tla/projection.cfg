SPECIFICATION FairSpec
CONSTANTS
    Users = {u1, u2}
    Capacity = 1
    MaxEvents = 3
    MaxEmissions = 2
    MaxTime = 3
    MaxFailures = 1
    MaxStops = 1
INVARIANTS LossesHaveReasons SummaryAgrees WarningsAgree
PROPERTIES EventuallyProjected
CHECK_DEADLOCK FALSE
