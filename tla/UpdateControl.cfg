SPECIFICATION FairSpec
CONSTANTS
    Keys = {k1, k2}
    MaxPlans = 2
    MaxJobs = 2
    MaxVersion = 3
    MaxQueue = 1
    MaxFaults = 1
CHECK_DEADLOCK FALSE
INVARIANT OneUnfinished
INVARIANT KeyHasOneJob
PROPERTY NeverDowngrades
PROPERTY QueuedIsTaken
