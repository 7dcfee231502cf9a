SPECIFICATION Spec
CONSTANTS
    Keys = {k1}
    MaxPlans = 1
    MaxJobs = 1
    MaxVersion = 2
    MaxQueue = 1
    MaxFaults = 2
INVARIANT AcceptedJobKept
CHECK_DEADLOCK FALSE
