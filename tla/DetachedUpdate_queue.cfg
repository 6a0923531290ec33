SPECIFICATION FairDetachedSpec
CONSTANTS
    Updaters = {boot, s1, s2}
    Forced = {boot}
    Boot = boot
    AppWorkers = {w1}
    BlockMinutes = 20
    Faults = {"cancel", "worker"}
    Clients = {c1}
    Slots = {s1, s2}
    QueueFails = TRUE
    MaxTries = 2
    MaxJobs = 2
    boot = boot
    s1 = s1
    s2 = s2
    w1 = w1
    c1 = c1
INVARIANT DetachedTypeOK
INVARIANT JobsAreKept
INVARIANT AnswerHonest
PROPERTY NotAppliedTwice
PROPERTY EveryJobEnds
CHECK_DEADLOCK FALSE
