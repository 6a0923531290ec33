SPECIFICATION FairSpec
CONSTANTS
    Updaters = {boot, cron, api1}
    Forced = {boot, cron}
    Boot = boot
    AppWorkers = {}
    BlockMinutes = 20
    Faults = {"edu", "db"}
    boot = boot
    cron = cron
    api1 = api1
INVARIANT RaceIsTheOnlyHole
PROPERTY OnlyTheAdmittedRelease
PROPERTY KeyIsReleased
PROPERTY EveryCallEnds
