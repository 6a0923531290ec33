SPECIFICATION FairSpec
CONSTANTS
    Updaters = {boot, cron, api}
    Forced = {boot, cron}
    Boot = boot
    AppWorkers = {}
    BlockMinutes = 20
    Faults = {"cancel"}
    boot = boot
    cron = cron
    api = api
PROPERTY KeyIsReleased
