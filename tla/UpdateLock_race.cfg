SPECIFICATION Spec
CONSTANTS
    Updaters = {boot, cron, api}
    Forced = {boot, cron}
    Boot = boot
    AppWorkers = {}
    BlockMinutes = 20
    Faults = {}
    boot = boot
    cron = cron
    api = api
INVARIANT AtMostOneUpdate
