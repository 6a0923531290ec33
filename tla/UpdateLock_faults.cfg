SPECIFICATION Spec
CONSTANTS
    Updaters = {boot, cron, api}
    Forced = {boot, cron}
    Boot = boot
    AppWorkers = {w1}
    BlockMinutes = 20
    Faults = {"redis", "edu", "db", "cancel", "worker", "restart"}
    boot = boot
    cron = cron
    api = api
    w1 = w1
INVARIANT TypeOK
INVARIANT ExclusiveUntilMishap
INVARIANT HeldOrCut
INVARIANT ReplyHonest
