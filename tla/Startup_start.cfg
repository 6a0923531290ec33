SPECIFICATION FairSpec
CONSTANTS
    Containers = {app, scheduler}
    Gunicorn = {app}
    app = app
    scheduler = scheduler
    arq = arq
    Deployments <- MCDeployments
    Timeout = 2
    Pause = 1
    MaxLaunches = 4
    MaxStops = 2
INVARIANT TypeOK
INVARIANT ServesOnlyWhenReady
PROPERTY FailsForAReason
PROPERTY EveryStartEnds
CHECK_DEADLOCK FALSE
