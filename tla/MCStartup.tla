------------------------------ MODULE MCStartup ------------------------------
(* Deployments for TLC: docker-compose.yml as it is, the strict mode, two      *)
(* containers that migrate, and a command that is refused.                    *)
EXTENDS Startup

CONSTANTS app, scheduler, arq

Args(w, m, u) == [wait |-> w, migrate |-> m, update |-> u]
JustWait      == Args(TRUE, FALSE, "no")

With(forApp, forScheduler) ==
    [c \in Containers |-> IF c = app THEN forApp
                          ELSE IF c = scheduler THEN forScheduler ELSE JustWait]

MCDeployments ==
    {With(Args(TRUE, TRUE, "silent"), JustWait),
     With(Args(TRUE, TRUE, "strict"), JustWait),
     With(Args(TRUE, TRUE, "silent"), Args(TRUE, TRUE, "no")),
     With(Args(FALSE, TRUE, "no"), Args(FALSE, FALSE, "no"))}
=============================================================================
