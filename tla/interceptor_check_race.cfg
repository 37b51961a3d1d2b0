CONSTANTS
    t1 = t1
    t2 = t2
    Thread = {t1, t2}
    Clients <- MixedClients
    Reports <- SomeReports
SPECIFICATION Spec
INVARIANTS OnlyPermittedActionsRun
