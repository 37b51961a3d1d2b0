CONSTANTS
    t1 = t1
    t2 = t2
    Thread = {t1, t2}
    Clients <- OrderlyClients
    Reports <- SomeReports
SPECIFICATION Spec
INVARIANTS OnlyPermittedActionsRun VerdictsAreAudited CheckLeavesNoTrace
