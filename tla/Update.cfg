SPECIFICATION FairSpec
CONSTANTS
    Tabs <- ThreeTabs
    Controllers <- FourControllers
    Openings <- PairOrOne
    Checking <- TheOne
    AcceptedTtl = 2
    DismissTtl = 1
    AutoAfter <- AfterOne
    StaleAfter <- Never
    MaxDue = 1
    MaxClock = 2
    MaxDeploys = 3
    MaxClicks = 1
INVARIANTS OneReload AttemptsAreBounded
PROPERTIES NeverSilently UpdateSettles
