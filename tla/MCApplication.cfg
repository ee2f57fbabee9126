SPECIFICATION FairSpec
CONSTANTS
    Loaders = {l1, l2}
    Observers = {o1}
    Graphs <- MCGraphs
    Known = {"Auth", "Roles"}
    Root = Root
    Modes = {"graceful", "plain", "worker"}
    StartHooks = 2
    StopHooks = 2
    Configs <- MCConfigs
    Requests = {r1}
INVARIANTS PrivateStaysPrivate EachModuleOnce EveryControllerHeardOnce HooksComplete HandlerBehindGuards
PROPERTIES HooksAfterDrain SignalEndsMain
CHECK_DEADLOCK FALSE
