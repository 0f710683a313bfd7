CONSTANTS
    MaxConn = 2
    MaxOut = 1
    ExitCode = "code"
    CommandLines = {{}, {"uninstall", "reinstall"}}
    FirstVersion = "good"
    Sticky = TRUE
SPECIFICATION FairSpec
INVARIANTS TypeOK ResultIsEarned OutputComplete
PROPERTIES
    ClientEnds
    OrphanStops
    HandlersEnd
    ReinstallsOnlyOther
    ImplementsRemoteRun
CHECK_DEADLOCK FALSE
