CONSTANTS
    MaxConn = 2
    MaxOut = 1
    ExitCode = "code"
    CommandLines = {{}}
    FirstVersion = "good"
    Sticky = FALSE
SPECIFICATION FairSpec
PROPERTIES AbortStopsCommand
CHECK_DEADLOCK FALSE
