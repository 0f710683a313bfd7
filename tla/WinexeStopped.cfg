CONSTANTS
    MaxConn = 2
    MaxOut = 1
    ExitCode = "code"
    CommandLines = {{}}
    FirstVersion = "good"
    Sticky = FALSE
SPECIFICATION Spec
PROPERTIES InstallStarts
CHECK_DEADLOCK FALSE
