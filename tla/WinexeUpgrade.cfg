CONSTANTS
    MaxConn = 2
    MaxOut = 2
    ExitCode = "code"
    CommandLines = {{"uninstall"}}
    FirstVersion = "bad"
    Sticky = FALSE
SPECIFICATION Spec
INVARIANTS NoStaleHandle
PROPERTIES OnlyByItsVersion ReinstalledOnce ImplementsRemoteRun
CHECK_DEADLOCK FALSE
