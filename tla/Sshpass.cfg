CONSTANTS
    BufSize = 3
    Statuses = {0, 3, 5, 6, 255}
    MaxAsk = 3
    MaxChatter = 2
SPECIFICATION FairSpec
INVARIANTS
    PasswordForPrompt
    CodeIsTrue
PROPERTIES
    
    
    NeverReadsError
CHECK_DEADLOCK FALSE
