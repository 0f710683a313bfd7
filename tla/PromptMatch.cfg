CONSTANTS
    Chars <- Letters
    Ref <- Default
    MaxText = 7
SPECIFICATION Spec
INVARIANTS
    NoFalsePrompt
    NoMissedPrompt
    CutsDoNotMatter
CHECK_DEADLOCK FALSE
