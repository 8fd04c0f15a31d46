CONSTANTS
    Width = 4
    Files <- MCFiles
SPECIFICATION LexSpec
INVARIANTS
    LexerTypeOK
    LexesBack
PROPERTY
    LexingEnds
CHECK_DEADLOCK FALSE
