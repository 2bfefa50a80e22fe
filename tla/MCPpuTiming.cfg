CONSTANTS
    VblankLine = 3
    LastLine = 5
    LastDot = 6
    RowDot = 4
    PhantomLines <- MCPhantomLines
SPECIFICATION FairSpec
INVARIANTS
    TypeOK
    VblankWindow
    SpriteFlagsWindow
    VblankSeenOnce
PROPERTIES
    ImplementsFrameClock
    VblankRecurs
