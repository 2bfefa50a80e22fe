CONSTANTS
    BankSize <- MCBankSize
    VectorCount = 2
    OpCodes <- MCOpCodes
    Targets <- MCTargets
    Reach <- MCReach
SPECIFICATION Spec
CHECK_DEADLOCK FALSE
INVARIANTS
    TypeOK
    LabelsResolve
    CodeClosed
    TablesExhausted
PROPERTIES
    TilesRom
    Terminates
