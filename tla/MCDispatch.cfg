CONSTANTS
    BankSize <- MCBankSize
    VectorCount = 1
    OpCodes <- MCOpCodes
    Targets <- MCTargets
    Reach <- MCReach
    Required <- MCRequired
    ResetVector = 1
    RamCode <- MCRamCode
    MinRepeat = 1
    MaxDepth = 1
SPECIFICATION DispatchSpec
CHECK_DEADLOCK FALSE
INVARIANTS
    BlocksAreWhole
    PcNamesInstruction
    NeverInterpreted
PROPERTY ImplementsCpu
