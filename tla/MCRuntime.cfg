CONSTANTS
    a = a
    b = b
    Addr <- MCAddr
    ResetAddr = "reset"
    NmiAddr = "nmi"
    Programs <- MCPrograms
    InstrCycles <- MCInstrCycles
    DmaCycles = 1
    MaxCalls = 3
    MaxStack = 2
    FrameDots = 7
    FirstDot = 6
    VblankDot = 4
    ClearDot = 5
SPECIFICATION Spec
SYMMETRY MCCode
CHECK_DEADLOCK FALSE
INVARIANTS
    ResumeAgrees
    CallsMatchStack
    NoLostNmi
    PromptNmi
