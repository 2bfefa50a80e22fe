CONSTANTS
    BankSize <- MCBankSize
    VectorCount = 1
    OpCodes <- MCOpCodes
    Targets <- MCTargets
    Reach <- MCReach
    Radix = 16
    OrgMinRepeatAmt = 1
    Threshold = 2
    MaxDataListLen = 2
    Printable = {7}
    OpByte <- MCOpByte
    DataBytes <- MCDataBytes
    Forms <- MCForms
    Headers <- MCHeaders
    Descriptions <- MCDescriptions
SPECIFICATION MCSpec
CHECK_DEADLOCK FALSE
INVARIANTS
    ComesBack
    LossIsNoticed
    CartridgeKept
    ReadOnceReadAgain
