CONSTANTS
    Base <- MCBase
    Index <- MCIndex
    Half = 2
    MaxDigits = 2
    Address <- MCAddress
    Mirroring <- MCMirroring
    Value <- MCValue
    Sprites = 2
    OamByte <- MCValue
SPECIFICATION MCSpec
INVARIANTS
    BusTypeOK
    MapsAgree
    AluTypeOK
    WideArithmetic
    MemoryTypeOK
    OamCoherent
PROPERTIES
    FlagsOrder
    ImplementsDataPort
