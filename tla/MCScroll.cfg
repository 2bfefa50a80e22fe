CONSTANTS
    Lines = 2
    ScrollByte <- MCScrollByte
    AddressByte <- MCAddressByte
    ControlByte <- MCControlByte
    Mask <- MCMask
SPECIFICATION ScrollSpec
INVARIANTS
    LatchHoldsCamera
    RowsFollowCamera
