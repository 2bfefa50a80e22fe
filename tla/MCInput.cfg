CONSTANTS
    Pad <- MCPad
    ButtonCount = 3
    State <- MCState
    Off = 64
    Exhausted = 1
    StoreByte <- MCStoreByte
    padA = padA
    padB = padB
    MovieButton <- MCMovieButton
    KeyButton <- MCKeyButton
    MovieState <- MCState
    MovieOff = 64
    MovieSet <- MCMovies
    NoMovie = NoMovie
    InstrCycles <- MCInstrCycles
    DmaCycles = 3
    MaxCycle = 9
SPECIFICATION MCSpec
CHECK_DEADLOCK FALSE
INVARIANTS
    TypeOK
    StrobeCoherent
    ReplayFollowsClock
    ReplayIsPrompt
PROPERTIES
    ImplementsShiftRegister
    MovieEndsProgram
