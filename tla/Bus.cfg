CONSTANTS
    W = 2
    AddressBytes = 1
    PageSize = 2
    Cells = 2
    FrameBytes = 2
    BlockBytes = 2
    CrcBytes = 1
    BlockCount = 2
    Framed <- MCFramed
    Place <- MCPlace
    Ops <- MCOps
SPECIFICATION BusSpec
INVARIANTS AnswersInPlace HoldsWhatWasWritten
