CONSTANTS
    CommandLines <- MCCommandLines
    Lines <- MCLines
    Sizes <- MCSizes
    ExitCodes <- MCExitCodes
    PipeCap = 1
SPECIFICATION Spec
CHECK_DEADLOCK FALSE
INVARIANTS
    FilesAsLocal
    OutputAsLocal
PROPERTY
    ClientEnds
