\* Two passes over two files that are still written to; one file is sound, for the
\* other every call may fail; the command may be interrupted and killed.
CONSTANTS
    a = a
    b = b
    File = {a, b}
    Lines <- TwoFiles
    Failing <- SecondFails
    NoFile = NoFile
    Kills = TRUE
    Interrupts = TRUE
    MaxPasses = 2
SPECIFICATION FairSpec
INVARIANT TypeOK
INVARIANT MarkTellsLoss
INVARIANT CopiesExplained
INVARIANT SoundFilesFinished
INVARIANT ImportedWhole
PROPERTY EveryFileReached
CHECK_DEADLOCK FALSE
