\* A crash tears the last line; the next record continues it.
SPECIFICATION StoreSpec
CONSTANTS
    Subject = {s1}
    StatedCategory <- MCStructuredOnly
    ReportInstant = {0}
    WriteErrors = {}
    CrashTears = {"torn"}
    OpenErrors = {}
    MaxFiled = 3
    MaxFaults = 1
    MaxLives = 3
INVARIANT
    TornFinalLineTolerated
