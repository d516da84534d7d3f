\* Crashes, restarts and failing opens, every write complete.
SPECIFICATION StoreSpec
CONSTANTS
    Subject = {s1}
    StatedCategory <- MCCategories
    ReportInstant = {0}
    WriteErrors = {}
    CrashTears = {}
    OpenErrors = {"fails"}
    MaxFiled = 4
    MaxFaults = 0
    MaxLives = 3
INVARIANTS
    DurableWithoutFaults
PROPERTY
    ImplementsLedger
