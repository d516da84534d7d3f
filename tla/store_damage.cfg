\* Failing writes, torn lines and failing opens: the store numbers, replays and glues on.
SPECIFICATION FairStoreSpec
CONSTANTS
    Subject = {s1}
    StatedCategory <- MCStructuredOnly
    ReportInstant = {0}
    WriteErrors = {"nothing", "torn", "unterminated"}
    CrashTears = {"torn", "unterminated", "cut"}
    OpenErrors = {"fails", "unseen"}
    MaxFiled = 5
    MaxFaults = 2
    MaxLives = 3
INVARIANTS
    FreshReceiptsCited
    ReplayNeverInvents
    DamageBounded
PROPERTIES
    FinishedLinesStay
    OpeningEnds
