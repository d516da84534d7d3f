\* Two handlers race for one window and one journal, with crashes inside and outside a write.
SPECIFICATION FairChannelSpec
CONSTANTS
    Worker = {w1, w2}
    Identifier = {s1}
    Subject = {s1}
    Limit = 1
    Window = 1
    MaxClock = 2
    StatedCategory <- MCStructuredOnly
    ReportInstant = {0, 1, 2}
    WriteErrors = {}
    CrashTears = {"torn"}
    OpenErrors = {"fails"}
    MaxFiled = 3
    MaxFaults = 1
    MaxLives = 1
INVARIANTS
    ChannelTypeOK
    FloodBound
    FiledWasAdmitted
    StampedAfterAdmission
PROPERTIES
    RefusalJustified
    ReportsAnswered
