CONSTANTS
    a = a
    b = b
    Command = {a, b}
    Footprint <- TwoPages
    Absent = Absent
    Torn = Torn
SPECIFICATION SettingsSpec
INVARIANT WalBeforeData
PROPERTIES ReportedStateIsOnDisk ImplementsDurableState 
CHECK_DEADLOCK FALSE
