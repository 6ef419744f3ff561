CONSTANTS
    x = x
    y = y
    noop = noop
    Command = {x, y}
    Noop = noop
    PendingReadLimit = 2
    MaxIndex = 4
SPECIFICATION SettingsSpec
INVARIANTS  WriteBeforeSend DatabaseFollowsLog
           AcknowledgedIsApplied
PROPERTY AlwaysListensAgain
CHECK_DEADLOCK FALSE
