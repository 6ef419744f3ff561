SPECIFICATION SettingsSpec
SYMMETRY Workers
CONSTANTS
    Key = {1, 2}
    Value = {v1}
    Null = Null
    Gone = Gone
    None = None
    NewTable = tab
    NewIndex = ind
    Setup = boot
    c1 = c1
    c2 = c2
    w1 = w1
    w2 = w2
INVARIANTS
    AnswersSurvive RequestsMatchEngine CommittedIdsStayUsed
    WritesAreAcknowledged 
CHECK_DEADLOCK FALSE
