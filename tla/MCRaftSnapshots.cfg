CONSTANTS
    n1 = n1
    n2 = n2
    n3 = n3
    NoNode = NoNode
    Incoming = {n1, n2, n3}
    Outgoing = {}
    Command = {"x"}
    MAX_APPEND_ENTRIES = 4
    Chunks = 2
    Ticks = {}
    Faults = {"loss", "crash"}
    Campaigns <- Successor
    Snapshotters = {n1, n2, n3}
    MaxIndex = 2
    MaxReads = 0
    MaxInFlight = 3
SPECIFICATION EstablishedSpec
CONSTRAINT FewInFlight
VIEW Live
INVARIANTS
    StateMachineSafety
    MatchedIsReplicated
    DurableStateRecoverable
CHECK_DEADLOCK FALSE
