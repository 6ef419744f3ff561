CONSTANTS
    n1 = n1
    n2 = n2
    n3 = n3
    NoNode = NoNode
    Incoming = {n1, n2, n3}
    Outgoing = {}
    Command = {"x"}
    MAX_APPEND_ENTRIES = 1
    Chunks = 1
    Ticks = {"Heartbeat"}
    Faults = {"loss"}
    Campaigns <- Successor
    Snapshotters = {}
    MaxIndex = 2
    MaxReads = 0
    MaxInFlight = 3
SPECIFICATION EstablishedSpec
CONSTRAINT FewInFlight
VIEW Live
INVARIANTS
    StateMachineSafety
CHECK_DEADLOCK FALSE
