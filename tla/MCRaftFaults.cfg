CONSTANTS
    n1 = n1
    n2 = n2
    n3 = n3
    NoNode = NoNode
    Incoming = {n1, n2, n3}
    Outgoing = {}
    Command = {"x"}
    MAX_APPEND_ENTRIES = 4
    Chunks = 1
    Ticks = {}
    Faults = {"loss", "duplicate", "crash", "crash after term", "crash after log"}
    Campaigns <- Everybody
    Snapshotters = {}
    MaxIndex = 2
    MaxReads = 0
    MaxInFlight = 3
SPECIFICATION FoundingSpec
CONSTRAINT FewInFlight
VIEW Live
INVARIANTS
    TypeOK
    ElectionSafety
CHECK_DEADLOCK FALSE
