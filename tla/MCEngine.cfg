CONSTANTS
    Key = {k1}
    Value = {a}
    Null = Null
    Gone = Gone
    None = None
    Setup = Setup
    Session = {s1, s2}
    Client = {c1}
    Request = {r1, r2}
    TableName = {"t"}
    IndexName = {"x"}
    MaxIndex = 4
    MaxSequence = 3
SPECIFICATION EngineSpec
SYMMETRY Sessions
INVARIANTS IndexAgreesWithTable SnapshotIsRestorable
PROPERTIES ImplementsSnapshotIsolation 
