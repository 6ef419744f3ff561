SPECIFICATION BootedSpec
SYMMETRY Replicas
CONSTANTS
    Key = {1}
    Value = {v1}
    Null = Null
    Gone = Gone
    None = None
    Node = {n1, n2}
    Client = {c1}
    Setup = boot
    NewTable = tab
    NewIndex = ind
    Request <- InTurn
    MaxIndex = 4
    MaxInflight = 2
    MaxTxn = 2
INVARIANTS ReplicasAgree ReplicasAnswerAlike RestartsAreAccepted
CHECK_DEADLOCK FALSE
