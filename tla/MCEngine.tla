------------------------------ MODULE MCEngine ------------------------------
(* The engine, from nothing and from the state in which a first request of *)
(* another client has created a table.                                     *)
EXTENDS Engine

CONSTANT Setup      \* The client whose first request creates the table.

Booted ==
    LET t == StageTable(EmptyEngine, Transaction(EmptyEngine), CHOOSE name \in TableName : TRUE)
    IN  Apply(EmptyEngine, Attempt(t, Setup, 1), 1, CHOOSE request \in Request : TRUE)

BootedInit ==
    /\ engine = Booted
    /\ txn = [s \in Session |-> None]

(* From nothing two indexes are explored, with the table MaxIndex; the     *)
(* last one is reached only by requests of one kind in their client's      *)
(* order, and nothing more is staged there: nothing could commit it.       *)
Explored ==
    LET booted == Setup \in DOMAIN engine'.clients
        last == IF booted THEN MaxIndex ELSE 2
        inOrder == IF booted THEN last - 1 ELSE last
    IN  /\ engine'.applied <= last
        /\ engine'.applied = last => \E client \in Client \intersect DOMAIN engine'.clients :
             /\ engine'.clients[client].seq = inOrder
             /\ engine'.clients[client].request = CHOOSE request \in Request : TRUE
        /\ engine.applied = last => \A s \in Session :
             txn'[s] \in {txn[s], None, Transaction(engine)}

EngineSpec == (Init \/ BootedInit) /\ [][Next /\ Explored]_vars

Sessions == Permutations(Session)
=============================================================================
