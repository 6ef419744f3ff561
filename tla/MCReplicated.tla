---------------------------- MODULE MCReplicated ----------------------------
(* Instances of the replicated database, after a first command of another  *)
(* client has created the table.                                           *)
EXTENDS ReplicatedDatabase

CONSTANT Setup      \* That client.

CreateTable == [op |-> "table", keys |-> {}, row |-> Null, fails |-> {}]

Booted ==
    LET run == ExecuteBound(EmptyEngine, Transaction(EmptyEngine), CreateTable)
    IN  Candidate(EmptyDatabase, Attempt(run.txn, Setup, 1), 1, CreateTable, run.rows)

(* Queries only on a node that has one entry left to apply. *)
Explored ==
    \A n \in Node : db'[n].next > db[n].next /\ db'[n].engine = db[n].engine => Applied(n) = MaxIndex - 1

BootedInit == Start(Booted)

BootedSpec == BootedInit /\ [][Next /\ Explored]_vars

Insert == [op |-> "insert", keys |-> {1}, row |-> Null, fails |-> {}]

Update == [op |-> "update", keys |-> Key, row |-> CHOOSE value \in Value : TRUE, fails |-> {}]

(* An insert and then an update of whatever row there is. *)
InTurn == [client : Client, seq : {1}, statement : {Insert}]
            \union [client : Client, seq : {2}, statement : {Update}]

Replicas == Permutations(Node)
=============================================================================
