------------------------------- MODULE Server -------------------------------
(***************************************************************************)
(* The standalone server (aster-server/src/lib.rs) over the database:      *)
(* connections hand requests to blocking workers, which check who owns the *)
(* transaction, call the database and then settle the table of owners, as  *)
(* three separate steps.  A worker goes on when its connection has timed   *)
(* out or closed, so the answer may reach nobody while the client already  *)
(* sends the next request.  Clients remember transaction ids across        *)
(* restarts of the server.                                                 *)
(***************************************************************************)
EXTENDS Database

VARIABLES
    owners,     \* transaction_owners: transaction id -> client.
    job,        \* Worker -> the request it works on, or None.
    held        \* Client -> the transaction ids it was given.

serverVars == <<vars, owners, job, held>>

Worker == setting.workers     \* Blocking workers; none without a server.
Restarts == setting.restarts  \* Whether the server may restart.

ServerStart(db) ==
    /\ Start(db)
    /\ owners = << >>
    /\ job = [w \in Worker |-> None]
    /\ held = [client \in Client |-> {}]

ServerInit == ServerStart(EmptyDatabase)

Job(client, op, id, seq, step) == [client |-> client, op |-> op, id |-> id, seq |-> seq, step |-> step]

At(w, step) == job[w] # None /\ job[w].step = step

SetJob(w, new) == job' = [job EXCEPT ![w] = new]

Goto(w, step) == SetJob(w, [job[w] EXCEPT !.step = step])

Is(w, op) == At(w, "call") /\ job[w].op = op

------------------------------------------------------------------------------
(* serve_connection and dispatch_database: a request is read and given to  *)
(* a worker.  BEGIN and autocommit statements name no transaction.         *)
SubmitBegin(w, client) ==
    /\ job[w] = None
    /\ SetJob(w, Job(client, "begin", 0, 0, "call"))
    /\ UNCHANGED <<vars, owners, held>>

SubmitAutocommit(w, client, seq) ==
    /\ job[w] = None
    /\ SetJob(w, Job(client, "autocommit", 0, seq, "call"))
    /\ UNCHANGED <<vars, owners, held>>

Submit(w, client, op, id, seq) ==
    /\ job[w] = None
    /\ id \in held[client]
    /\ SetJob(w, Job(client, op, id, seq, "verify"))
    /\ UNCHANGED <<vars, owners, held>>

(* verify_owner: a transaction without an owner may be used by anyone. *)
MayUse(client, id) == id \in DOMAIN owners => owners[id] = client

VerifyOwner(w) ==
    /\ At(w, "verify")
    /\ IF MayUse(job[w].client, job[w].id) THEN Goto(w, "call") ELSE SetJob(w, None)
    /\ UNCHANGED <<vars, owners, held>>

------------------------------------------------------------------------------
(* The database calls. *)
CallBegin(w) ==
    /\ Is(w, "begin")
    /\ SetJob(w, [job[w] EXCEPT !.id = mem.next, !.step = "own"])
    /\ Begin(job[w].client)
    /\ UNCHANGED <<owners, held>>

BeginRefused(w) ==
    /\ Is(w, "begin")
    /\ Cardinality(DOMAIN active) >= MaxActive
    /\ SetJob(w, None)
    /\ UNCHANGED <<vars, owners, held>>

(* The owner is entered after the call, and only then is the client told   *)
(* the id, if the answer still reaches it.                                 *)
OwnTransaction(w, delivered) ==
    /\ At(w, "own")
    /\ owners' = (job[w].id :> job[w].client) @@ owners
    /\ held' = IF delivered THEN [held EXCEPT ![job[w].client] = @ \union {job[w].id}] ELSE held
    /\ SetJob(w, None)
    /\ UNCHANGED vars

CallExecute(w, statement) ==
    /\ Is(w, "execute")
    /\ ExecuteInTransaction(job[w].id, statement)
    /\ SetJob(w, None)
    /\ UNCHANGED <<owners, held>>

CallAutocommit(w, statement) ==
    LET client == job[w].client
        seq == job[w].seq
    IN  /\ Is(w, "autocommit")
        /\ \/ Autocommit(client, seq, statement) \/ AutocommitFails(client, seq, statement)
           \/ AutocommitReplay(client, seq, statement) \/ AutocommitUnapplied(client, seq, statement)
        /\ SetJob(w, None)
        /\ UNCHANGED <<owners, held>>

(* The operations settle when the transaction is over; a COMMIT or         *)
(* ROLLBACK statement only when it succeeds.                               *)
Finish(w, ok) == IF ok \/ job[w].op \in {"commit", "rollback"} THEN Goto(w, "settle") ELSE SetJob(w, None)

IsCommit(w) == Is(w, "commit") \/ Is(w, "sqlcommit")

IsRollback(w) == Is(w, "rollback") \/ Is(w, "sqlrollback")

CallCommit(w) ==
    LET client == job[w].client
        id == job[w].id
    IN  /\ IsCommit(w)
        /\ Commit(client, job[w].seq, id) \/ CommitReplay(client, job[w].seq, id)
        /\ IF id \in DOMAIN active' THEN SetJob(w, None)
                                    ELSE Finish(w, told'[client].result.kind = "Committed")
        /\ UNCHANGED <<owners, held>>

CallCommitFails(w) ==
    /\ IsCommit(w)
    /\ CommitFails(job[w].client, job[w].seq, job[w].id)
    /\ SetJob(w, None)
    /\ UNCHANGED <<owners, held>>

CallRollback(w) ==
    /\ IsRollback(w)
    /\ Rollback(job[w].id)
    /\ Goto(w, "settle")
    /\ UNCHANGED <<owners, held>>

(* TransactionNotFound. *)
NotFound(w) ==
    /\ Is(w, "execute") \/ IsRollback(w)
         \/ (IsCommit(w) /\ ReplayRecord(mem.requests, job[w].client, job[w].seq, CommitRequest(job[w].id)) = None)
    /\ job[w].id \notin DOMAIN active
    /\ Finish(w, FALSE)
    /\ UNCHANGED <<vars, owners, held>>

(* The number was used for something else. *)
CommitMismatch(w) ==
    /\ IsCommit(w)
    /\ job[w].id \notin DOMAIN active
    /\ ReplayRecord(mem.requests, job[w].client, job[w].seq, CommitRequest(job[w].id)) = "mismatch"
    /\ SetJob(w, None)
    /\ UNCHANGED <<vars, owners, held>>


(* The owner of a finished transaction is removed. *)
Settle(w) ==
    /\ At(w, "settle")
    /\ owners' = [id \in DOMAIN owners \ {job[w].id} |-> owners[id]]
    /\ SetJob(w, None)
    /\ UNCHANGED <<vars, held>>

RestartServer ==
    /\ Restarts
    /\ Restart
    /\ owners' = << >>
    /\ job' = [w \in Worker |-> None]
    /\ UNCHANGED held

ServerNext ==
    \/ \E w \in Worker, client \in Client :
         \/ SubmitBegin(w, client)
         \/ \E seq \in 1..MaxSequence :
              \/ SubmitAutocommit(w, client, seq)
              \/ \E op \in {"commit", "sqlcommit", "rollback", "sqlrollback", "execute"}, id \in held[client] :
                   Submit(w, client, op, id, seq)
    \/ \E w \in Worker :
         \/ VerifyOwner(w) \/ CallBegin(w) \/ BeginRefused(w)
         \/ \E delivered \in BOOLEAN : OwnTransaction(w, delivered)
         \/ \E statement \in Statement : CallExecute(w, statement) \/ CallAutocommit(w, statement)
         \/ CallCommit(w) \/ CallCommitFails(w) \/ CallRollback(w) \/ NotFound(w) \/ CommitMismatch(w) \/ Settle(w)
    \/ RestartServer

ServerSpec == ServerInit /\ [][ServerNext /\ UNCHANGED setting]_serverVars

------------------------------------------------------------------------------
=============================================================================
