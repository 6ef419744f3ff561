------------------------------ MODULE MCPager ------------------------------
(***************************************************************************)
(* Instances of DurablePager for TLC.  Command a rewrites the page next to *)
(* the root, b the root and the page next to it.                           *)
(***************************************************************************)
EXTENDS DurablePager

CONSTANTS a, b

TwoPages == (a :> {1}) @@ (b :> {0, 1})

(***************************************************************************)
(* A replica, which reopens its pager after an error; a standalone         *)
(* database from its first open on, which keeps it in use; one that        *)
(* retries and checkpoints; and a replica that meets every kind of fault.  *)
(***************************************************************************)
Replica ==
    [committed |-> <<a, b, a>>, staysOpen |-> FALSE,
     faults |-> {"append", "write", "power"}, maxFaults |-> 2,
     maxIndex |-> 3, maxPage |-> 7, maxCheckpoints |-> 1]
Standalone ==
    [committed |-> << >>, staysOpen |-> TRUE,
     faults |-> {"append", "write", "power"}, maxFaults |-> 3,
     maxIndex |-> 3, maxPage |-> 3, maxCheckpoints |-> 0]
Retrying ==
    [committed |-> << >>, staysOpen |-> TRUE,
     faults |-> {"append", "sync_disk", "write"}, maxFaults |-> 3,
     maxIndex |-> 3, maxPage |-> 5, maxCheckpoints |-> 1]
Unlucky ==
    [committed |-> <<a, b>>, staysOpen |-> FALSE,
     faults |-> {"append", "sync_wal", "sync_disk", "write", "power", "kill"},
     maxFaults |-> 2, maxIndex |-> 3, maxPage |-> 3, maxCheckpoints |-> 0]

(***************************************************************************)
(* A pager whose first open has succeeded, the state Init leads to without *)
(* faults.                                                                 *)
(***************************************************************************)
EstablishedInit ==
    LET second == Publish(Genesis, << >>, 0, 2, NoRoot)
    IN  /\ wal = << >> /\ synced = 0
        /\ disk = [p \in Page |-> CASE p = 0 -> Genesis [] p = 1 -> second
                                    [] OTHER -> Absent]
        /\ survivors = [p \in Page |-> {disk[p]}]
        /\ state = second
        /\ op = Idle
        /\ faults = 0
        /\ visible = << >> /\ asked = {}

SettingsInit ==
    \/ setting = Standalone /\ Init
    \/ setting \in {Replica, Retrying, Unlucky} /\ EstablishedInit

\* The unlucky replica is fair: every I/O call returns, and a closed pager is
\* opened again.
SettingsSpec ==
    /\ SettingsInit
    /\ [][Next /\ UNCHANGED setting]_vars
    /\ WF_vars(setting = Unlucky /\ Progress /\ UNCHANGED setting)

============================================================================
