-------------------------- MODULE SnapshotIsolation --------------------------
(***************************************************************************)
(* What the engine promises: snapshot isolation over a numbered history of *)
(* database states.  A transaction reads the state at which it began,      *)
(* overlaid with its own writes; it commits as the next state only if no   *)
(* row it writes has changed since it began (the first committer wins);    *)
(* history older than the floor may be forgotten, what is kept never       *)
(* changes (docs/CONSISTENCY.md).                                          *)
(***************************************************************************)
EXTENDS Integers, TLC

CONSTANTS
    Session,    \* Sessions, each with at most one transaction.
    Place,      \* Where a row can be: a table and a key.
    Content,    \* What can be there, no row included.
    Blank,      \* No row.
    Idle        \* No transaction.

VARIABLES
    floor,      \* Oldest state that is still kept.
    last,       \* Newest state.
    states,     \* Number -> state; a state says what is at every place.
    txns        \* Session -> Idle, or the state it reads and what it wrote.

vars == <<floor, last, states, txns>>

Init ==
    /\ floor = 0
    /\ last \in Nat
    /\ states = [i \in 0..last |-> [p \in Place |-> Blank]]
    /\ txns = [s \in Session |-> Idle]

HistoryKept == \A i \in floor'..last : states'[i] = states[i]

Unchanged == UNCHANGED <<floor, last>> /\ HistoryKept

Begin(s) ==
    /\ txns[s] = Idle
    /\ txns' = [txns EXCEPT ![s] = [read |-> last, writes |-> << >>]]
    /\ Unchanged

Write(s) ==
    /\ txns[s] # Idle
    /\ floor <= txns[s].read
    /\ \E p \in Place, c \in Content :
         txns' = [txns EXCEPT ![s].writes = (p :> c) @@ @]
    /\ Unchanged

Finish(s) == txns[s] # Idle /\ txns' = [txns EXCEPT ![s] = Idle]

Commit(s) ==
    LET t == txns[s]
    IN  /\ Finish(s)
        /\ floor <= t.read
        /\ \A p \in DOMAIN t.writes, i \in t.read..last : states[i][p] = states[t.read][p]
        /\ last' = last + 1
        /\ UNCHANGED floor
        /\ HistoryKept
        /\ states'[last'] = t.writes @@ states[last]

(* A number is used up without a change: an abort, a duplicate, a no-op. *)
Skip ==
    /\ last' = last + 1
    /\ UNCHANGED floor
    /\ HistoryKept
    /\ states'[last'] = states[last]

Abort(s) == Finish(s) /\ Skip

Rollback(s) == Finish(s) /\ Unchanged

Forget ==
    /\ floor' \in floor..last
    /\ UNCHANGED <<last, txns>>
    /\ HistoryKept

Restart ==
    /\ txns' = [s \in Session |-> Idle]
    /\ Unchanged

Next ==
    \/ \E s \in Session : Begin(s) \/ Write(s) \/ Commit(s) \/ Abort(s) \/ Rollback(s)
    \/ Skip /\ UNCHANGED txns
    \/ Forget
    \/ Restart

Spec == Init /\ [][Next]_vars
=============================================================================
