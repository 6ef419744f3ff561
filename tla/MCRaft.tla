------------------------------- MODULE MCRaft -------------------------------
(***************************************************************************)
(* Instances of RaftNode for TLC: three voters, and who may stand for      *)
(* election in which term.                                                 *)
(***************************************************************************)
EXTENDS RaftProperties, TLC

CONSTANTS n1, n2, n3,
          MaxInFlight          \* messages the network holds at a time

VARIABLE founding              \* whether the group starts without a leader

\* Who may stand in which term: everybody in term 1, or one after another.
Rivals == {<<n1, 1>>, <<n2, 1>>, <<n3, 1>>}
Successor == {<<n2, 2>>}
Comeback == {<<n2, 2>>, <<n1, 3>>}
Everybody == Rivals \cup Successor

(***************************************************************************)
(* A group with a leader: n1 was elected by all in term 1, its log l is on *)
(* every node and committed, and nothing is in flight.                     *)
(***************************************************************************)
Established(l) ==
    /\ currentTerm  = [n \in Node |-> 1]
    /\ votedFor     = [n \in Node |-> n1]
    /\ commitIndex  = [n \in Node |-> Len(l)]
    /\ log          = [n \in Node |-> l]
    /\ base         = [n \in Node |-> 0]
    /\ role         = [n \in Node |-> IF n = n1 THEN "Leader" ELSE "Follower"]
    /\ leaderId     = [n \in Node |-> n1]
    /\ campaignTerm = [n \in Node |-> NoTerm]
    /\ votes        = [n \in Node |-> {}]
    /\ progress     = [n \in Node |-> [p \in Node |->
                          IF n # n1 THEN NoProgress
                          ELSE [match |-> Len(l), next |-> Len(l) + 1,
                                offset |-> 0]]]
    /\ recentActive = [n \in Node |-> IF n = n1 THEN Node ELSE {}]
    /\ pendingReads = [n \in Node |-> {}]
    /\ incoming     = [n \in Node |-> NoTransfer]
    /\ fenced       = [n \in Node |-> FALSE]
    /\ nextRead     = [n \in Node |-> 1]
    /\ msgs         = {}
    /\ ballots      = {[voter |-> n, candidate |-> n1, term |-> 1] : n \in Node}
    /\ leaderships  = {[node |-> n1, term |-> 1]}

FirstNoop == [term |-> 1, payload |-> Noop]

EstablishedInit == founding = FALSE /\ Established(<<FirstNoop>>)

\* The runs that start once the first election is over.
EstablishedSpec ==
    EstablishedInit /\ [][Next /\ UNCHANGED founding]_<<vars, founding>>

(***************************************************************************)
(* The founding of a group is followed through its first term and no       *)
(* further, with every message deliverable for ever: a lost one is one     *)
(* that is never delivered.                                                *)
(***************************************************************************)
Founding ==
    /\ msgs \subseteq msgs'
    /\ \A n \in Node : /\ currentTerm'[n] <= 1
                       /\ campaignTerm'[n] # 2
                       /\ LastIndex(log'[n]) <= 1

FoundingSpec ==
    /\ EstablishedInit \/ (founding = TRUE /\ Init)
    /\ [][Next /\ (founding => Founding) /\ UNCHANGED founding]_<<vars, founding>>

(***************************************************************************)
(* A response that no later state can react to: its term is over, or the   *)
(* node does not hold the role that wants it and cannot reach it any more  *)
(* in that term (a candidate may still become the leader that a rejection  *)
(* of an old append, sent in the new term, reaches).  Delivering it only   *)
(* removes it, so two states that differ in spent messages alone have the  *)
(* same future, and TLC keeps one of them.                                 *)
(***************************************************************************)
Spent(m) ==
    LET current == currentTerm[m.to]
    IN  \/ /\ m.type = "PreVoteResponse" /\ m.term <= current
           /\ m.granted => m.prospective <= current
        \/ /\ m.type = "RequestVoteResponse" /\ m.term <= current
           /\ m.term = current => role[m.to] # "Candidate"
        \/ /\ m.type \in {"AppendEntriesResponse", "InstallSnapshotResponse"}
           /\ m.term <= current
           /\ m.term = current => role[m.to] \notin {"Candidate", "Leader"}

Live == <<durableVars, roleVars, leaderVars, processVars, historyVars,
          {m \in msgs : ~Spent(m)}, founding>>

FewInFlight == founding \/ Cardinality({m \in msgs : ~Spent(m)}) <= MaxInFlight
=============================================================================
