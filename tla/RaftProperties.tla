--------------------------- MODULE RaftProperties ---------------------------
(***************************************************************************)
(* What the Raft core promises: docs/FAILURE_MODEL.md, "Required           *)
(* invariants under failure", the assertions of crates/aster-raft/src/     *)
(* simulator.rs and the checks recover makes of the durable state.         *)
(***************************************************************************)
EXTENDS RaftNode

-----------------------------------------------------------------------------
(***************************************************************************)
(* Types.                                                                  *)
(***************************************************************************)
Role == {"Follower", "PreCandidate", "Candidate", "Leader"}

Context == {NoContext} \cup (Node \X Nat)

VoteRequest ==
    [type : {"PreVoteRequest", "RequestVote"}, from : Node, to : Node,
     term : Nat, lastIndex : Nat, lastTerm : Nat]

PreVoteResponse ==
    [type : {"PreVoteResponse"}, from : Node, to : Node,
     term : Nat, prospective : Nat, granted : BOOLEAN]

RequestVoteResponse ==
    [type : {"RequestVoteResponse"}, from : Node, to : Node,
     term : Nat, granted : BOOLEAN]

AppendEntries ==
    [type : {"AppendEntries"}, from : Node, to : Node,
     term : Nat, prev : Nat, prevTerm : Nat, entries : Seq(Entry),
     commit : Nat, context : Context]

AppendEntriesResponse ==
    [type : {"AppendEntriesResponse"}, from : Node, to : Node,
     term : Nat, success : BOOLEAN, match : Nat, conflictIndex : Nat,
     conflictTerm : Nat \cup {NoTerm}, context : Context]

InstallSnapshot ==
    [type : {"InstallSnapshot"}, from : Node, to : Node,
     term : Nat, snapshot : Seq(Entry), offset : Nat, done : BOOLEAN]

InstallSnapshotResponse ==
    [type : {"InstallSnapshotResponse"}, from : Node, to : Node,
     term : Nat, accepted : BOOLEAN, next : Nat, done : BOOLEAN, match : Nat]

Message ==
    VoteRequest \cup PreVoteResponse \cup RequestVoteResponse
        \cup AppendEntries \cup AppendEntriesResponse
        \cup InstallSnapshot \cup InstallSnapshotResponse

ProgressRecord == [match : Nat, next : Nat, offset : Nat]

PendingRead ==
    [context : Node \X Nat, index : Nat, acks : SUBSET Node, floor : Nat]

\* Every variable has its type: the durable HardState and log, the volatile
\* state of the Raft struct, and well-formed messages between two voters.
TypeOK ==
    /\ currentTerm  \in [Node -> Nat]
    /\ votedFor     \in [Node -> Node \cup {NoNode}]
    /\ commitIndex  \in [Node -> Nat]
    /\ log          \in [Node -> Seq(Entry)]
    /\ base         \in [Node -> Nat]
    /\ role         \in [Node -> Role]
    /\ leaderId     \in [Node -> Node \cup {NoNode}]
    /\ campaignTerm \in [Node -> Nat \cup {NoTerm}]
    /\ votes        \in [Node -> SUBSET Node]
    /\ progress     \in [Node -> [Node -> ProgressRecord]]
    /\ recentActive \in [Node -> SUBSET Node]
    /\ pendingReads \in [Node -> SUBSET PendingRead]
    /\ incoming     \in [Node -> [snapshot : Seq(Entry), next : Nat]]
    /\ fenced       \in [Node -> BOOLEAN]
    /\ nextRead     \in [Node -> Nat]
    /\ msgs \subseteq Message
    /\ \A m \in msgs : m.from # m.to
    /\ ballots \subseteq [voter : Node, candidate : Node, term : Nat]
    /\ leaderships \subseteq [node : Node, term : Nat]

-----------------------------------------------------------------------------
(***************************************************************************)
(* Elections.                                                              *)
(***************************************************************************)

\* No node votes for two candidates of one term, in on_vote_request or in
\* start_election, whatever crashes lie between the two votes.
OneVotePerTerm ==
    \A b, c \in ballots :
        b.voter = c.voter /\ b.term = c.term => b.candidate = c.candidate

\* A term has at most one leader over the whole run: two nodes never both
\* pass the quorum test of on_vote_response in one term, even if the first
\* has crashed or stepped down by then.
ElectionSafety ==
    \A a, b \in leaderships : a.term = b.term => a.node = b.node

\* leader_id, the hint returned to clients, names the one leader of the term
\* the node is in.
LeaderHintIsLeader ==
    \A n \in Node : leaderId[n] # NoNode =>
        [node |-> leaderId[n], term |-> currentTerm[n]] \in leaderships

-----------------------------------------------------------------------------
(***************************************************************************)
(* Replication.                                                            *)
(***************************************************************************)

Agree(l, k, i) ==
    Len(l) >= i /\ Len(k) >= i /\ SubSeq(l, 1, i) = SubSeq(k, 1, i)

\* Two logs that hold the same term at an index are identical up to it: what
\* the prev_log_term test and the truncation of on_append_entries maintain.
LogMatching ==
    \A n, p \in Node : \A i \in 1 .. Smaller(Len(log[n]), Len(log[p])) :
        log[n][i].term = log[p][i].term => Agree(log[n], log[p], i)

\* Entries two nodes consider committed, and so have applied, are the same.
StateMachineSafety ==
    \A n, p \in Node :
        Agree(log[n], log[p], Smaller(commitIndex[n], commitIndex[p]))

\* A leader holds every entry that a node in the same or an earlier term
\* knows to be committed.
LeaderCompleteness ==
    \A n, p \in Node :
        role[n] = "Leader" /\ currentTerm[p] <= currentTerm[n] =>
            Agree(log[n], log[p], commitIndex[p])

\* What a leader counts as matched on a peer still in its term really is in
\* the peer's durable log.
MatchedIsReplicated ==
    \A n, p \in Node :
        role[n] = "Leader" /\ currentTerm[p] = currentTerm[n] =>
            Agree(log[n], log[p], progress[n][p].match)

\* Fatal ("leader attempted to replace committed index") is never reached.
NeverFenced == \A n \in Node : ~fenced[n]

Sorted(l) == \A i \in 2 .. Len(l) : l[i - 1].term <= l[i].term

NoFutureTerm(l, term) == \A i \in 1 .. Len(l) : l[i].term <= term

\* recover accepts the durable state of every node at every crash point:
\* terms do not decrease along the log nor exceed the current term, and the
\* commit index lies between the snapshot boundary and the last entry.
DurableStateRecoverable ==
    \A n \in Node :
        /\ base[n] <= commitIndex[n] /\ commitIndex[n] <= LastIndex(log[n])
        /\ Sorted(log[n])
        /\ NoFutureTerm(log[n], currentTerm[n])

\* An entry is never replaced or forgotten on a node once the node knows it
\* to be committed: not by a leader, a snapshot, or a crash and recovery.
CommittedNeverReplaced ==
    [][\A n \in Node :
          /\ commitIndex'[n] >= commitIndex[n]
          /\ Agree(log[n], log'[n], commitIndex[n])]_vars

-----------------------------------------------------------------------------
(***************************************************************************)
(* Reads.                                                                  *)
(***************************************************************************)

=============================================================================
