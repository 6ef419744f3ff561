------------------------------ MODULE RaftNode ------------------------------
(***************************************************************************)
(* The Raft protocol of crates/aster-raft/src/node.rs: every handler of    *)
(* Raft::step as one action, run by all the voters of a group over a       *)
(* network that loses, delays, duplicates and reorders messages, with      *)
(* crashes between and inside handlers.                                    *)
(*                                                                         *)
(* One call of step is one action.  It returns an ordered batch of         *)
(* persists, sends and applies that the runtime executes in order, so a    *)
(* crash leaves a prefix of the batch: a send that did not happen is a     *)
(* message nobody receives, and the durable states strictly inside a batch *)
(* are those of RestartAfterTerm and RestartAfterLog.  At the end of a     *)
(* batch hard_state and log equal what is on disk, hence one copy of each. *)
(* step starts with apply_committed and every commit ends with it, so      *)
(* applied_index = commit_index wherever a handler reads it.               *)
(***************************************************************************)
EXTENDS RaftConfiguration, RaftLog

CONSTANTS NoNode,              \* None, for a node
          MAX_APPEND_ENTRIES,  \* entries per AppendEntries
          Chunks,              \* messages a snapshot transfer takes
          \* What happens in an instance: which timers fire, what fails, who
          \* may stand in which term, who takes snapshots, how long a log
          \* grows by proposals and how many reads a process numbers.
          Ticks, Faults, Campaigns, Snapshotters, MaxIndex, MaxReads

VARIABLES
    \* Durable: HardState, the log and its snapshot boundary.
    currentTerm, votedFor, commitIndex, log, base,
    \* Volatile, lost by a crash.
    role, leaderId, campaignTerm, votes, progress, recentActive,
    pendingReads, incoming, fenced, nextRead,
    \* The messages in flight.  One may arrive late and out of order, be lost
    \* or, with the fault "duplicate", arrive any number of times.
    msgs,
    \* History, for the properties only: every vote cast, every term led.
    ballots, leaderships

durableVars == <<currentTerm, votedFor, commitIndex, log, base>>
roleVars == <<role, leaderId, campaignTerm, votes>>
leaderVars == <<progress, recentActive, pendingReads>>
processVars == <<incoming, fenced, nextRead>>
historyVars == <<ballots, leaderships>>
vars == <<durableVars, roleVars, leaderVars, processVars, msgs, historyVars>>

ASSUME ParametersAssumption ==
    /\ NoNode \notin Node
    /\ Noop \notin Command
    /\ MAX_APPEND_ENTRIES \in Nat \ {0}
    /\ Chunks \in Nat \ {0}
    /\ Campaigns \subseteq Node \X Nat
    /\ Snapshotters \subseteq Node
    /\ MaxIndex \in Nat
    /\ MaxReads \in Nat

\* An empty read context is None; the runtime numbers the others per process.
NoContext == << >>

NoProgress == [match |-> 0, next |-> 0, offset |-> 0]
NoTransfer == [snapshot |-> << >>, next |-> 0]

\* Mutant of Peers: a node sends to itself as well.
PeersAndSelf(n) == Node

Peers(n) == Node \ {n}

Init ==
    /\ currentTerm  = [n \in Node |-> 0]
    /\ votedFor     = [n \in Node |-> NoNode]
    /\ commitIndex  = [n \in Node |-> 0]
    /\ log          = [n \in Node |-> << >>]
    /\ base         = [n \in Node |-> 0]
    /\ role         = [n \in Node |-> "Follower"]
    /\ leaderId     = [n \in Node |-> NoNode]
    /\ campaignTerm = [n \in Node |-> NoTerm]
    /\ votes        = [n \in Node |-> {}]
    /\ progress     = [n \in Node |-> [p \in Node |-> NoProgress]]
    /\ recentActive = [n \in Node |-> {}]
    /\ pendingReads = [n \in Node |-> {}]
    /\ incoming     = [n \in Node |-> NoTransfer]
    /\ fenced       = [n \in Node |-> FALSE]
    /\ nextRead     = [n \in Node |-> 1]
    /\ msgs         = {}
    /\ ballots      = {}
    /\ leaderships  = {}

-----------------------------------------------------------------------------
(***************************************************************************)
(* Helpers shared by the handlers.                                         *)
(***************************************************************************)

\* Delivery of a message of the given type to a live node.
Receives(m, type) == m.type = type /\ ~fenced[m.to]

\* What the network holds once m is handled and the messages sent follow.
Exchange(m, sent) ==
    msgs' = (IF "duplicate" \in Faults THEN msgs ELSE msgs \ {m}) \cup sent

\* Mutant of CandidateLogIsUpToDate: logs compared by last term alone.
LastTermIsUpToDate(n, m) == m.lastTerm >= LastTerm(log[n])

CandidateLogIsUpToDate(n, m) ==
    \/ m.lastTerm > LastTerm(log[n])
    \/ m.lastTerm = LastTerm(log[n]) /\ m.lastIndex >= LastIndex(log[n])

\* What becoming a follower does to the volatile state; pending reads are
\* rejected with LeadershipLost.
StepDown(n, leader) ==
    /\ role'         = [role EXCEPT ![n] = "Follower"]
    /\ leaderId'     = [leaderId EXCEPT ![n] = leader]
    /\ campaignTerm' = [campaignTerm EXCEPT ![n] = NoTerm]
    /\ votes'        = [votes EXCEPT ![n] = {}]
    /\ progress'     = [progress EXCEPT ![n] = [p \in Node |-> NoProgress]]
    /\ recentActive' = [recentActive EXCEPT ![n] = {}]
    /\ pendingReads' = [pendingReads EXCEPT ![n] = {}]

AdoptTerm(n, term) ==
    /\ currentTerm' = [currentTerm EXCEPT ![n] = Larger(@, term)]
    /\ votedFor' = [votedFor EXCEPT ![n] =
                        IF term > currentTerm[n] THEN NoNode ELSE @]

BecomeFollower(n, term, leader) == AdoptTerm(n, term) /\ StepDown(n, leader)

\* A response from a later term ends whatever the node was doing.
StepDownOnNewerTerm(m) ==
    /\ m.term > currentTerm[m.to]
    /\ BecomeFollower(m.to, m.term, NoNode)
    /\ Exchange(m, {})
    /\ UNCHANGED <<commitIndex, log, base, processVars, historyVars>>

(***************************************************************************)
(* The message send_append builds for peer p from a log l, a commit index  *)
(* and the peer's progress: entries, or a snapshot chunk (which carries no *)
(* read context) when the peer needs what is no longer in the log.         *)
(***************************************************************************)
SnapshotChunk(n, p, pr) ==
    LET offset == Smaller(pr.offset, Chunks)
    IN  [type |-> "InstallSnapshot", from |-> n, to |-> p,
         term |-> currentTerm[n],
         snapshot |-> SubSeq(log[n], 1, base[n]),
         offset |-> offset,
         done |-> Smaller(offset + 1, Chunks) = Chunks]

SendAppend(n, p, l, commit, pr, context) ==
    IF pr.next <= base[n] THEN SnapshotChunk(n, p, pr)
    ELSE LET next == Smaller(pr.next, LastIndex(l) + 1)
         IN  [type |-> "AppendEntries", from |-> n, to |-> p,
              term |-> currentTerm[n],
              prev |-> next - 1,
              prevTerm |-> TermAt(l, base[n], next - 1),
              entries |-> EntriesFrom(l, next, MAX_APPEND_ENTRIES),
              commit |-> commit,
              context |-> context]

BroadcastAppend(n, l, commit, prog, context) ==
    {SendAppend(n, p, l, commit, prog[p], context) : p \in Peers(n)}

\* The commit index of leader n once its log is l and its progress is prog.
AdvanceLeaderCommit(n, l, prog) ==
    LET index == QuorumIndex([v \in Node |-> prog[v].match])
    IN  IF index > commitIndex[n] /\ TermAt(l, base[n], index) = currentTerm[n]
        THEN index ELSE commitIndex[n]

-----------------------------------------------------------------------------
(***************************************************************************)
(* Timers (on_tick).                                                       *)
(***************************************************************************)

\* start_pre_vote: the election timer of a node that does not lead fires.
ElectionTick(n) ==
    /\ <<n, currentTerm[n] + 1>> \in Campaigns
    /\ ~fenced[n] /\ role[n] # "Leader"
    /\ role'         = [role EXCEPT ![n] = "PreCandidate"]
    /\ leaderId'     = [leaderId EXCEPT ![n] = NoNode]
    /\ campaignTerm' = [campaignTerm EXCEPT ![n] = currentTerm[n] + 1]
    /\ votes'        = [votes EXCEPT ![n] = {n}]
    /\ msgs' = msgs \cup
          {[type |-> "PreVoteRequest", from |-> n, to |-> p,
            term |-> currentTerm[n] + 1,
            lastIndex |-> LastIndex(log[n]), lastTerm |-> LastTerm(log[n])] :
              p \in Peers(n)}
    /\ UNCHANGED <<durableVars, leaderVars, processVars, historyVars>>

HeartbeatTick(n) ==
    /\ "Heartbeat" \in Ticks
    /\ ~fenced[n] /\ role[n] = "Leader"
    /\ msgs' = msgs \cup BroadcastAppend(n, log[n], commitIndex[n],
                                         progress[n], NoContext)
    /\ UNCHANGED <<durableVars, roleVars, leaderVars, processVars, historyVars>>

\* A leader that heard from no quorum since the last check steps down.
CheckQuorumTick(n) ==
    /\ "CheckQuorum" \in Ticks
    /\ ~fenced[n] /\ role[n] = "Leader"
    /\ \/ /\ IsQuorum(recentActive[n])
          /\ recentActive' = [recentActive EXCEPT ![n] = {n}]
          /\ msgs' = msgs \cup BroadcastAppend(n, log[n], commitIndex[n],
                                               progress[n], NoContext)
          /\ UNCHANGED <<roleVars, progress, pendingReads>>
       \/ /\ ~IsQuorum(recentActive[n])
          /\ StepDown(n, NoNode)
          /\ UNCHANGED msgs
    /\ UNCHANGED <<durableVars, processVars, historyVars>>

-----------------------------------------------------------------------------
(***************************************************************************)
(* Elections.                                                              *)
(***************************************************************************)

\* A pre-vote changes no state of the responder.
OnPreVoteRequest(m) ==
    LET n == m.to
    IN  /\ Receives(m, "PreVoteRequest")
        /\ Exchange(m,
              {[type |-> "PreVoteResponse", from |-> n, to |-> m.from,
                term |-> currentTerm[n], prospective |-> m.term,
                granted |-> /\ m.term > currentTerm[n]
                            /\ CandidateLogIsUpToDate(n, m)]})
        /\ UNCHANGED <<durableVars, roleVars, leaderVars, processVars,
                       historyVars>>

\* The pre-vote that m completes starts the election it was held for.
StartElection(n, term, m) ==
    /\ currentTerm'  = [currentTerm EXCEPT ![n] = term]
    /\ votedFor'     = [votedFor EXCEPT ![n] = n]
    /\ role'         = [role EXCEPT ![n] = "Candidate"]
    /\ campaignTerm' = [campaignTerm EXCEPT ![n] = NoTerm]
    /\ votes'        = [votes EXCEPT ![n] = {n}]
    /\ Exchange(m,
          {[type |-> "RequestVote", from |-> n, to |-> p, term |-> term,
            lastIndex |-> LastIndex(log[n]), lastTerm |-> LastTerm(log[n])] :
              p \in Peers(n)})
    /\ ballots' = ballots \cup {[voter |-> n, candidate |-> n, term |-> term]}
    /\ UNCHANGED leaderId

OnPreVoteResponse(m) ==
    LET n == m.to
        counted == votes[n] \cup {m.from}
    IN  /\ Receives(m, "PreVoteResponse")
        /\ \/ StepDownOnNewerTerm(m)
           \/ /\ m.term <= currentTerm[n]
              /\ role[n] = "PreCandidate" /\ campaignTerm[n] = m.prospective
              /\ m.granted
              /\ \/ /\ IsQuorum(counted)
                    /\ StartElection(n, m.prospective, m)
                 \/ /\ ~IsQuorum(counted)
                    /\ votes' = [votes EXCEPT ![n] = counted]
                    /\ Exchange(m, {})
                    /\ UNCHANGED <<currentTerm, votedFor, role, leaderId,
                                   campaignTerm, ballots>>
              /\ UNCHANGED <<commitIndex, log, base, leaderVars, processVars,
                             leaderships>>

\* A later term is adopted (and persisted) whether or not the vote is granted.
OnVoteRequest(m) ==
    LET n == m.to
        newer == m.term > currentTerm[n]
        vote == IF newer THEN NoNode ELSE votedFor[n]
        granted == /\ m.term >= currentTerm[n]
                   /\ vote \in {NoNode, m.from}
                   /\ CandidateLogIsUpToDate(n, m)
    IN  /\ Receives(m, "RequestVote")
        /\ currentTerm' = [currentTerm EXCEPT ![n] = Larger(@, m.term)]
        /\ votedFor' = [votedFor EXCEPT ![n] =
                            IF granted THEN m.from ELSE vote]
        /\ \/ newer /\ StepDown(n, NoNode)
           \/ /\ ~newer
              /\ leaderId' = [leaderId EXCEPT ![n] =
                                  IF granted THEN NoNode ELSE @]
              /\ UNCHANGED <<role, campaignTerm, votes, leaderVars>>
        /\ Exchange(m,
              {[type |-> "RequestVoteResponse", from |-> n, to |-> m.from,
                term |-> Larger(currentTerm[n], m.term), granted |-> granted]})
        /\ ballots' = ballots \cup
              {b \in {[voter |-> n, candidate |-> m.from, term |-> m.term]} :
                  granted}
        /\ UNCHANGED <<commitIndex, log, base, processVars, leaderships>>

\* The new leader appends a no-op and starts every peer right after it.
BecomeLeader(n, m) ==
    LET l == Append(log[n], [term |-> currentTerm[n], payload |-> Noop])
        prog == [p \in Node |-> [match |-> IF p = n THEN Len(l) ELSE 0,
                                 next |-> Len(l) + 1, offset |-> 0]]
        commit == AdvanceLeaderCommit(n, l, prog)
    IN  /\ role'         = [role EXCEPT ![n] = "Leader"]
        /\ leaderId'     = [leaderId EXCEPT ![n] = n]
        /\ votes'        = [votes EXCEPT ![n] = {}]
        /\ log'          = [log EXCEPT ![n] = l]
        /\ progress'     = [progress EXCEPT ![n] = prog]
        /\ recentActive' = [recentActive EXCEPT ![n] = Node]
        /\ pendingReads' = [pendingReads EXCEPT ![n] = {}]
        /\ commitIndex'  = [commitIndex EXCEPT ![n] = commit]
        /\ Exchange(m, BroadcastAppend(n, l, commit, prog, NoContext))
        /\ leaderships' = leaderships \cup
              {[node |-> n, term |-> currentTerm[n]]}

\* Mutant of OnVoteResponse: a refusal is counted as well.
OnAnyVoteResponse(m) ==
    LET n == m.to
        counted == votes[n] \cup {m.from}
    IN  /\ Receives(m, "RequestVoteResponse")
        /\ \/ StepDownOnNewerTerm(m)
           \/ /\ role[n] = "Candidate" /\ m.term = currentTerm[n]
              /\ \/ IsQuorum(counted) /\ BecomeLeader(n, m)
                 \/ /\ ~IsQuorum(counted)
                    /\ votes' = [votes EXCEPT ![n] = counted]
                    /\ Exchange(m, {})
                    /\ UNCHANGED <<commitIndex, log, role, leaderId,
                                   leaderVars, leaderships>>
              /\ UNCHANGED <<currentTerm, votedFor, base, campaignTerm,
                             processVars, ballots>>

OnVoteResponse(m) ==
    LET n == m.to
        counted == votes[n] \cup {m.from}
    IN  /\ Receives(m, "RequestVoteResponse")
        /\ \/ StepDownOnNewerTerm(m)
           \/ /\ role[n] = "Candidate" /\ m.term = currentTerm[n] /\ m.granted
              /\ \/ IsQuorum(counted) /\ BecomeLeader(n, m)
                 \/ /\ ~IsQuorum(counted)
                    /\ votes' = [votes EXCEPT ![n] = counted]
                    /\ Exchange(m, {})
                    /\ UNCHANGED <<commitIndex, log, role, leaderId,
                                   leaderVars, leaderships>>
              /\ UNCHANGED <<currentTerm, votedFor, base, campaignTerm,
                             processVars, ballots>>

-----------------------------------------------------------------------------
(***************************************************************************)
(* Log replication.                                                        *)
(***************************************************************************)

ValidEntrySequence(m) ==
    \A i \in 1 .. Len(m.entries) :
        /\ m.entries[i].term <= m.term
        /\ m.entries[i].term >= IF i = 1 THEN m.prevTerm
                                ELSE m.entries[i - 1].term

\* The previous entry is present with the leader's term, and the entries can
\* follow it.
AcceptsAppend(l, b, m) ==
    /\ b <= m.prev
    /\ TermAt(l, b, m.prev) = m.prevTerm
    /\ ValidEntrySequence(m)

\* Where the follower's log stops agreeing with the message, as an index and
\* a term for the leader to skip to.
AppendConflict(l, b, m) ==
    LET local == TermAt(l, b, m.prev)
    IN  CASE m.prev < b -> [index |-> b + 1, term |-> TermAt(l, b, b)]
          [] m.prev >= b /\ local = NoTerm ->
                 [index |-> LastIndex(l) + 1, term |-> NoTerm]
          [] m.prev >= b /\ local # NoTerm /\ local # m.prevTerm ->
                 [index |-> FirstIndexOfTerm(l, b, m.prev), term |-> local]
          [] OTHER -> [index |-> m.prev + 1, term |-> NoTerm]

\* Positions of the message whose entry the log lacks or holds with another
\* term.  The first one is where the log is cut and extended.
ChangedPositions(l, b, m) ==
    {i \in 1 .. Len(m.entries) :
        TermAt(l, b, m.prev + i) # m.entries[i].term}

\* Mutant of MergedLog: every message cuts the log behind it.
CutLog(l, b, m) == TruncateAndAppend(l, m.prev + 1, m.entries)

MergedLog(l, b, m) ==
    LET changed == ChangedPositions(l, b, m)
    IN  IF changed = {} THEN l
        ELSE TruncateAndAppend(l, m.prev + Min(changed),
                 SubSeq(m.entries, Min(changed), Len(m.entries)))

\* Mutant of ReplacesCommitted: entries that are not committed count as well.
ReplacesAny(n, m) ==
    LET changed == ChangedPositions(log[n], base[n], m)
    IN  changed # {} /\ m.prev + Min(changed) <= LastIndex(log[n])

\* The first changed entry is one the node already holds as committed.
ReplacesCommitted(n, m) ==
    LET changed == ChangedPositions(log[n], base[n], m)
    IN  changed # {} /\ m.prev + Min(changed) <= commitIndex[n]

\* The follower's commit index after the entries are in log l.
FollowerCommit(commit, l, m) ==
    Larger(commit, Smaller(m.commit, LastIndex(l)))

AppendReply(n, m, success, match, conflict) ==
    [type |-> "AppendEntriesResponse", from |-> n, to |-> m.from,
     term |-> Larger(currentTerm[n], m.term), success |-> success,
     match |-> match, conflictIndex |-> conflict.index,
     conflictTerm |-> conflict.term, context |-> m.context]

\* on_append_entries from a leader of an earlier term.
OnStaleAppendEntries(m) ==
    LET n == m.to
    IN  /\ Receives(m, "AppendEntries")
        /\ m.term < currentTerm[n]
        /\ Exchange(m,
              {AppendReply(n, m, FALSE, 0, [index |-> LastIndex(log[n]) + 1,
                                            term |-> NoTerm])})
        /\ UNCHANGED <<durableVars, roleVars, leaderVars, processVars,
                       historyVars>>

\* on_append_entries from the current leader: a rejection with a hint, or the
\* merged log, the commit index that follows from it, and an acknowledgement.
OnAppendEntries(m) ==
    LET n == m.to
        l == MergedLog(log[n], base[n], m)
    IN  /\ Receives(m, "AppendEntries")
        /\ m.term >= currentTerm[n]
        /\ BecomeFollower(n, m.term, m.from)
        /\ \/ /\ ~AcceptsAppend(log[n], base[n], m)
              /\ Exchange(m, {AppendReply(n, m, FALSE, 0,
                                  AppendConflict(log[n], base[n], m))})
              /\ UNCHANGED <<log, commitIndex, fenced>>
           \/ /\ AcceptsAppend(log[n], base[n], m)
              /\ IF ReplacesCommitted(n, m)
                 THEN /\ fenced' = [fenced EXCEPT ![n] = TRUE]
                      /\ Exchange(m, {})
                      /\ UNCHANGED <<log, commitIndex>>
                 ELSE /\ log' = [log EXCEPT ![n] = l]
                      /\ commitIndex' = [commitIndex EXCEPT ![n] =
                                             FollowerCommit(@, l, m)]
                      /\ Exchange(m,
                            {AppendReply(n, m, TRUE, m.prev + Len(m.entries),
                                         [index |-> 0, term |-> NoTerm])})
                      /\ UNCHANGED fenced
        /\ UNCHANGED <<base, incoming, nextRead, historyVars>>


\* A reply acknowledges the read context it echoes; a read acknowledged by a
\* quorum is answered and forgotten.
AcknowledgedReads(n, m) ==
    LET acked == {IF r.context = m.context
                  THEN [r EXCEPT !.acks = @ \cup {m.from}] ELSE r :
                      r \in pendingReads[n]}
    IN  {r \in acked : r.context = m.context => ~IsQuorum(r.acks)}

\* The peer's progress after a rejection: the leader's last entry of the
\* conflicting term, or the index hinted, but always a step back.
BackedOff(n, m) ==
    LET held == IF m.conflictTerm = NoTerm THEN NoTerm
                ELSE LastIndexOfTerm(log[n], base[n], m.conflictTerm)
        hint == Larger(IF held = NoTerm THEN m.conflictIndex ELSE held + 1, 1)
        pr == progress[n][m.from]
    IN  [match |-> pr.match, next |-> Smaller(hint, Larger(pr.next - 1, 1)),
         offset |-> 0]

Matched(n, m) ==
    LET pr == progress[n][m.from]
    IN  [match |-> Larger(pr.match, m.match),
         next |-> Larger(pr.next, m.match + 1), offset |-> 0]

OnAppendResponse(m) ==
    LET n == m.to
        pr == IF m.success THEN Matched(n, m) ELSE BackedOff(n, m)
        prog == [progress[n] EXCEPT ![m.from] = pr]
        commit == IF m.success THEN AdvanceLeaderCommit(n, log[n], prog)
                  ELSE commitIndex[n]
    IN  /\ Receives(m, "AppendEntriesResponse")
        /\ \/ StepDownOnNewerTerm(m)
           \/ /\ role[n] = "Leader" /\ m.term = currentTerm[n]
              /\ recentActive' = [recentActive EXCEPT ![n] = @ \cup {m.from}]
              /\ pendingReads' = [pendingReads EXCEPT ![n] =
                                      AcknowledgedReads(n, m)]
              /\ progress' = [progress EXCEPT ![n] = prog]
              /\ commitIndex' = [commitIndex EXCEPT ![n] = commit]
              /\ Exchange(m,
                    IF m.success /\ m.match >= LastIndex(log[n]) THEN {}
                    ELSE {SendAppend(n, m.from, log[n], commit, pr, NoContext)})
              /\ UNCHANGED <<currentTerm, votedFor, log, base, roleVars,
                             processVars, historyVars>>

\* Mutant of Propose: a node that does not lead appends the command too.
ProposeAnywhere(n, command) ==
    LET l == Append(log[n], [term |-> currentTerm[n], payload |-> command])
    IN  /\ ~fenced[n] /\ LastIndex(log[n]) < MaxIndex
        /\ log' = [log EXCEPT ![n] = l]
        /\ UNCHANGED <<currentTerm, votedFor, commitIndex, base, roleVars,
                       leaderVars, processVars, msgs, historyVars>>

\* Only a leader accepts a command; the proposal of another node is refused
\* without a change of state.
Propose(n, command) ==
    LET l == Append(log[n], [term |-> currentTerm[n], payload |-> command])
        prog == [progress[n] EXCEPT ![n] =
                     [match |-> Len(l), next |-> Len(l) + 1,
                      offset |-> @.offset]]
        commit == AdvanceLeaderCommit(n, l, prog)
    IN  /\ ~fenced[n] /\ role[n] = "Leader" /\ LastIndex(log[n]) < MaxIndex
        /\ log' = [log EXCEPT ![n] = l]
        /\ progress' = [progress EXCEPT ![n] = prog]
        /\ commitIndex' = [commitIndex EXCEPT ![n] = commit]
        /\ msgs' = msgs \cup BroadcastAppend(n, l, commit, prog, NoContext)
        /\ UNCHANGED <<currentTerm, votedFor, base, roleVars, recentActive,
                       pendingReads, processVars, historyVars>>

-----------------------------------------------------------------------------
(***************************************************************************)
(* Linearizable reads.                                                     *)
(***************************************************************************)

\* The highest index any node knows to be committed.  A read records it on
\* arrival, for the properties only: it must not be answered below it.
HighestCommit == Max({commitIndex[n] : n \in Node})

\* A leader numbers the read, and unless no entry of its own term is
\* committed yet, asks every peer to confirm that it still leads.
ReadIndex(n) ==
    LET context == <<n, nextRead[n]>>
        ready == TermAt(log[n], base[n], commitIndex[n]) = currentTerm[n]
    IN  /\ ~fenced[n] /\ role[n] = "Leader" /\ nextRead[n] <= MaxReads
        /\ nextRead' = [nextRead EXCEPT ![n] = @ + 1]
        /\ IF ready
           THEN /\ pendingReads' = [pendingReads EXCEPT ![n] = @ \cup
                       {[context |-> context, index |-> commitIndex[n],
                         acks |-> {n}, floor |-> HighestCommit]}]
                /\ msgs' = msgs \cup BroadcastAppend(n, log[n], commitIndex[n],
                                                     progress[n], context)
           ELSE UNCHANGED <<pendingReads, msgs>>
        /\ UNCHANGED <<durableVars, roleVars, progress, recentActive,
                       incoming, fenced, historyVars>>

-----------------------------------------------------------------------------
(***************************************************************************)
(* Snapshots.                                                              *)
(***************************************************************************)

\* Mutant of SnapshotBuilt: entries that are not committed are compacted too.
SnapshotBuiltAhead(n, index) ==
    /\ n \in Snapshotters /\ ~fenced[n]
    /\ index \in base[n] .. LastIndex(log[n])
    /\ base' = [base EXCEPT ![n] = index]
    /\ UNCHANGED <<currentTerm, votedFor, commitIndex, log, roleVars,
                   leaderVars, processVars, msgs, historyVars>>

\* The state machine reports a checkpoint of an applied prefix; the log is
\* compacted up to it.
SnapshotBuilt(n, index) ==
    /\ n \in Snapshotters /\ ~fenced[n]
    /\ index \in base[n] .. commitIndex[n]
    /\ base' = [base EXCEPT ![n] = index]
    /\ UNCHANGED <<currentTerm, votedFor, commitIndex, log, roleVars,
                   leaderVars, processVars, msgs, historyVars>>

\* Mutant of SnapshotReply: any accepted chunk is reported as the last one.
SnapshotReplyEarly(n, m, accepted, next, done, match) ==
    [type |-> "InstallSnapshotResponse", from |-> n, to |-> m.from,
     term |-> Larger(currentTerm[n], m.term), accepted |-> accepted,
     next |-> next, done |-> accepted, match |-> Len(m.snapshot)]

SnapshotReply(n, m, accepted, next, done, match) ==
    [type |-> "InstallSnapshotResponse", from |-> n, to |-> m.from,
     term |-> Larger(currentTerm[n], m.term), accepted |-> accepted,
     next |-> next, done |-> done, match |-> match]

OnStaleInstallSnapshot(m) ==
    LET n == m.to
    IN  /\ Receives(m, "InstallSnapshot")
        /\ m.term < currentTerm[n]
        /\ Exchange(m, {SnapshotReply(n, m, FALSE, 0, FALSE, 0)})
        /\ UNCHANGED <<durableVars, roleVars, leaderVars, processVars,
                       historyVars>>

\* Mutant of InstalledLog: a log as long as the snapshot is kept unseen.
InstalledOverAnyLog(l, b, snapshot) ==
    IF Len(snapshot) <= LastIndex(l) THEN l ELSE snapshot

\* The log around an installed snapshot: entries after it survive only if the
\* log already held the snapshot's last entry.
InstalledLog(l, b, snapshot) ==
    IF TermAt(l, b, Len(snapshot)) = LastTerm(snapshot)
    THEN snapshot \o SubSeq(l, Len(snapshot) + 1, Len(l))
    ELSE snapshot

\* A chunk at offset 0 of another snapshot starts a new transfer.
Transfer(n, m) ==
    IF m.offset = 0 /\ incoming[n].snapshot # m.snapshot
    THEN [snapshot |-> m.snapshot, next |-> 0] ELSE incoming[n]

(***************************************************************************)
(* One chunk of the current leader's snapshot.  A chunk of a snapshot that *)
(* is already applied, of another transfer, or out of order is answered    *)
(* without using it; the last chunk installs the snapshot.                 *)
(***************************************************************************)
OnInstallSnapshot(m) ==
    LET n == m.to
        index == Len(m.snapshot)
        transfer == Transfer(n, m)
        applied == index <= commitIndex[n]
        fits == /\ ~applied
                /\ transfer.snapshot = m.snapshot /\ m.offset = transfer.next
        got == Smaller(m.offset + 1, Chunks)
    IN  /\ Receives(m, "InstallSnapshot")
        /\ m.term >= currentTerm[n]
        /\ BecomeFollower(n, m.term, m.from)
        /\ \/ /\ applied
              /\ Exchange(m, {SnapshotReply(n, m, TRUE, Chunks, TRUE, index)})
              /\ UNCHANGED <<commitIndex, log, base, incoming>>
           \/ /\ ~applied /\ ~fits
              /\ Exchange(m,
                    {IF transfer.snapshot # m.snapshot
                     THEN SnapshotReply(n, m, FALSE, 0, FALSE, 0)
                     ELSE SnapshotReply(n, m, m.offset < transfer.next,
                                        transfer.next, FALSE, 0)})
              /\ UNCHANGED <<commitIndex, log, base, incoming>>
           \/ /\ fits /\ ~m.done
              /\ incoming' = [incoming EXCEPT ![n] =
                                  [snapshot |-> m.snapshot, next |-> got]]
              /\ Exchange(m, {SnapshotReply(n, m, TRUE, got, FALSE, 0)})
              /\ UNCHANGED <<commitIndex, log, base>>
           \/ /\ fits /\ m.done
              /\ incoming' = [incoming EXCEPT ![n] = NoTransfer]
              /\ log' = [log EXCEPT ![n] = InstalledLog(@, base[n], m.snapshot)]
              /\ base' = [base EXCEPT ![n] = index]
              /\ commitIndex' = [commitIndex EXCEPT ![n] = Larger(@, index)]
              /\ Exchange(m, {SnapshotReply(n, m, TRUE, Chunks, TRUE, index)})
        /\ UNCHANGED <<fenced, nextRead, historyVars>>

OnSnapshotResponse(m) ==
    LET n == m.to
        installed == m.done /\ m.accepted
        pr == IF installed THEN Matched(n, m)
              ELSE [progress[n][m.from] EXCEPT !.offset =
                        IF m.accepted THEN m.next ELSE 0]
        prog == [progress[n] EXCEPT ![m.from] = pr]
        commit == IF installed THEN AdvanceLeaderCommit(n, log[n], prog)
                  ELSE commitIndex[n]
    IN  /\ Receives(m, "InstallSnapshotResponse")
        /\ \/ StepDownOnNewerTerm(m)
           \/ /\ role[n] = "Leader" /\ m.term = currentTerm[n]
              /\ recentActive' = [recentActive EXCEPT ![n] = @ \cup {m.from}]
              /\ progress' = [progress EXCEPT ![n] = prog]
              /\ commitIndex' = [commitIndex EXCEPT ![n] = commit]
              /\ Exchange(m, {SendAppend(n, m.from, log[n], commit, pr,
                                         NoContext)})
              /\ UNCHANGED <<currentTerm, votedFor, log, base, roleVars,
                             pendingReads, processVars, historyVars>>

-----------------------------------------------------------------------------
(***************************************************************************)
(* Crashes.  recover starts a follower from the durable state.             *)
(***************************************************************************)

Recover(n) ==
    /\ StepDown(n, NoNode)
    /\ incoming' = [incoming EXCEPT ![n] = NoTransfer]
    /\ fenced'   = [fenced EXCEPT ![n] = FALSE]
    /\ nextRead' = [nextRead EXCEPT ![n] = 1]
    /\ UNCHANGED historyVars

\* Between two batches (or after the sends of one were cut short).
Restart(n) ==
    /\ "crash" \in Faults
    /\ Recover(n)
    /\ UNCHANGED <<durableVars, msgs>>

\* After the later term of a request is persisted and before anything else of
\* the batch is: the vote, the entries or the snapshot.
RestartAfterTerm(m) ==
    LET n == m.to
    IN  /\ "crash after term" \in Faults
        /\ m.type \in {"RequestVote", "AppendEntries", "InstallSnapshot"}
        /\ ~fenced[n] /\ m.term > currentTerm[n]
        /\ AdoptTerm(n, m.term)
        /\ Recover(n)
        /\ Exchange(m, {})
        /\ UNCHANGED <<commitIndex, log, base>>

\* After the entries of an AppendEntries are persisted and before the commit
\* index is.
RestartAfterLog(m) ==
    LET n == m.to
    IN  /\ "crash after log" \in Faults
        /\ Receives(m, "AppendEntries") /\ m.term >= currentTerm[n]
        /\ AcceptsAppend(log[n], base[n], m) /\ ~ReplacesCommitted(n, m)
        /\ ChangedPositions(log[n], base[n], m) # {}
        /\ AdoptTerm(n, m.term)
        /\ log' = [log EXCEPT ![n] = MergedLog(@, base[n], m)]
        /\ Recover(n)
        /\ Exchange(m, {})
        /\ UNCHANGED <<commitIndex, base>>

-----------------------------------------------------------------------------
(***************************************************************************)
(* The network drops a message: the peer is down, the connection breaks or *)
(* the receiver's queue is full.                                           *)
(***************************************************************************)
Lose(m) ==
    /\ "loss" \in Faults
    /\ msgs' = msgs \ {m}
    /\ UNCHANGED <<durableVars, roleVars, leaderVars, processVars, historyVars>>

Deliver(m) ==
    \/ OnPreVoteRequest(m)
    \/ OnPreVoteResponse(m)
    \/ OnVoteRequest(m)
    \/ OnVoteResponse(m)
    \/ OnStaleAppendEntries(m)
    \/ OnAppendEntries(m)
    \/ OnAppendResponse(m)
    \/ OnStaleInstallSnapshot(m)
    \/ OnInstallSnapshot(m)
    \/ OnSnapshotResponse(m)
    \/ RestartAfterTerm(m)
    \/ RestartAfterLog(m)

Next ==
    \/ \E n \in Node : \/ ElectionTick(n)
                       \/ HeartbeatTick(n)
                       \/ CheckQuorumTick(n)
                       \/ ReadIndex(n)
                       \/ Restart(n)
    \/ \E n \in Node, c \in Command : Propose(n, c)
    \/ \E n \in Node : \E i \in 1 .. LastIndex(log[n]) : SnapshotBuilt(n, i)
    \/ \E m \in msgs : Deliver(m) \/ Lose(m)

Spec == Init /\ [][Next]_vars
=============================================================================
