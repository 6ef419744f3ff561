--------------------------- MODULE RaftInvariants ---------------------------
(***************************************************************************)
(* The inductive invariants behind the theorems about RaftNode, in the     *)
(* order in which they rest on one another: types, elections, logs that    *)
(* match, commitment.  The last two are proved against five kinds of       *)
(* steps, which say what a step can do to the logs, the terms, the roles   *)
(* and the network.                                                        *)
(***************************************************************************)
EXTENDS RaftProperties

-----------------------------------------------------------------------------
(***************************************************************************)
(* The inductive invariant behind the types: what each group of variables  *)
(* and every message in flight satisfies.                                  *)
(***************************************************************************)
DurableOK ==
    /\ currentTerm  \in [Node -> Nat]
    /\ votedFor     \in [Node -> Node \cup {NoNode}]
    /\ commitIndex  \in [Node -> Nat]
    /\ log          \in [Node -> Seq(Entry)]
    /\ base         \in [Node -> Nat]
    /\ DurableStateRecoverable

\* A leader never lets next_index of a peer fall below 1.
VolatileOK ==
    /\ role         \in [Node -> Role]
    /\ leaderId     \in [Node -> Node \cup {NoNode}]
    /\ campaignTerm \in [Node -> Nat \cup {NoTerm}]
    /\ votes        \in [Node -> SUBSET Node]
    /\ progress     \in [Node -> [Node -> ProgressRecord]]
    /\ recentActive \in [Node -> SUBSET Node]
    /\ pendingReads \in [Node -> SUBSET PendingRead]
    /\ \A n \in Node : role[n] = "Leader" =>
           \A p \in Node : progress[n][p].next >= 1

ProcessOK ==
    /\ incoming     \in [Node -> [snapshot : Seq(Entry), next : Nat]]
    /\ fenced       \in [Node -> BOOLEAN]
    /\ nextRead     \in [Node -> Nat]

HistoryOK ==
    /\ ballots \subseteq [voter : Node, candidate : Node, term : Nat]
    /\ leaderships \subseteq [node : Node, term : Nat]

\* A snapshot in flight is as well ordered as the log it was taken from.
WellFormed(m) ==
    /\ m \in Message /\ m.from # m.to
    /\ m.type = "InstallSnapshot" =>
           Sorted(m.snapshot) /\ NoFutureTerm(m.snapshot, m.term)

MessagesOK == \A m \in msgs : WellFormed(m)

TypeInv == DurableOK /\ VolatileOK /\ ProcessOK /\ HistoryOK /\ MessagesOK

\* A pre-candidate campaigns for a term later than its own.
CampaignOK ==
    \A n \in Node : role[n] = "PreCandidate" => campaignTerm[n] > currentTerm[n]

-----------------------------------------------------------------------------
(***************************************************************************)
(* Elections.  The invariant follows a vote from the voter's durable state *)
(* through the response in flight to the votes a candidate has counted, and *)
(* a leadership from the quorum that granted it to the messages sent in its *)
(* name.                                                                   *)
(***************************************************************************)

Ballot(v, c, t) == [voter |-> v, candidate |-> c, term |-> t]
Leads(n, t) == [node |-> n, term |-> t] \in leaderships

\* current_term and voted_for remember the latest vote of a node.
BallotsOK ==
    /\ \A b \in ballots :
           /\ b.term <= currentTerm[b.voter]
           /\ b.term = currentTerm[b.voter] => votedFor[b.voter] = b.candidate
    /\ OneVotePerTerm

\* A quorum voted for every leader in its term.
LeadershipsOK ==
    \A a \in leaderships : \E Q \in SUBSET Node :
        /\ IsQuorum(Q)
        /\ \A v \in Q : Ballot(v, a.node, a.term) \in ballots

\* A granted response stands for a vote cast; an append or a snapshot chunk
\* comes from the leader of its term.
Backed(m) ==
    /\ m.type = "RequestVoteResponse" /\ m.granted =>
           Ballot(m.from, m.to, m.term) \in ballots
    /\ m.type \in {"AppendEntries", "InstallSnapshot"} => Leads(m.from, m.term)

RoleBacked(n) ==
    /\ role[n] = "Candidate" =>
           \A v \in votes[n] : Ballot(v, n, currentTerm[n]) \in ballots
    /\ role[n] = "Leader" => Leads(n, currentTerm[n])
    /\ role[n] = "PreCandidate" => leaderId[n] = NoNode
    /\ leaderId[n] # NoNode => Leads(leaderId[n], currentTerm[n])

ElectionInv ==
    /\ BallotsOK
    /\ LeadershipsOK
    /\ \A m \in msgs : Backed(m)
    /\ \A n \in Node : RoleBacked(n)

-----------------------------------------------------------------------------
(***************************************************************************)
(* Pieces of logs.  A node's log, the entries of an AppendEntries and the  *)
(* content of a snapshot chunk are all fragments of some leader's log:     *)
(* entries at consecutive indexes, and the term of the index before the    *)
(* first.                                                                  *)
(***************************************************************************)

Fragment == [prev : Nat, prevTerm : Nat, entries : Seq(Entry)]

\* The indexes a fragment has an entry for, and those it knows the term of.
LastOf(f) == f.prev + Len(f.entries)
In(f) == f.prev + 1 .. LastOf(f)
Known(f) == f.prev .. LastOf(f)

EntryIn(f, i) == f.entries[i - f.prev]
TermIn(f, i) == IF i = f.prev THEN f.prevTerm ELSE EntryIn(f, i).term

\* A whole log, and what a leader's message carries.
Whole(l) == [prev |-> 0, prevTerm |-> 0, entries |-> l]

Carried(m) ==
    IF m.type = "InstallSnapshot" THEN Whole(m.snapshot)
    ELSE [prev |-> m.prev, prevTerm |-> m.prevTerm, entries |-> m.entries]

\* f is a piece of g.
Part(f, g) ==
    /\ Known(f) \subseteq Known(g) /\ In(f) \subseteq In(g)
    /\ \A i \in In(f) : EntryIn(f, i) = EntryIn(g, i)
    /\ \A i \in Known(f) : TermIn(f, i) = TermIn(g, i)

(***************************************************************************)
(* Entries of one term come from one leader's log.  So where f has an      *)
(* entry of some term, and g one of the same term there or further on, the *)
(* two agree up to the first, and g holds nothing but that term in         *)
(* between.                                                                *)
(***************************************************************************)
Coherent(f, g) ==
    \A k \in In(f), j \in In(g) :
        k <= j /\ TermIn(f, k) = TermIn(g, j) =>
            /\ \A i \in In(f) :
                   i \in In(g) /\ i <= k => EntryIn(f, i) = EntryIn(g, i)
            /\ \A i \in Known(f) :
                   i \in Known(g) /\ i <= k => TermIn(f, i) = TermIn(g, i)
            /\ \A i \in Known(g) :
                   k <= i /\ i <= j => TermIn(g, i) = TermIn(g, j)

Match(f, g) == Coherent(f, g) /\ Coherent(g, f)

-----------------------------------------------------------------------------
(***************************************************************************)
(* Kinds of steps: a node changes no log (Quiet), a leader sends and counts *)
(* (Leading), a leader appends (Proposing), a candidate wins and appends   *)
(* (Winning), a node takes over what a leader sent (Following).            *)
(***************************************************************************)

\* What a leader of log l and commit index c may send.
LeaderMessage(n, l, c, x) ==
    /\ x.type \in {"AppendEntries", "InstallSnapshot"}
    /\ x.from = n /\ x.term = currentTerm[n]
    /\ Part(Carried(x), Whole(l))
    /\ x.type = "AppendEntries" =>
           /\ x.commit = c
           /\ Len(x.entries) < MAX_APPEND_ENTRIES =>
                  x.prev + Len(x.entries) = Len(l)
    /\ x.type = "InstallSnapshot" => Len(x.snapshot) = base[n]

FromLeader(x) == x.type \in {"AppendEntries", "InstallSnapshot"}

\* A reply that makes the leader raise the match index of its sender.
IsAck(x) ==
    \/ x.type = "AppendEntriesResponse" /\ x.success
    \/ x.type = "InstallSnapshotResponse" /\ x.done /\ x.accepted

\* A message that no invariant on the logs is about.
Plain(x) == ~ FromLeader(x) /\ ~ IsAck(x) /\ x.type # "RequestVote"

\* Nobody but n changes.
Others(n) ==
    \A k \in Node : k # n =>
        /\ currentTerm'[k] = currentTerm[k] /\ role'[k] = role[k]
        /\ log'[k] = log[k] /\ commitIndex'[k] = commitIndex[k]
        /\ progress'[k] = progress[k]

\* n asks for votes with the log it has.
Asking(n, x) ==
    /\ x.type = "RequestVote" /\ x.from = n /\ x.term = currentTerm'[n]
    /\ x.lastIndex = Len(log[n]) /\ x.lastTerm = LastTerm(log[n])

\* n votes for itself, or for a candidate whose log is up to date.
Voting(n, b) ==
    /\ b.voter = n /\ b.term = currentTerm'[n]
    /\ \/ b.candidate = n /\ currentTerm[n] < currentTerm'[n]
       \/ \E m \in msgs : /\ m.type = "RequestVote"
                          /\ m.from = b.candidate /\ m.term = b.term
                          /\ CandidateLogIsUpToDate(n, m)

Quiet(n) ==
    /\ Others(n)
    /\ log'[n] = log[n] /\ commitIndex'[n] = commitIndex[n]
    /\ currentTerm[n] <= currentTerm'[n]
    /\ role'[n] = "Leader" =>
           /\ role[n] = "Leader" /\ currentTerm'[n] = currentTerm[n]
           /\ progress'[n] = progress[n]
    /\ role'[n] = "Candidate" =>
           \/ role[n] = "Candidate" /\ currentTerm'[n] = currentTerm[n]
           \/ currentTerm[n] < currentTerm'[n]
    /\ leaderships' = leaderships
    /\ ballots \subseteq ballots'
    /\ \A b \in ballots' : b \in ballots \/ Voting(n, b)
    /\ \A x \in msgs' : x \in msgs \/ Plain(x) \/ Asking(n, x)

\* commit is where n was, or an index of its own term that a quorum matches.
Advances(n, l, commit) ==
    \/ commit = commitIndex[n]
    \/ /\ commit > commitIndex[n] /\ commit \in 1 .. Len(l)
       /\ l[commit].term = currentTerm[n]
       /\ \E Q \in SUBSET Node :
              /\ IsQuorum(Q)
              /\ \A v \in Q : progress'[n][v].match >= commit

Leading(n) ==
    /\ Others(n)
    /\ role[n] = "Leader" /\ role'[n] = "Leader"
    /\ currentTerm'[n] = currentTerm[n] /\ log'[n] = log[n]
    /\ leaderships' = leaderships /\ ballots' = ballots
    /\ \A v \in Node :
           \/ progress'[n][v].match = progress[n][v].match
           \/ \E r \in msgs : /\ IsAck(r) /\ r.from = v /\ r.to = n
                              /\ r.term = currentTerm[n]
                              /\ r.match = progress'[n][v].match
    /\ Advances(n, log[n], commitIndex'[n])
    /\ \A x \in msgs' : \/ x \in msgs
                        \/ LeaderMessage(n, log[n], commitIndex'[n], x)

\* What Proposing and Winning share: n appends an entry of its term, counts
\* itself, and sends from the new log.
Appending(n) ==
    /\ Others(n)
    /\ role'[n] = "Leader" /\ currentTerm'[n] = currentTerm[n]
    /\ \E e \in Entry : e.term = currentTerm[n] /\ log'[n] = Append(log[n], e)
    /\ progress'[n][n].match = Len(log[n]) + 1
    /\ ballots' = ballots
    /\ Advances(n, log'[n], commitIndex'[n])
    /\ \A x \in msgs' : \/ x \in msgs
                        \/ LeaderMessage(n, log'[n], commitIndex'[n], x)

Proposing(n) ==
    /\ Appending(n) /\ role[n] = "Leader"
    /\ \A v \in Node : v # n => progress'[n][v].match = progress[n][v].match
    /\ leaderships' = leaderships

Winning(n) ==
    /\ Appending(n) /\ role[n] = "Candidate"
    /\ \A v \in Node : v # n => progress'[n][v].match = 0
    /\ leaderships' = leaderships \cup {[node |-> n, term |-> currentTerm[n]]}

\* The log and the commit index of n once it has taken over m.
TakesAppend(n, m) ==
    /\ m \in AppendEntries
    /\ AcceptsAppend(log[n], base[n], m) /\ ~ ReplacesCommitted(n, m)
    /\ log'[n] = MergedLog(log[n], base[n], m)
    /\ commitIndex'[n] \in {commitIndex[n],
                            FollowerCommit(commitIndex[n], log'[n], m)}

TakesSnapshot(n, m) ==
    /\ m \in InstallSnapshot
    /\ \/ /\ Len(m.snapshot) <= commitIndex[n]
          /\ log'[n] = log[n] /\ commitIndex'[n] = commitIndex[n]
       \/ /\ Len(m.snapshot) > commitIndex[n]
          /\ log'[n] = InstalledLog(log[n], base[n], m.snapshot)
          /\ commitIndex'[n] = Len(m.snapshot)

\* n tells the sender of m that it holds all that m carries.
Acking(n, m, x) ==
    /\ IsAck(x) /\ ~ FromLeader(x)
    /\ x.from = n /\ x.to = m.from /\ x.term = m.term
    /\ x.match = LastOf(Carried(m))

Following(n, m) ==
    /\ Others(n)
    /\ m \in msgs /\ FromLeader(m) /\ m.to = n
    /\ currentTerm[n] <= m.term /\ currentTerm'[n] = m.term
    /\ role'[n] = "Follower"
    /\ leaderships' = leaderships /\ ballots' = ballots
    /\ TakesAppend(n, m) \/ TakesSnapshot(n, m)
    /\ \A x \in msgs' : x \in msgs \/ Plain(x) \/ Acking(n, m, x)

\* The kinds, with the node they are about.
Step(n) ==
    \/ Quiet(n) \/ Leading(n) \/ Proposing(n) \/ Winning(n)
    \/ \E m \in msgs : Following(n, m)

-----------------------------------------------------------------------------
(***************************************************************************)
(* Logs match.  The invariant speaks of every fragment of a log that exists *)
(* anywhere, on a disk or in a message, and ties the entries of a term to  *)
(* the one leader of that term.                                            *)
(***************************************************************************)

\* Any two quorums share a voter (RaftTheorems proves it of IsQuorum).
QuorumsMeet ==
    \A Q, R \in SUBSET Node : IsQuorum(Q) /\ IsQuorum(R) => \E v \in Q : v \in R

\* Every log, and what every message of a leader carries.
Fragments ==
    {Whole(log[n]) : n \in Node} \cup
    {Carried(m) : m \in {x \in msgs : FromLeader(x)}}

Coherence == \A f, g \in Fragments : Coherent(f, g)

\* A leader holds every entry of its term that exists.
LeaderOwn ==
    \A n \in Node : role[n] = "Leader" => \A f \in Fragments : \A i \in In(f) :
        TermIn(f, i) = currentTerm[n] =>
            /\ i \in In(Whole(log[n]))
            /\ TermIn(Whole(log[n]), i) = currentTerm[n]

\* There are entries of a term only if somebody led it.
EntriesLed ==
    \A f \in Fragments : \A i \in In(f) : \E n \in Node : Leads(n, TermIn(f, i))

\* Who asks for votes in its term still has the log it asked with.
VotesSent ==
    /\ \A m \in msgs : m.type = "RequestVote" =>
           /\ m.term <= currentTerm[m.from]
           /\ role[m.from] = "Candidate" /\ currentTerm[m.from] = m.term =>
                  /\ m.lastIndex = Len(log[m.from])
                  /\ m.lastTerm = LastTerm(log[m.from])
    /\ \A b \in ballots : b.term <= currentTerm[b.candidate]

\* A candidate has not led its term.
CandidateNew ==
    \A n \in Node : role[n] = "Candidate" => ~ Leads(n, currentTerm[n])

MatchInv == Coherence /\ LeaderOwn /\ EntriesLed /\ VotesSent /\ CandidateNew

\* What the invariants of elections and types give in both states of a step.
Settled == TypeInv /\ ElectionInv /\ ElectionSafety

-----------------------------------------------------------------------------
(***************************************************************************)
(* Commitment.  An index is committed once a quorum holds the leader's log *)
(* up to it.  From then on that log a is anchored: its quorum keeps it,    *)
(* and whoever ends up with a later term at the end of its log, is voted   *)
(* for by a member of the quorum in a later term, or speaks for a leader   *)
(* of a later term, holds a as well.                                       *)
(***************************************************************************)

\* l starts with a; l and k are the same up to index i.
Extends(l, a) == Len(a) <= Len(l) /\ \A i \in 1 .. Len(a) : l[i] = a[i]
SameUpTo(l, k, i) ==
    i <= Len(l) /\ i <= Len(k) /\ \A j \in 1 .. i : l[j] = k[j]

\* A fragment has the terms of a where they overlap, and no earlier term than
\* the last one of a behind it.
Agrees(f, a) ==
    \A i \in Known(f) :
        /\ i <= Len(a) => TermIn(f, i) = TermIn(Whole(a), i)
        /\ i >= Len(a) => TermIn(f, i) >= LastTerm(a)

\* In a later term, the voters of Q hold a.
VotersHold(a, Q) ==
    \A v \in Q : currentTerm[v] > LastTerm(a) => Extends(log[v], a)

\* So does every log that ends in a later term.
LaterHold(a) ==
    \A p \in Node : LastTerm(log[p]) > LastTerm(a) => Extends(log[p], a)

\* No leader of its term or a later one has sent what contradicts it.
SentHold(a) ==
    \A m \in msgs :
        FromLeader(m) /\ m.term >= LastTerm(a) => Agrees(Carried(m), a)

\* Whom a voter of Q has voted for in a later term holds a.
ChosenHold(a, Q) ==
    \A b \in ballots :
        /\ b.voter \in Q /\ b.term > LastTerm(a)
        /\ role[b.candidate] = "Candidate"
        /\ currentTerm[b.candidate] = b.term
        => Extends(log[b.candidate], a)

Supported(a, Q) ==
    VotersHold(a, Q) /\ LaterHold(a) /\ SentHold(a) /\ ChosenHold(a, Q)

\* Somebody holds a.
Held(a) ==
    a \in Seq(Entry) /\ Len(a) >= 1 /\ \E v \in Node : Extends(log[v], a)

Anchor(a, Q) ==
    /\ a \in Seq(Entry) /\ Len(a) >= 1 /\ Q \in SUBSET Node
    /\ IsQuorum(Q) /\ Supported(a, Q)
    /\ \A v \in Q : currentTerm[v] >= LastTerm(a) /\ Extends(log[v], a)

\* v holds the log of leader n up to i, unless v has gone on to a later term.
Holds(n, v, i) ==
    i >= 1 => /\ i <= Len(log[n]) /\ currentTerm[v] >= currentTerm[n]
              /\ currentTerm[v] = currentTerm[n] => SameUpTo(log[v], log[n], i)

\* v has acknowledged index i to leader n.
Acked(n, v, i) ==
    \/ progress[n][v].match >= i
    \/ \E r \in msgs : /\ IsAck(r) /\ r.from = v /\ r.to = n
                       /\ r.term = currentTerm[n] /\ r.match >= i

\* An acknowledgement answers the leader of its term.
AcksLed ==
    \A r \in msgs : IsAck(r) => Leads(r.to, r.term) /\ r.term <= currentTerm[r.from]

\* What a leader has sent is still in its log.
SentParts ==
    \A m \in msgs :
        FromLeader(m) /\ role[m.from] = "Leader" /\ currentTerm[m.from] = m.term =>
            Part(Carried(m), Whole(log[m.from]))

\* What is acknowledged is held.
AcksHold ==
    \A n \in Node : role[n] = "Leader" =>
        /\ \A v \in Node : Holds(n, v, progress[n][v].match)
        /\ \A r \in msgs : IsAck(r) /\ r.to = n /\ r.term = currentTerm[n] =>
               Holds(n, r.from, r.match)

\* The log of a leader ends in its term: it starts with a no-op.
OwnEntry == \A n \in Node : role[n] = "Leader" => LastTerm(log[n]) = currentTerm[n]

\* An entry of a leader's term is supported by whatever quorum has either
\* acknowledged it or is not past the term yet.
Pending ==
    \A n \in Node : role[n] = "Leader" => \A k \in 1 .. Len(log[n]) :
        log[n][k].term = currentTerm[n] => \A Q \in SUBSET Node :
            /\ IsQuorum(Q)
            /\ \A v \in Q : currentTerm[v] <= currentTerm[n] \/ Acked(n, v, k)
            => Supported(SubSeq(log[n], 1, k), Q)

\* What a node knows to be committed is anchored, in a term it has reached.
CommitsBacked ==
    \A p \in Node : commitIndex[p] >= 1 => \E a, Q :
        /\ Anchor(a, Q) /\ LastTerm(a) <= currentTerm[p]
        /\ SameUpTo(log[p], a, commitIndex[p])

\* So is what a message says to be committed.
Covered(i, t) ==
    i >= 1 => \E a, Q : Anchor(a, Q) /\ LastTerm(a) <= t /\ i <= Len(a)

SentBacked ==
    \A m \in msgs :
        /\ m.type = "AppendEntries" => Covered(m.commit, m.term)
        /\ m.type = "InstallSnapshot" => Covered(Len(m.snapshot), m.term)

CommitInv ==
    /\ AcksLed /\ SentParts /\ AcksHold /\ OwnEntry /\ Pending
    /\ CommitsBacked /\ SentBacked

\* The proviso of the theorems on commitment: no AppendEntries announces a
\* commit index past the entries it carries.  send_append caps the entries of
\* a message and not the commit index it announces.
AppendsCoverCommit ==
    \A m \in msgs : m.type = "AppendEntries" => m.commit <= m.prev + Len(m.entries)

\* No AppendEntries was cut at the cap of send_append.
UncutAppends ==
    \A m \in msgs : m.type = "AppendEntries" => Len(m.entries) < MAX_APPEND_ENTRIES
=============================================================================
