-------------------------- MODULE RaftActionProofs --------------------------
(***************************************************************************)
(* What the actions of RaftNode do.  Each keeps TypeInv: one lemma per     *)
(* action; in each, one step per group of variables.  And each is a step   *)
(* of one of five kinds: a node changes no log (Quiet), a leader sends and *)
(* counts (Leading), a leader appends (Proposing), a candidate wins and    *)
(* appends (Winning), a node takes over what a leader sent (Following).    *)
(* The invariants on logs and commitment are proved against the kinds.     *)
(***************************************************************************)
EXTENDS RaftLemmas

-----------------------------------------------------------------------------
(***************************************************************************)
(* The timers, the votes and a leader's own steps keep TypeInv.            *)
(***************************************************************************)

\* What a candidate asks its peers.
LEMMA VoteRequestsOK ==
    ASSUME DurableOK, NEW n \in Node, NEW term \in Nat,
           NEW type \in {"PreVoteRequest", "RequestVote"}
    PROVE  \A x \in {[type |-> type, from |-> n, to |-> p, term |-> term,
                      lastIndex |-> LastIndex(log[n]),
                      lastTerm |-> LastTerm(log[n])] : p \in Peers(n)} :
               WellFormed(x)
<1>1. ASSUME NEW p \in Peers(n)
      PROVE  WellFormed([type |-> type, from |-> n, to |-> p, term |-> term,
                         lastIndex |-> LastIndex(log[n]),
                         lastTerm |-> LastTerm(log[n])])
      <2> DEFINE r == [type |-> type, from |-> n, to |-> p, term |-> term,
                       lastIndex |-> LastIndex(log[n]),
                       lastTerm |-> LastTerm(log[n])]
      <2>1. p \in Node /\ p # n
            BY Zenon DEF Peers
      <2>2. LastIndex(log[n]) \in Nat /\ LastTerm(log[n]) \in Nat
            BY Zenon, NodeDurable, LastTermType DEF LastIndex
      <2>3. r \in VoteRequest
            BY Zenon, <2>1, <2>2 DEF VoteRequest
      <2>4. r.type = type /\ r.from = n /\ r.to = p
            BY Zenon
      <2>   HIDE DEF r
      <2>   QED  BY Zenon, <2>1, <2>3, <2>4 DEF WellFormed, Message, r
<1>   QED  BY Zenon, <1>1

\* start_pre_vote keeps the type invariant.
LEMMA ElectionTickOK ==
    ASSUME TypeInv, NEW n \in Node, ElectionTick(n)
    PROVE  TypeInv'
<1>1. /\ DurableOK' /\ ProcessOK' /\ HistoryOK'
      BY Zenon, Unchanged DEF ElectionTick
<1>2. currentTerm[n] + 1 \in Nat
      BY NodeDurable DEF TypeInv
<1>3. VolatileOK'
      <2>1. /\ role' \in [Node -> Role]
            /\ leaderId' \in [Node -> Node \cup {NoNode}]
            /\ campaignTerm' \in [Node -> Nat \cup {NoTerm}]
            /\ votes' \in [Node -> SUBSET Node]
            BY Zenon, <1>2 DEF TypeInv, VolatileOK, ElectionTick, Role
      <2>2. ASSUME NEW k \in Node, role'[k] = "Leader"
            PROVE  role[k] = "Leader"
            BY Zenon, <2>2 DEF TypeInv, VolatileOK, ElectionTick
      <2>   QED  BY Zenon, <2>1, <2>2 DEF TypeInv, VolatileOK, ElectionTick,
                    leaderVars
<1>4. MessagesOK'
      <2>1. PICK sent : /\ msgs' = msgs \cup sent
                        /\ \A x \in sent : WellFormed(x)
            BY Zenon, <1>2, VoteRequestsOK DEF ElectionTick, TypeInv
      <2>   QED  BY Zenon, <2>1, SentOK DEF TypeInv
<1>   QED  BY Zenon, <1>1, <1>3, <1>4 DEF TypeInv

\* A heartbeat keeps the type invariant.
LEMMA HeartbeatTickOK ==
    ASSUME TypeInv, NEW n \in Node, HeartbeatTick(n)
    PROVE  TypeInv'
<1>1. /\ DurableOK' /\ ProcessOK' /\ HistoryOK' /\ VolatileOK'
      BY Zenon, Unchanged DEF HeartbeatTick
<1>2. MessagesOK'
      <2>1. NoContext \in Context
            BY Zenon DEF Context
      <2>   QED  BY Zenon, <2>1, LeaderBroadcast, SentOK DEF HeartbeatTick,
                    TypeInv
<1>   QED  BY Zenon, <1>1, <1>2 DEF TypeInv

\* A check-quorum tick, passed or failed, keeps the type invariant.
LEMMA CheckQuorumTickOK ==
    ASSUME TypeInv, NEW n \in Node, CheckQuorumTick(n)
    PROVE  TypeInv'
<1>1. /\ DurableOK' /\ ProcessOK' /\ HistoryOK'
      BY Zenon, Unchanged DEF CheckQuorumTick
<1>2. NoContext \in Context
      BY Zenon DEF Context
<1>3. CASE IsQuorum(recentActive[n])
      <2>1. /\ recentActive' = [recentActive EXCEPT ![n] = {n}]
            /\ UNCHANGED <<roleVars, progress, pendingReads>>
            BY Zenon, <1>3 DEF CheckQuorumTick
      <2>2. VolatileOK'
            BY Zenon, <2>1 DEF TypeInv, VolatileOK, roleVars
      <2>3. MessagesOK'
            BY Zenon, <1>2, <1>3, LeaderBroadcast, SentOK DEF CheckQuorumTick,
               TypeInv
      <2>   QED  BY Zenon, <1>1, <2>2, <2>3 DEF TypeInv
<1>4. CASE ~ IsQuorum(recentActive[n])
      <2>1. StepDown(n, NoNode) /\ UNCHANGED msgs
            BY Zenon, <1>4 DEF CheckQuorumTick
      <2>   QED  BY Zenon, <1>1, <2>1, StepDownOK, Unchanged DEF TypeInv
<1>   QED  BY Zenon, <1>3, <1>4

\* The highest commit index of the group is a natural number.
LEMMA HighestCommitType ==
    ASSUME NaturalsWellOrdered, DurableOK, NEW n \in Node
    PROVE  HighestCommit \in Nat
<1> DEFINE S == {commitIndex[k] : k \in Node}
<1>1. commitIndex \in [Node -> Nat]
      BY Zenon DEF DurableOK
<1>2. PICK u \in Nat : \A k \in Node : commitIndex[k] <= u
      BY Zenon, <1>1, VotersBounded
<1>3. S \subseteq Nat /\ S # {} /\ \A i \in S : i <= u
      BY Zenon, <1>1, <1>2
<1>   HIDE DEF S
<1>4. Max(S) \in Nat
      BY Zenon, <1>3, MaxOfNaturals
<1>   QED  BY Zenon, <1>4 DEF HighestCommit, S

\* read_index keeps the type invariant.
LEMMA ReadIndexOK ==
    ASSUME NaturalsWellOrdered, TypeInv, NEW n \in Node, ReadIndex(n)
    PROVE  TypeInv'
<1> DEFINE context == <<n, nextRead[n]>>
           read == [context |-> context, index |-> commitIndex[n],
                    acks |-> {n}, floor |-> HighestCommit]
<1>1. DurableOK' /\ HistoryOK'
      BY Zenon, Unchanged DEF ReadIndex
<1>2. ProcessOK'
      BY DEF TypeInv, ProcessOK, ReadIndex
<1>3. context \in Node \X Nat /\ context \in Context
      BY Zenon DEF TypeInv, ProcessOK, Context
<1>4. read \in PendingRead
      BY Zenon, <1>3, NodeDurable, HighestCommitType DEF TypeInv, PendingRead
<1>   HIDE DEF read
<1>5. pendingReads' \in [Node -> SUBSET PendingRead]
      <2>1. \/ pendingReads' = [pendingReads EXCEPT ![n] = @ \cup {read}]
            \/ pendingReads' = pendingReads
            BY Zenon DEF ReadIndex, read
      <2>   QED  BY <1>4, <2>1 DEF TypeInv, VolatileOK
<1>6. VolatileOK'
      BY Zenon, <1>5 DEF TypeInv, VolatileOK, ReadIndex, roleVars
<1>7. MessagesOK'
      <2>1. \/ UNCHANGED msgs
            \/ msgs' = msgs \cup BroadcastAppend(n, log[n], commitIndex[n],
                                                 progress[n], context)
            BY Zenon DEF ReadIndex
      <2>2. role[n] = "Leader"
            BY Zenon DEF ReadIndex
      <2>   HIDE DEF context
      <2>3. \A x \in BroadcastAppend(n, log[n], commitIndex[n], progress[n],
                                     context) : WellFormed(x)
            BY Zenon, <1>3, <2>2, LeaderBroadcast
      <2>   QED  BY Zenon, <2>1, <2>3, SentOK, Unchanged DEF TypeInv
<1>   QED  BY Zenon, <1>1, <1>2, <1>6, <1>7 DEF TypeInv

\* A crash between two batches keeps the type invariant.
LEMMA RestartOK ==
    ASSUME TypeInv, NEW n \in Node, Restart(n)
    PROVE  TypeInv'
BY Zenon, RecoverOK, Unchanged DEF Restart, TypeInv

\* A lost message keeps the type invariant.
LEMMA LoseOK ==
    ASSUME TypeInv, NEW m, Lose(m)
    PROVE  TypeInv'
<1>1. DurableOK' /\ ProcessOK' /\ HistoryOK' /\ VolatileOK'
      BY Zenon, Unchanged DEF Lose
<1>2. MessagesOK'
      BY Zenon DEF TypeInv, MessagesOK, Lose
<1>   QED  BY Zenon, <1>1, <1>2 DEF TypeInv

\* snapshot_built moves the boundary no further than the commit index.
LEMMA SnapshotBuiltOK ==
    ASSUME TypeInv, NEW n \in Node, NEW i, SnapshotBuilt(n, i)
    PROVE  TypeInv'
<1>1. ProcessOK' /\ HistoryOK' /\ VolatileOK' /\ MessagesOK'
      BY Zenon, Unchanged DEF SnapshotBuilt
<1>2. /\ base[n] \in Nat /\ commitIndex[n] \in Nat
      /\ commitIndex[n] <= Len(log[n])
      /\ Sorted(log[n]) /\ NoFutureTerm(log[n], currentTerm[n])
      BY Zenon, NodeDurable DEF TypeInv
<1>3. /\ i \in Nat /\ i <= commitIndex[n]
      /\ base' = [base EXCEPT ![n] = i]
      /\ UNCHANGED <<currentTerm, votedFor, commitIndex, log>>
      BY <1>2 DEF SnapshotBuilt
<1>4. DurableOK'
      <2>1. DurableOK
            BY Zenon DEF TypeInv
      <2>2. base' \in [Node -> Nat] /\ base'[n] = i
            BY Zenon, <1>3, <2>1 DEF DurableOK
      <2>3. \A k \in Node : k # n => base'[k] = base[k]
            BY Zenon, <1>3, <2>1 DEF DurableOK
      <2>4. /\ currentTerm' \in [Node -> Nat]
            /\ votedFor' \in [Node -> Node \cup {NoNode}]
            /\ commitIndex' \in [Node -> Nat]
            /\ log' \in [Node -> Seq(Entry)]
            BY Zenon, <1>3, <2>1 DEF DurableOK
      <2>   QED  BY Zenon, <1>2, <1>3, <2>1, <2>2, <2>3, <2>4, DurableStepOK
<1>   QED  BY Zenon, <1>1, <1>4 DEF TypeInv

\* The log a leader extends by an entry of its own term.
LEMMA AppendedLogOK ==
    ASSUME DurableOK, NEW n \in Node, NEW payload \in Command \cup {Noop}
    PROVE  LET l == Append(log[n], [term |-> currentTerm[n],
                                    payload |-> payload])
           IN  /\ l \in Seq(Entry) /\ Len(l) = Len(log[n]) + 1
               /\ Sorted(l) /\ NoFutureTerm(l, currentTerm[n])
<1> DEFINE e == [term |-> currentTerm[n], payload |-> payload]
           l == Append(log[n], e)
<1>1. /\ log[n] \in Seq(Entry) /\ currentTerm[n] \in Nat
      /\ Len(log[n]) \in Nat
      /\ Sorted(log[n]) /\ NoFutureTerm(log[n], currentTerm[n])
      BY Zenon, NodeDurable
<1>2. e \in Entry /\ e.term = currentTerm[n]
      BY Zenon, <1>1 DEF Entry
<1>   HIDE DEF e
<1>3. /\ l \in Seq(Entry) /\ Len(l) = Len(log[n]) + 1
      /\ \A i \in 1 .. Len(log[n]) : l[i] = log[n][i]
      /\ l[Len(log[n]) + 1] = e
      BY Zenon, <1>1, <1>2, LogAppend
<1>   HIDE DEF l
<1>4. Sorted(l)
      <2>1. SUFFICES ASSUME NEW i \in 2 .. Len(l)
                     PROVE  l[i - 1].term <= l[i].term
            BY Zenon DEF Sorted
      <2>2. i - 1 \in 1 .. Len(log[n]) /\ l[i - 1] = log[n][i - 1]
            BY <1>1, <1>3
      <2>3. CASE i <= Len(log[n])
            <3>1. i \in 2 .. Len(log[n]) /\ i \in 1 .. Len(log[n])
                  BY <1>1, <2>3
            <3>2. l[i] = log[n][i]
                  BY Zenon, <1>3, <3>1
            <3>   QED  BY Zenon, <1>1, <2>2, <3>1, <3>2 DEF Sorted
      <2>4. CASE i = Len(log[n]) + 1
            BY Zenon, <1>1, <1>2, <1>3, <2>2, <2>4 DEF NoFutureTerm
      <2>   QED  BY <1>1, <1>3, <2>3, <2>4
<1>5. NoFutureTerm(l, currentTerm[n])
      <2>1. SUFFICES ASSUME NEW i \in 1 .. Len(l)
                     PROVE  l[i].term <= currentTerm[n]
            BY Zenon DEF NoFutureTerm
      <2>2. CASE i <= Len(log[n])
            <3>1. i \in 1 .. Len(log[n]) /\ l[i] = log[n][i]
                  BY <1>1, <1>3, <2>2
            <3>   QED  BY Zenon, <1>1, <3>1 DEF NoFutureTerm
      <2>3. CASE i = Len(log[n]) + 1
            BY <1>1, <1>2, <1>3, <2>3
      <2>   QED  BY <1>1, <1>3, <2>2, <2>3
<1>   QED  BY Zenon, <1>3, <1>4, <1>5 DEF l, e

\* propose keeps the type invariant: the new entry has the leader's term.
LEMMA ProposeOK ==
    ASSUME NaturalsWellOrdered,
           TypeInv, NEW n \in Node, NEW c \in Command, Propose(n, c)
    PROVE  TypeInv'
<1> DEFINE l == Append(log[n], [term |-> currentTerm[n], payload |-> c])
           prog == [progress[n] EXCEPT ![n] =
                        [match |-> Len(l), next |-> Len(l) + 1,
                         offset |-> @.offset]]
           commit == AdvanceLeaderCommit(n, l, prog)
<1>0. DurableOK /\ VolatileOK /\ role[n] = "Leader"
      BY Zenon DEF TypeInv, Propose
<1>1. /\ l \in Seq(Entry) /\ Len(l) = Len(log[n]) + 1
      /\ Sorted(l) /\ NoFutureTerm(l, currentTerm[n])
      BY Zenon, <1>0, AppendedLogOK
<1>2. /\ base[n] \in Nat /\ commitIndex[n] \in Nat /\ Len(log[n]) \in Nat
      /\ base[n] <= commitIndex[n] /\ commitIndex[n] <= Len(log[n])
      BY Zenon, <1>0, NodeDurable
<1>3. /\ log' = [log EXCEPT ![n] = l]
      /\ progress' = [progress EXCEPT ![n] = prog]
      /\ commitIndex' = [commitIndex EXCEPT ![n] = commit]
      /\ msgs' = msgs \cup BroadcastAppend(n, l, commit, prog, NoContext)
      /\ UNCHANGED <<currentTerm, votedFor, base, roleVars, recentActive,
                     pendingReads, processVars, historyVars>>
      BY Zenon DEF Propose
<1>   HIDE DEF l
<1>4. /\ prog \in [Node -> ProgressRecord]
      /\ \A p \in Node : prog[p].next >= 1
      <2>1. /\ progress[n] \in [Node -> ProgressRecord]
            /\ \A p \in Node : progress[n][p].next >= 1
            /\ Len(l) \in Nat
            BY <1>0, <1>1, <1>2, NodeVolatile
      <2> DEFINE own == [match |-> Len(l), next |-> Len(l) + 1,
                         offset |-> progress[n][n].offset]
      <2>2. own \in ProgressRecord /\ own.next >= 1
            BY <2>1 DEF ProgressRecord
      <2>3. prog = [progress[n] EXCEPT ![n] = own]
            BY Zenon
      <2>   HIDE DEF own, prog
      <2>   QED  BY Zenon, <2>1, <2>2, <2>3
<1>   HIDE DEF prog
<1>5. commit \in Nat /\ commitIndex[n] <= commit /\ commit <= Len(l)
      <2>1. commitIndex[n] <= Len(l)
            BY <1>1, <1>2
      <2>   QED  BY Zenon, <1>0, <1>1, <1>4, <2>1, AdvanceOK
<1>   HIDE DEF commit
<1>6. base[n] <= commit /\ base[n] <= Len(l)
      BY <1>1, <1>2, <1>5
<1>7. DurableOK'
      BY Zenon, <1>0, <1>1, <1>3, <1>5, <1>6, LogStepOK
<1>8. VolatileOK'
      <2>1. /\ recentActive' \in [Node -> SUBSET Node]
            /\ pendingReads' \in [Node -> SUBSET PendingRead]
            BY Zenon, <1>0, <1>3 DEF VolatileOK
      <2>   QED  BY Zenon, <1>0, <1>3, <1>4, <2>1, LeaderStepOK
<1>9. MessagesOK'
      <2>1. NoContext \in Context
            BY Zenon DEF Context
      <2>   QED  BY Zenon, <1>0, <1>1, <1>3, <1>4, <1>5, <1>6, <2>1,
                    BroadcastOK, SentOK
                 DEF TypeInv
<1>   QED  BY Zenon, <1>3, <1>7, <1>8, <1>9, Unchanged DEF TypeInv

\* on_pre_vote_request keeps the type invariant.
LEMMA OnPreVoteRequestOK ==
    ASSUME TypeInv, NEW m \in msgs, OnPreVoteRequest(m)
    PROVE  TypeInv'
<1> DEFINE n == m.to
           r == [type |-> "PreVoteResponse", from |-> n, to |-> m.from,
                 term |-> currentTerm[n], prospective |-> m.term,
                 granted |-> /\ m.term > currentTerm[n]
                             /\ CandidateLogIsUpToDate(n, m)]
<1>1. /\ DurableOK' /\ ProcessOK' /\ HistoryOK' /\ VolatileOK'
      BY Zenon, Unchanged DEF OnPreVoteRequest
<1>2. currentTerm[n] \in Nat
      BY Zenon, Delivered, NodeDurable
<1>3. r \in PreVoteResponse
      BY Zenon, <1>2, Delivered DEF PreVoteResponse
<1>4. r.type = "PreVoteResponse" /\ r.from = n /\ r.to = m.from
      BY Zenon
<1>5. Exchange(m, {r})
      BY Zenon DEF OnPreVoteRequest
<1>   HIDE DEF r
<1>6. WellFormed(r)
      BY Zenon, <1>3, <1>4, Delivered DEF WellFormed, Message
<1>7. MessagesOK'
      BY Zenon, <1>5, <1>6, Delivered, ExchangeOK
<1>   QED  BY Zenon, <1>1, <1>7 DEF TypeInv

\* on_pre_vote_response keeps the type invariant; the election it starts is
\* held in a later term than the current one.
LEMMA OnPreVoteResponseOK ==
    ASSUME TypeInv, CampaignOK, NEW m \in msgs, OnPreVoteResponse(m)
    PROVE  TypeInv'
<1> DEFINE n == m.to
           counted == votes[n] \cup {m.from}
<1>0. m \in PreVoteResponse
      BY Zenon, Delivered, MessageKinds DEF OnPreVoteResponse, Receives
<1>1. CASE StepDownOnNewerTerm(m)
      BY Zenon, <1>1, StepDownOnNewerTermOK
<1>2. CASE ~ StepDownOnNewerTerm(m)
      <2>1. /\ role[n] = "PreCandidate" /\ campaignTerm[n] = m.prospective
            /\ UNCHANGED <<commitIndex, log, base, leaderVars, processVars,
                           leaderships>>
            BY Zenon, <1>2 DEF OnPreVoteResponse
      <2>2. n \in Node /\ m.from \in Node /\ DurableOK /\ VolatileOK /\ MessagesOK
            BY Zenon, Delivered
      <2>3. ProcessOK'
            BY Zenon, <2>1, Unchanged
      <2>4. CASE StartElection(n, m.prospective, m)
            <3>1. /\ m.prospective \in Nat /\ currentTerm[n] \in Nat
                  /\ currentTerm[n] < m.prospective
                  BY Zenon, <1>0, <2>1, <2>2, NodeDurable DEF CampaignOK,
                     PreVoteResponse
            <3>2. DurableOK'
                  <4>1. /\ currentTerm' \in [Node -> Nat]
                        /\ votedFor' \in [Node -> Node \cup {NoNode}]
                        BY Zenon, <2>2, <2>4, <3>1 DEF StartElection, DurableOK
                  <4>2. \A k \in Node : currentTerm[k] <= currentTerm'[k]
                        BY SMTT(15), <2>2, <2>4, <3>1
                           DEF StartElection, DurableOK
                  <4>   QED  BY Zenon, <2>1, <2>2, <4>1, <4>2, TermGrowsOK
            <3>3. VolatileOK'
                  <4>1. /\ role' \in [Node -> Role]
                        /\ leaderId' \in [Node -> Node \cup {NoNode}]
                        /\ campaignTerm' \in [Node -> Nat \cup {NoTerm}]
                        /\ votes' \in [Node -> SUBSET Node]
                        BY Zenon, <2>2, <2>4 DEF StartElection, VolatileOK,
                           Role
                  <4>2. \A k \in Node : role'[k] = "Leader" => role[k] = "Leader"
                        BY Zenon, <2>2, <2>4 DEF StartElection, VolatileOK
                  <4>   QED  BY Zenon, <2>1, <2>2, <4>1, <4>2 DEF VolatileOK,
                                leaderVars
            <3>4. HistoryOK'
                  BY <2>1, <2>2, <2>4, <3>1
                     DEF StartElection, TypeInv, HistoryOK
            <3>5. MessagesOK'
                  <4>1. PICK sent : /\ Exchange(m, sent)
                                    /\ \A x \in sent : WellFormed(x)
                        BY Zenon, <2>2, <2>4, <3>1, VoteRequestsOK
                           DEF StartElection
                  <4>   QED  BY Zenon, <2>2, <4>1, ExchangeOK
            <3>   QED  BY Zenon, <2>3, <3>2, <3>3, <3>4, <3>5 DEF TypeInv
      <2>5. CASE ~ StartElection(n, m.prospective, m)
            <3>1. /\ votes' = [votes EXCEPT ![n] = counted]
                  /\ Exchange(m, {})
                  /\ UNCHANGED <<currentTerm, votedFor, role, leaderId,
                                 campaignTerm, ballots>>
                  BY Zenon, <1>2, <2>5 DEF OnPreVoteResponse
            <3>2. DurableOK' /\ HistoryOK'
                  BY Zenon, <2>1, <3>1, Unchanged DEF durableVars, historyVars
            <3>3. VolatileOK'
                  BY Zenon, <2>1, <2>2, <3>1 DEF VolatileOK, leaderVars
            <3>4. MessagesOK'
                  BY <2>2, <3>1, ExchangeOK
            <3>   QED  BY Zenon, <2>3, <3>2, <3>3, <3>4 DEF TypeInv
      <2>   QED  BY Zenon, <2>4, <2>5
<1>   QED  BY Zenon, <1>1, <1>2

\* on_vote_request keeps the type invariant.
LEMMA OnVoteRequestOK ==
    ASSUME TypeInv, NEW m \in msgs, OnVoteRequest(m)
    PROVE  TypeInv'
<1> DEFINE n == m.to
           newer == m.term > currentTerm[n]
           vote == IF newer THEN NoNode ELSE votedFor[n]
           granted == /\ m.term >= currentTerm[n]
                      /\ vote \in {NoNode, m.from}
                      /\ CandidateLogIsUpToDate(n, m)
           r == [type |-> "RequestVoteResponse", from |-> n, to |-> m.from,
                 term |-> Larger(currentTerm[n], m.term), granted |-> granted]
<1>1. /\ n \in Node /\ m.from \in Node /\ m.from # n /\ m.term \in Nat
      /\ DurableOK /\ VolatileOK /\ MessagesOK
      BY Zenon, Delivered
<1>2. /\ currentTerm[n] \in Nat /\ votedFor[n] \in Node \cup {NoNode}
      BY Zenon, <1>1, NodeDurable
<1>3. /\ Larger(currentTerm[n], m.term) \in Nat
      /\ currentTerm[n] <= Larger(currentTerm[n], m.term)
      BY <1>1, <1>2 DEF Larger
<1>4. granted \in BOOLEAN /\ vote \in Node \cup {NoNode}
      BY Zenon, <1>2
<1>5. /\ currentTerm' = [currentTerm EXCEPT ![n] = Larger(@, m.term)]
      /\ votedFor' = [votedFor EXCEPT ![n] = IF granted THEN m.from ELSE vote]
      /\ \/ newer /\ StepDown(n, NoNode)
         \/ /\ ~newer
            /\ leaderId' = [leaderId EXCEPT ![n] = IF granted THEN NoNode ELSE @]
            /\ UNCHANGED <<role, campaignTerm, votes, leaderVars>>
      /\ Exchange(m, {r})
      /\ ballots' = ballots \cup
            {b \in {[voter |-> n, candidate |-> m.from, term |-> m.term]} :
                granted}
      /\ UNCHANGED <<commitIndex, log, base, processVars, leaderships>>
      BY Zenon DEF OnVoteRequest
<1>6. r \in RequestVoteResponse
      BY Zenon, <1>1, <1>3, <1>4 DEF RequestVoteResponse
<1>7. r.type = "RequestVoteResponse" /\ r.from = n /\ r.to = m.from
      BY Zenon
<1>   HIDE DEF r, granted, vote
<1>8. MessagesOK'
      <2>1. WellFormed(r)
            BY Zenon, <1>1, <1>6, <1>7 DEF WellFormed, Message
      <2>   QED  BY <1>1, <1>5, <2>1, ExchangeOK
<1>9. DurableOK'
      <2>1. /\ currentTerm' \in [Node -> Nat]
            /\ \A k \in Node : currentTerm[k] <= currentTerm'[k]
            BY <1>1, <1>3, <1>5 DEF DurableOK
      <2>2. votedFor' \in [Node -> Node \cup {NoNode}]
            BY Zenon, <1>1, <1>4, <1>5 DEF DurableOK
      <2>   QED  BY Zenon, <1>1, <1>5, <2>1, <2>2, TermGrowsOK
<1>10. VolatileOK'
      <2>1. CASE StepDown(n, NoNode)
            BY Zenon, <1>1, <2>1, StepDownOK
      <2>2. CASE /\ leaderId' = [leaderId EXCEPT ![n] =
                                     IF granted THEN NoNode ELSE @]
                 /\ UNCHANGED <<role, campaignTerm, votes, leaderVars>>
            BY Zenon, <1>1, <2>2 DEF VolatileOK, leaderVars
      <2>   QED  BY Zenon, <1>5, <2>1, <2>2
<1>11. ProcessOK'
      BY Zenon, <1>5, Unchanged
<1>12. HistoryOK'
      BY <1>1, <1>5 DEF TypeInv, HistoryOK
<1>   QED  BY Zenon, <1>8, <1>9, <1>10, <1>11, <1>12 DEF TypeInv

\* become_leader keeps the type invariant: the no-op has the newest term.
LEMMA BecomeLeaderOK ==
    ASSUME NaturalsWellOrdered,
           TypeInv, NEW m \in msgs, NEW n \in Node, BecomeLeader(n, m),
           UNCHANGED <<currentTerm, votedFor, base, campaignTerm,
                       processVars, ballots>>
    PROVE  TypeInv'
<1> DEFINE l == Append(log[n], [term |-> currentTerm[n], payload |-> Noop])
           prog == [p \in Node |-> [match |-> IF p = n THEN Len(l) ELSE 0,
                                    next |-> Len(l) + 1, offset |-> 0]]
           commit == AdvanceLeaderCommit(n, l, prog)
<1>0. DurableOK /\ VolatileOK /\ MessagesOK
      BY Zenon DEF TypeInv
<1>1. /\ l \in Seq(Entry) /\ Len(l) = Len(log[n]) + 1
      /\ Sorted(l) /\ NoFutureTerm(l, currentTerm[n])
      BY Zenon, <1>0, AppendedLogOK
<1>2. /\ base[n] \in Nat /\ commitIndex[n] \in Nat /\ Len(log[n]) \in Nat
      /\ base[n] <= commitIndex[n] /\ commitIndex[n] <= Len(log[n])
      /\ currentTerm[n] \in Nat
      BY Zenon, <1>0, NodeDurable
<1>3. /\ role' = [role EXCEPT ![n] = "Leader"]
      /\ leaderId' = [leaderId EXCEPT ![n] = n]
      /\ votes' = [votes EXCEPT ![n] = {}]
      /\ log' = [log EXCEPT ![n] = l]
      /\ progress' = [progress EXCEPT ![n] = prog]
      /\ recentActive' = [recentActive EXCEPT ![n] = Node]
      /\ pendingReads' = [pendingReads EXCEPT ![n] = {}]
      /\ commitIndex' = [commitIndex EXCEPT ![n] = commit]
      /\ Exchange(m, BroadcastAppend(n, l, commit, prog, NoContext))
      /\ leaderships' = leaderships \cup {[node |-> n, term |-> currentTerm[n]]}
      BY Zenon DEF BecomeLeader
<1>   HIDE DEF l
<1>4. /\ prog \in [Node -> ProgressRecord]
      /\ \A p \in Node : prog[p].next >= 1
      BY <1>1, <1>2 DEF ProgressRecord
<1>   HIDE DEF prog
<1>5. commit \in Nat /\ commitIndex[n] <= commit /\ commit <= Len(l)
      <2>1. commitIndex[n] <= Len(l)
            BY <1>1, <1>2
      <2>   QED  BY Zenon, <1>0, <1>1, <1>4, <2>1, AdvanceOK
<1>   HIDE DEF commit
<1>6. base[n] <= commit /\ base[n] <= Len(l)
      BY <1>1, <1>2, <1>5
<1>7. DurableOK'
      BY Zenon, <1>0, <1>1, <1>3, <1>5, <1>6, LogStepOK
<1>8. VolatileOK'
      <2>1. /\ role' \in [Node -> Role]
            /\ leaderId' \in [Node -> Node \cup {NoNode}]
            /\ campaignTerm' \in [Node -> Nat \cup {NoTerm}]
            /\ votes' \in [Node -> SUBSET Node]
            /\ recentActive' \in [Node -> SUBSET Node]
            /\ pendingReads' \in [Node -> SUBSET PendingRead]
            BY Zenon, <1>0, <1>3 DEF VolatileOK, Role
      <2>2. progress' \in [Node -> [Node -> ProgressRecord]]
            BY Zenon, <1>0, <1>3, <1>4 DEF VolatileOK
      <2>3. ASSUME NEW k \in Node, role'[k] = "Leader", NEW p \in Node
            PROVE  progress'[k][p].next >= 1
            <3>1. CASE k = n
                  BY Zenon, <1>0, <1>3, <1>4, <3>1 DEF VolatileOK
            <3>2. CASE k # n
                  BY Zenon, <1>0, <1>3, <2>3, <3>2 DEF VolatileOK
            <3>   QED  BY Zenon, <3>1, <3>2
      <2>   QED  BY Zenon, <2>1, <2>2, <2>3 DEF VolatileOK
<1>9. MessagesOK'
      <2>1. NoContext \in Context
            BY Zenon DEF Context
      <2>   QED  BY Zenon, <1>0, <1>1, <1>3, <1>4, <1>5, <1>6, <2>1,
                    BroadcastOK,
                    ExchangeOK
<1>10. ProcessOK'
      BY Zenon, Unchanged
<1>11. HistoryOK'
      BY <1>2, <1>3 DEF TypeInv, HistoryOK
<1>   QED  BY Zenon, <1>7, <1>8, <1>9, <1>10, <1>11 DEF TypeInv

\* on_vote_response keeps the type invariant.
LEMMA OnVoteResponseOK ==
    ASSUME NaturalsWellOrdered, TypeInv, NEW m \in msgs, OnVoteResponse(m)
    PROVE  TypeInv'
<1> DEFINE n == m.to
           counted == votes[n] \cup {m.from}
<1>1. CASE StepDownOnNewerTerm(m)
      BY Zenon, <1>1, StepDownOnNewerTermOK
<1>2. CASE BecomeLeader(n, m) /\ ~ StepDownOnNewerTerm(m)
      <2>1. UNCHANGED <<currentTerm, votedFor, base, campaignTerm,
                        processVars, ballots>>
            BY Zenon, <1>2 DEF OnVoteResponse
      <2>   QED  BY Zenon, <1>2, <2>1, Delivered, BecomeLeaderOK
<1>3. CASE ~ BecomeLeader(n, m) /\ ~ StepDownOnNewerTerm(m)
      <2>1. /\ votes' = [votes EXCEPT ![n] = counted]
            /\ Exchange(m, {})
            /\ UNCHANGED <<commitIndex, log, role, leaderId, leaderVars,
                           leaderships, currentTerm, votedFor, base,
                           campaignTerm, processVars, ballots>>
            BY Zenon, <1>3 DEF OnVoteResponse
      <2>2. n \in Node /\ m.from \in Node /\ VolatileOK /\ MessagesOK
            BY Zenon, Delivered
      <2>3. DurableOK' /\ HistoryOK' /\ ProcessOK'
            BY Zenon, <2>1, Unchanged DEF durableVars, historyVars
      <2>4. VolatileOK'
            BY Zenon, <2>1, <2>2 DEF VolatileOK, leaderVars
      <2>5. MessagesOK'
            BY <2>1, <2>2, ExchangeOK
      <2>   QED  BY Zenon, <2>3, <2>4, <2>5 DEF TypeInv
<1>   QED  BY Zenon, <1>1, <1>2, <1>3

-----------------------------------------------------------------------------
(***************************************************************************)
(* The campaign term of a pre-candidate, which start_election adopts, lies *)
(* ahead of its current term: whatever changes either ends the campaign.   *)
(***************************************************************************)

LEMMA CampaignKept ==
    ASSUME TypeInv, CampaignOK,
           \A k \in Node : role'[k] = "PreCandidate" =>
               /\ role[k] = "PreCandidate"
               /\ campaignTerm'[k] = campaignTerm[k]
               /\ currentTerm'[k] = currentTerm[k]
    PROVE  CampaignOK'
BY Zenon DEF CampaignOK

\* A node that steps down campaigns for no term.
LEMMA CampaignAfterStepDown ==
    ASSUME TypeInv, CampaignOK, NEW n \in Node, NEW leader, StepDown(n, leader),
           \A k \in Node : k # n => currentTerm'[k] = currentTerm[k]
    PROVE  CampaignOK'
<1>1. ASSUME NEW k \in Node, role'[k] = "PreCandidate"
      PROVE  /\ role[k] = "PreCandidate"
             /\ campaignTerm'[k] = campaignTerm[k]
             /\ currentTerm'[k] = currentTerm[k]
      <2>1. VolatileOK
            BY Zenon DEF TypeInv
      <2>2. k # n
            BY Zenon, <1>1, <2>1 DEF StepDown, VolatileOK
      <2>   QED  BY Zenon, <1>1, <2>1, <2>2 DEF StepDown, VolatileOK
<1>   QED  BY Zenon, <1>1, CampaignKept

\* CampaignOK depends on roles, campaigns and terms only.
LEMMA CampaignUnchanged ==
    ASSUME CampaignOK, UNCHANGED <<currentTerm, role, campaignTerm>>
    PROVE  CampaignOK'
BY Zenon DEF CampaignOK

\* Stepping down on a response of a later term keeps CampaignOK.
LEMMA CampaignAfterNewerTerm ==
    ASSUME TypeInv, CampaignOK, NEW m \in msgs, StepDownOnNewerTerm(m)
    PROVE  CampaignOK'
<1>1. m.to \in Node /\ m.term \in Nat /\ DurableOK
      BY Zenon, Delivered
<1>2. AdoptTerm(m.to, m.term) /\ StepDown(m.to, NoNode)
      BY Zenon DEF StepDownOnNewerTerm, BecomeFollower
<1>   QED  BY Zenon, <1>1, <1>2, AdoptTermOK, CampaignAfterStepDown

\* A pre-candidate always campaigns for a term later than its own.
LEMMA CampaignNext ==
    ASSUME TypeInv, CampaignOK, Next
    PROVE  CampaignOK'
<1>0. DurableOK /\ VolatileOK
      BY Zenon DEF TypeInv
<1>1. ASSUME NEW n \in Node, ElectionTick(n)
      PROVE  CampaignOK'
      <2>1. currentTerm[n] \in Nat
            BY Zenon, <1>0, NodeDurable
      <2>   QED  BY <1>0, <1>1, <2>1
                 DEF ElectionTick, CampaignOK, VolatileOK, durableVars
<1>2. ASSUME NEW n \in Node, HeartbeatTick(n) \/ ReadIndex(n)
      PROVE  CampaignOK'
      BY Zenon, <1>2, CampaignUnchanged
         DEF HeartbeatTick, ReadIndex, durableVars, roleVars
<1>3. ASSUME NEW n \in Node, CheckQuorumTick(n)
      PROVE  CampaignOK'
      <2>1. UNCHANGED currentTerm /\ (UNCHANGED roleVars \/ StepDown(n, NoNode))
            BY Zenon, <1>3 DEF CheckQuorumTick, durableVars
      <2>   QED  BY Zenon, <2>1, CampaignUnchanged, CampaignAfterStepDown
                    DEF roleVars
<1>4. ASSUME NEW n \in Node, Restart(n)
      PROVE  CampaignOK'
      BY Zenon, <1>4, CampaignAfterStepDown DEF Restart, Recover, durableVars
<1>5. ASSUME NEW n \in Node, NEW c \in Command, Propose(n, c)
      PROVE  CampaignOK'
      BY Zenon, <1>5, CampaignUnchanged DEF Propose, roleVars
<1>6. ASSUME NEW n \in Node, NEW i, SnapshotBuilt(n, i)
      PROVE  CampaignOK'
      BY Zenon, <1>6, CampaignUnchanged DEF SnapshotBuilt, roleVars
<1>7. ASSUME NEW m \in msgs,
             \/ OnPreVoteRequest(m) \/ OnStaleAppendEntries(m)
             \/ OnStaleInstallSnapshot(m) \/ Lose(m)
      PROVE  CampaignOK'
      BY Zenon, <1>7, CampaignUnchanged
         DEF OnPreVoteRequest, OnStaleAppendEntries, OnStaleInstallSnapshot,
             Lose, durableVars, roleVars
<1>8. ASSUME NEW m \in msgs, OnPreVoteResponse(m)
      PROVE  CampaignOK'
      <2>1. m.to \in Node
            BY Zenon, Delivered
      <2>2. CASE StartElection(m.to, m.prospective, m)
            <3>1. ASSUME NEW k \in Node, role'[k] = "PreCandidate"
                  PROVE  k # m.to
                  BY Zenon, <1>0, <2>1, <2>2, <3>1 DEF StartElection,
                     VolatileOK
            <3>   QED  BY Zenon, <1>0, <2>1, <2>2, <3>1, CampaignKept
                       DEF StartElection, VolatileOK, DurableOK
      <2>3. CASE UNCHANGED <<currentTerm, role, campaignTerm>>
            BY Zenon, <2>3, CampaignUnchanged
      <2>   QED  BY Zenon, <1>8, <2>2, <2>3, CampaignAfterNewerTerm
                 DEF OnPreVoteResponse
<1>9. ASSUME NEW m \in msgs, OnVoteRequest(m)
      PROVE  CampaignOK'
      <2>1. m.to \in Node /\ m.term \in Nat /\ currentTerm[m.to] \in Nat
            BY Zenon, Delivered, NodeDurable
      <2>2. currentTerm' = [currentTerm EXCEPT ![m.to] = Larger(@, m.term)]
            BY Zenon, <1>9 DEF OnVoteRequest
      <2>3. CASE StepDown(m.to, NoNode)
            BY Zenon, <1>0, <2>1, <2>2, <2>3, CampaignAfterStepDown
               DEF DurableOK
      <2>4. CASE ~ StepDown(m.to, NoNode)
            <3>1. ~ (m.term > currentTerm[m.to]) /\ UNCHANGED <<role, campaignTerm>>
                  BY Zenon, <1>9, <2>4 DEF OnVoteRequest
            <3>2. currentTerm' = currentTerm
                  BY <1>0, <2>1, <2>2, <3>1 DEF Larger, DurableOK
            <3>   QED  BY Zenon, <3>1, <3>2, CampaignUnchanged
      <2>   QED  BY Zenon, <2>3, <2>4
<1>10. ASSUME NEW m \in msgs, OnVoteResponse(m)
      PROVE  CampaignOK'
      <2>1. m.to \in Node
            BY Zenon, Delivered
      <2>2. CASE StepDownOnNewerTerm(m)
            BY Zenon, <2>2, CampaignAfterNewerTerm
      <2>3. CASE ~ StepDownOnNewerTerm(m)
            <3>1. /\ UNCHANGED <<currentTerm, campaignTerm>>
                  /\ \/ UNCHANGED role
                     \/ role' = [role EXCEPT ![m.to] = "Leader"]
                  BY Zenon, <1>10, <2>3 DEF OnVoteResponse, BecomeLeader
            <3>   QED  BY Zenon, <1>0, <2>1, <3>1 DEF CampaignOK, VolatileOK
      <2>   QED  BY Zenon, <2>2, <2>3
<1>11. ASSUME NEW m \in msgs,
              \/ OnAppendEntries(m) \/ OnInstallSnapshot(m)
              \/ RestartAfterTerm(m) \/ RestartAfterLog(m)
      PROVE  CampaignOK'
      <2>1. m.to \in Node /\ m.term \in Nat
            BY Zenon, Delivered
      <2>2. /\ AdoptTerm(m.to, m.term)
            /\ \E leader : StepDown(m.to, leader)
            BY Zenon, <1>11 DEF OnAppendEntries, OnInstallSnapshot,
               BecomeFollower,
                         RestartAfterTerm, RestartAfterLog, Recover
      <2>   QED  BY Zenon, <1>0, <2>1, <2>2, AdoptTermOK, CampaignAfterStepDown
<1>12. ASSUME NEW m \in msgs, OnAppendResponse(m) \/ OnSnapshotResponse(m)
      PROVE  CampaignOK'
      <2>1. StepDownOnNewerTerm(m) \/ UNCHANGED <<currentTerm, roleVars>>
            BY Zenon, <1>12 DEF OnAppendResponse, OnSnapshotResponse
      <2>   QED  BY Zenon, <2>1, CampaignAfterNewerTerm, CampaignUnchanged
                    DEF roleVars
<1>   QED  BY Zenon, <1>1, <1>2, <1>3, <1>4, <1>5, <1>6, <1>7, <1>8, <1>9,
              <1>10,
              <1>11, <1>12 DEF Next, Deliver

-----------------------------------------------------------------------------
(***************************************************************************)
(* The replication of entries and snapshots keeps TypeInv.                 *)
(***************************************************************************)

\* Installing a snapshot leaves a log that recover accepts and that reaches
\* the new boundary.
LEMMA InstalledLogOK ==
    ASSUME NEW l \in Seq(Entry), NEW b \in Nat, Sorted(l),
           NEW s \in Seq(Entry), Sorted(s),
           NEW t \in Nat, NoFutureTerm(l, t), NoFutureTerm(s, t)
    PROVE  LET k == InstalledLog(l, b, s)
           IN  /\ k \in Seq(Entry) /\ Len(s) <= Len(k)
               /\ Sorted(k) /\ NoFutureTerm(k, t)
<1> DEFINE q == SubSeq(l, Len(s) + 1, Len(l))
<1>0. Len(l) \in Nat /\ Len(s) \in Nat
      BY Zenon, EntryTerms
<1>1. CASE TermAt(l, b, Len(s)) # LastTerm(s)
      BY <1>0, <1>1 DEF InstalledLog
<1>2. CASE TermAt(l, b, Len(s)) = LastTerm(s)
      <2>1. LastTerm(s) \in Nat
            BY Zenon, LastTermType
      <2>2. TermAt(l, b, Len(s)) # NoTerm
            BY <1>2, <2>1 DEF NoTerm
      <2>3. b <= Len(s) /\ Len(s) <= Len(l)
            BY Zenon, <1>0, <2>2, TermAtType
      <2>4. /\ Len(s) + 1 \in Nat \ {0} /\ Len(l) \in 0 .. Len(l)
            /\ Len(s) + 1 <= Len(l) + 1
            BY <1>0, <2>3
      <2>5. /\ q \in Seq(Entry) /\ Len(q) = Len(l) + 1 - (Len(s) + 1)
            /\ \A x \in 1 .. Len(l) + 1 - (Len(s) + 1) :
                   q[x] = l[(Len(s) + 1) + x - 1]
            /\ Sorted(q) /\ NoFutureTerm(q, t)
            BY Zenon, <2>4, SubSeqOK
      <2>   HIDE DEF q
      <2>6. Len(s) >= 1 /\ Len(q) >= 1 => s[Len(s)].term <= q[1].term
            <3>1. HAVE Len(s) >= 1 /\ Len(q) >= 1
            <3>2. /\ 1 \in 1 .. Len(l) + 1 - (Len(s) + 1)
                  /\ (Len(s) + 1) + 1 - 1 = Len(s) + 1
                  /\ Len(s) + 1 \in 2 .. Len(l) /\ (Len(s) + 1) - 1 = Len(s)
                  /\ Len(s) \in 1 .. Len(l)
                  BY <1>0, <2>5, <3>1
            <3>3. q[1] = l[Len(s) + 1]
                  BY Zenon, <2>5, <3>2
            <3>4. l[Len(s)].term <= l[Len(s) + 1].term
                  BY Zenon, <3>2 DEF Sorted
            <3>5. TermAt(l, b, Len(s)) = l[Len(s)].term
                  BY Zenon, <2>3, <3>2, TermAtEntry
            <3>6. s # << >>
                  BY <3>1
            <3>7. LastTerm(s) = s[Len(s)].term
                  BY Zenon, <3>6 DEF LastTerm
            <3>   QED  BY Zenon, <1>2, <3>3, <3>4, <3>5, <3>7
      <2>7. /\ s \o q \in Seq(Entry) /\ Len(s \o q) = Len(s) + Len(q)
            /\ Sorted(s \o q) /\ NoFutureTerm(s \o q, t)
            BY Zenon, <2>5, <2>6, ConcatOK
      <2>8. InstalledLog(l, b, s) = s \o q
            BY Zenon, <1>2 DEF InstalledLog, q
      <2>9. Len(s) <= Len(s) + Len(q)
            BY <1>0, <2>5, EntryTerms
      <2>   QED  BY Zenon, <2>7, <2>8, <2>9
<1>   QED  BY Zenon, <1>1, <1>2

\* The conflict hint of a rejection is an index and a term or None.
LEMMA ConflictOK ==
    ASSUME NaturalsWellOrdered,
           NEW l \in Seq(Entry), NEW b \in Nat, NEW m \in AppendEntries
    PROVE  LET c == AppendConflict(l, b, m)
           IN  c.index \in Nat /\ c.term \in Nat \cup {NoTerm}
<1>1. m.prev \in Nat /\ Len(l) \in Nat
      BY Zenon, EntryTerms DEF AppendEntries
<1>2. /\ TermAt(l, b, m.prev) \in Nat \cup {NoTerm}
      /\ TermAt(l, b, b) \in Nat \cup {NoTerm}
      BY Zenon, <1>1, TermAtType
<1>3. m.prev >= b => FirstIndexOfTerm(l, b, m.prev) \in Nat
      BY Zenon, <1>1, FirstIndexOfTermType
<1>4. CASE m.prev < b
      BY <1>1, <1>2, <1>4 DEF AppendConflict
<1>5. CASE m.prev >= b /\ TermAt(l, b, m.prev) = NoTerm
      BY <1>1, <1>5 DEF AppendConflict, LastIndex
<1>6. CASE /\ m.prev >= b /\ TermAt(l, b, m.prev) # NoTerm
           /\ TermAt(l, b, m.prev) # m.prevTerm
      BY <1>1, <1>2, <1>3, <1>6 DEF AppendConflict
<1>7. CASE /\ m.prev >= b /\ TermAt(l, b, m.prev) # NoTerm
           /\ TermAt(l, b, m.prev) = m.prevTerm
      BY <1>1, <1>7 DEF AppendConflict
<1>   QED  BY <1>1, <1>4, <1>5, <1>6, <1>7

\* A reply to AppendEntries is a well-formed message.
LEMMA AppendReplyOK ==
    ASSUME DurableOK, NEW m \in AppendEntries, m.from # m.to,
           NEW success \in BOOLEAN, NEW match \in Nat, NEW c,
           c.index \in Nat, c.term \in Nat \cup {NoTerm}
    PROVE  WellFormed(AppendReply(m.to, m, success, match, c))
<1> DEFINE r == AppendReply(m.to, m, success, match, c)
<1>1. /\ m.from \in Node /\ m.to \in Node /\ m.term \in Nat
      /\ m.context \in Context
      BY Zenon DEF AppendEntries
<1>2. currentTerm[m.to] \in Nat
      BY Zenon, <1>1, NodeDurable
<1>3. Larger(currentTerm[m.to], m.term) \in Nat
      BY Zenon, <1>1, <1>2 DEF Larger
<1>4. r \in AppendEntriesResponse
      BY Zenon, <1>1, <1>3 DEF AppendReply, AppendEntriesResponse
<1>5. r.type = "AppendEntriesResponse" /\ r.from = m.to /\ r.to = m.from
      BY Zenon DEF AppendReply
<1>   HIDE DEF r
<1>   QED  BY Zenon, <1>4, <1>5 DEF WellFormed, Message, r

\* A reply to InstallSnapshot is a well-formed message.
LEMMA SnapshotReplyOK ==
    ASSUME DurableOK, NEW m \in InstallSnapshot, m.from # m.to,
           NEW accepted \in BOOLEAN, NEW next \in Nat, NEW done \in BOOLEAN,
           NEW match \in Nat
    PROVE  WellFormed(SnapshotReply(m.to, m, accepted, next, done, match))
<1> DEFINE r == SnapshotReply(m.to, m, accepted, next, done, match)
<1>1. m.from \in Node /\ m.to \in Node /\ m.term \in Nat
      BY Zenon DEF InstallSnapshot
<1>2. currentTerm[m.to] \in Nat
      BY Zenon, <1>1, NodeDurable
<1>3. Larger(currentTerm[m.to], m.term) \in Nat
      BY Zenon, <1>1, <1>2 DEF Larger
<1>4. r \in InstallSnapshotResponse
      BY Zenon, <1>1, <1>3 DEF SnapshotReply, InstallSnapshotResponse
<1>5. r.type = "InstallSnapshotResponse" /\ r.from = m.to /\ r.to = m.from
      BY Zenon DEF SnapshotReply
<1>   HIDE DEF r
<1>   QED  BY Zenon, <1>4, <1>5 DEF WellFormed, Message, r

\* The refusal of an earlier leader's entries keeps the type invariant.
LEMMA OnStaleAppendEntriesOK ==
    ASSUME TypeInv, NEW m \in msgs, OnStaleAppendEntries(m)
    PROVE  TypeInv'
<1> DEFINE c == [index |-> LastIndex(log[m.to]) + 1, term |-> NoTerm]
<1>1. /\ DurableOK' /\ ProcessOK' /\ HistoryOK' /\ VolatileOK'
      BY Zenon, Unchanged DEF OnStaleAppendEntries
<1>2. m \in AppendEntries /\ m.from # m.to /\ m.to \in Node
      BY Zenon, Delivered, MessageKinds DEF OnStaleAppendEntries, Receives
<1>3. c.index \in Nat /\ c.term \in Nat \cup {NoTerm}
      BY <1>2, NodeDurable DEF TypeInv, LastIndex
<1>4. Exchange(m, {AppendReply(m.to, m, FALSE, 0, c)})
      BY Zenon DEF OnStaleAppendEntries
<1>   HIDE DEF c
<1>5. MessagesOK'
      BY Zenon, <1>2, <1>3, <1>4, AppendReplyOK, ExchangeOK DEF TypeInv
<1>   QED  BY Zenon, <1>1, <1>5 DEF TypeInv

\* The log and the commit index that an accepted append leaves behind.
LEMMA MergedOK ==
    ASSUME NaturalsWellOrdered, TypeInv, NEW m \in msgs, m \in AppendEntries,
           AdoptTerm(m.to, m.term),
           AcceptsAppend(log[m.to], base[m.to], m),
           ~ ReplacesCommitted(m.to, m)
    PROVE  LET n == m.to
               k == MergedLog(log[n], base[n], m)
           IN  /\ k \in Seq(Entry) /\ Len(k) \in Nat
               /\ base[n] \in Nat /\ commitIndex[n] \in Nat
               /\ base[n] <= commitIndex[n] /\ commitIndex[n] <= Len(k)
               /\ Sorted(k) /\ NoFutureTerm(k, currentTerm'[n])
<1> DEFINE n == m.to
<1>1. n \in Node /\ m.term \in Nat /\ DurableOK
      BY Zenon, Delivered
<1>2. /\ log[n] \in Seq(Entry) /\ base[n] \in Nat /\ commitIndex[n] \in Nat
      /\ base[n] <= commitIndex[n] /\ commitIndex[n] <= Len(log[n])
      /\ Sorted(log[n]) /\ NoFutureTerm(log[n], currentTerm[n])
      /\ currentTerm[n] \in Nat
      BY Zenon, <1>1, NodeDurable
<1>3. /\ currentTerm'[n] \in Nat /\ currentTerm[n] <= currentTerm'[n]
      /\ m.term <= currentTerm'[n]
      BY Zenon, <1>1, AdoptTermOK
<1>4. NoFutureTerm(log[n], currentTerm'[n])
      BY Zenon, <1>2, <1>3, LaterTerm
<1>5. LET changed == ChangedPositions(log[n], base[n], m)
      IN  ~ (changed # {} /\ m.prev + Min(changed) <= commitIndex[n])
      BY Zenon DEF ReplacesCommitted
<1>6. LET k == MergedLog(log[n], base[n], m)
      IN  /\ k \in Seq(Entry) /\ commitIndex[n] <= Len(k)
          /\ Sorted(k) /\ NoFutureTerm(k, currentTerm'[n])
      BY Zenon, <1>2, <1>3, <1>4, <1>5, MergedLogOK
<1>   QED  BY Zenon, <1>2, <1>6, EntryTerms

\* Adopting a term while the log and the commit index of the node change.
LEMMA AdoptAndStoreOK ==
    ASSUME DurableOK, NEW n \in Node, NEW term \in Nat, AdoptTerm(n, term),
           NEW l \in Seq(Entry), NEW b \in Nat, NEW c \in Nat,
           b <= c, c <= Len(l), Sorted(l), NoFutureTerm(l, currentTerm'[n]),
           log' = [log EXCEPT ![n] = l], base' = [base EXCEPT ![n] = b],
           commitIndex' = [commitIndex EXCEPT ![n] = c]
    PROVE  DurableOK'
<1>1. /\ currentTerm' \in [Node -> Nat]
      /\ votedFor' \in [Node -> Node \cup {NoNode}]
      /\ \A k \in Node : k # n => currentTerm'[k] = currentTerm[k]
      BY Zenon, AdoptTermOK
<1>2. /\ log' \in [Node -> Seq(Entry)] /\ log'[n] = l
      /\ \A k \in Node : k # n => log'[k] = log[k]
      BY Zenon DEF DurableOK
<1>3. /\ base' \in [Node -> Nat] /\ base'[n] = b
      /\ \A k \in Node : k # n => base'[k] = base[k]
      BY Zenon DEF DurableOK
<1>4. /\ commitIndex' \in [Node -> Nat] /\ commitIndex'[n] = c
      /\ \A k \in Node : k # n => commitIndex'[k] = commitIndex[k]
      BY Zenon DEF DurableOK
<1>   QED  BY Zenon, <1>1, <1>2, <1>3, <1>4, DurableStepOK

\* A function that keeps its value at a point is unchanged there.
LEMMA SameAt ==
    ASSUME NEW S, NEW T, NEW f \in [S -> T], NEW x \in S
    PROVE  f = [f EXCEPT ![x] = f[x]]
BY Zenon

\* on_append_entries keeps the type invariant: the merged log is sorted and
\* reaches the commit index.
LEMMA OnAppendEntriesOK ==
    ASSUME NaturalsWellOrdered, TypeInv, NEW m \in msgs, OnAppendEntries(m)
    PROVE  TypeInv'
<1> DEFINE n == m.to
           l == MergedLog(log[n], base[n], m)
<1>1. /\ m \in AppendEntries /\ m.from # m.to /\ n \in Node /\ m.from \in Node
      /\ m.term \in Nat
      /\ DurableOK /\ VolatileOK /\ ProcessOK /\ MessagesOK
      BY Zenon, Delivered, MessageKinds DEF OnAppendEntries, Receives
<1>2. /\ AdoptTerm(n, m.term) /\ StepDown(n, m.from)
      /\ UNCHANGED <<base, incoming, nextRead, historyVars>>
      BY Zenon DEF OnAppendEntries, BecomeFollower
<1>3. VolatileOK' /\ HistoryOK'
      BY Zenon, <1>1, <1>2, StepDownOK, Unchanged
<1>4. CASE ~ AcceptsAppend(log[n], base[n], m)
      <2>1. /\ Exchange(m, {AppendReply(n, m, FALSE, 0,
                                        AppendConflict(log[n], base[n], m))})
            /\ UNCHANGED <<log, commitIndex, fenced>>
            BY Zenon, <1>4 DEF OnAppendEntries
      <2>2. DurableOK'
            BY Zenon, <1>1, <1>2, <2>1, AdoptTermOK, TermGrowsOK
      <2>3. ProcessOK'
            BY Zenon, <1>2, <2>1, Unchanged DEF processVars
      <2>4. MessagesOK'
            <3>1. log[n] \in Seq(Entry) /\ base[n] \in Nat
                  BY Zenon, <1>1, NodeDurable
            <3>2. LET c == AppendConflict(log[n], base[n], m)
                  IN  c.index \in Nat /\ c.term \in Nat \cup {NoTerm}
                  BY Zenon, <1>1, <3>1, ConflictOK
            <3>   QED  BY Zenon, <1>1, <2>1, <3>2, AppendReplyOK, ExchangeOK
      <2>   QED  BY Zenon, <1>3, <2>2, <2>3, <2>4 DEF TypeInv
<1>5. CASE AcceptsAppend(log[n], base[n], m) /\ ReplacesCommitted(n, m)
      <2>1. /\ fenced' = [fenced EXCEPT ![n] = TRUE]
            /\ Exchange(m, {})
            /\ UNCHANGED <<log, commitIndex>>
            BY Zenon, <1>5 DEF OnAppendEntries
      <2>2. DurableOK'
            BY Zenon, <1>1, <1>2, <2>1, AdoptTermOK, TermGrowsOK
      <2>3. ProcessOK'
            BY Zenon, <1>1, <1>2, <2>1 DEF ProcessOK
      <2>4. MessagesOK'
            BY <1>1, <2>1, ExchangeOK
      <2>   QED  BY Zenon, <1>3, <2>2, <2>3, <2>4 DEF TypeInv
<1>6. CASE AcceptsAppend(log[n], base[n], m) /\ ~ ReplacesCommitted(n, m)
      <2> DEFINE commit == FollowerCommit(commitIndex[n], l, m)
                 none == [index |-> 0, term |-> NoTerm]
      <2>1. /\ log' = [log EXCEPT ![n] = l]
            /\ commitIndex' = [commitIndex EXCEPT ![n] = commit]
            /\ Exchange(m, {AppendReply(n, m, TRUE, m.prev + Len(m.entries),
                                        none)})
            /\ UNCHANGED fenced
            BY Zenon, <1>6 DEF OnAppendEntries
      <2>2. /\ l \in Seq(Entry) /\ Len(l) \in Nat
            /\ base[n] \in Nat /\ commitIndex[n] \in Nat
            /\ base[n] <= commitIndex[n] /\ commitIndex[n] <= Len(l)
            /\ Sorted(l) /\ NoFutureTerm(l, currentTerm'[n])
            BY Zenon, <1>1, <1>2, <1>6, MergedOK
      <2>   HIDE DEF l
      <2>3. m.commit \in Nat /\ m.prev \in Nat /\ Len(m.entries) \in Nat
            BY Zenon, <1>1, EntryTerms DEF AppendEntries
      <2>4. commit \in Nat /\ base[n] <= commit /\ commit <= Len(l)
            BY <2>2, <2>3
               DEF FollowerCommit, LastIndex, Larger, Smaller
      <2>   HIDE DEF commit
      <2>5. base' = [base EXCEPT ![n] = base[n]]
            BY Zenon, <1>1, <1>2, SameAt DEF DurableOK
      <2>6. DurableOK'
            BY Zenon, <1>1, <1>2, <2>1, <2>2, <2>4, <2>5, AdoptAndStoreOK
      <2>7. ProcessOK'
            BY Zenon, <1>2, <2>1, Unchanged DEF processVars
      <2>8. MessagesOK'
            <3>1. none.index \in Nat /\ none.term \in Nat \cup {NoTerm}
                  BY Zenon
            <3>2. m.prev + Len(m.entries) \in Nat
                  BY <2>3
            <3>   HIDE DEF none
            <3>   QED  BY Zenon, <1>1, <2>1, <3>1, <3>2, AppendReplyOK,
                          ExchangeOK
      <2>   QED  BY Zenon, <1>3, <2>6, <2>7, <2>8 DEF TypeInv
<1>   QED  BY Zenon, <1>4, <1>5, <1>6

\* A crash right after a term was persisted keeps the type invariant.
LEMMA RestartAfterTermOK ==
    ASSUME TypeInv, NEW m \in msgs, RestartAfterTerm(m)
    PROVE  TypeInv'
<1>1. DurableOK'
      BY Zenon, Delivered, AdoptTermOK, TermGrowsOK DEF RestartAfterTerm
<1>2. VolatileOK' /\ ProcessOK' /\ HistoryOK'
      BY Zenon, Delivered, RecoverOK DEF RestartAfterTerm
<1>3. MessagesOK'
      <2>1. Exchange(m, {}) /\ MessagesOK
            BY Zenon, Delivered DEF RestartAfterTerm
      <2>   QED  BY <2>1, ExchangeOK
<1>   QED  BY Zenon, <1>1, <1>2, <1>3 DEF TypeInv

\* A crash between the entries and the commit index keeps the invariant.
LEMMA RestartAfterLogOK ==
    ASSUME NaturalsWellOrdered, TypeInv, NEW m \in msgs, RestartAfterLog(m)
    PROVE  TypeInv'
<1> DEFINE n == m.to
           l == MergedLog(log[n], base[n], m)
<1>1. /\ m \in AppendEntries /\ n \in Node /\ m.term \in Nat
      /\ DurableOK /\ MessagesOK
      BY Zenon, Delivered, MessageKinds DEF RestartAfterLog, Receives
<1>2. /\ AdoptTerm(n, m.term) /\ Recover(n) /\ Exchange(m, {})
      /\ AcceptsAppend(log[n], base[n], m) /\ ~ ReplacesCommitted(n, m)
      /\ log' = [log EXCEPT ![n] = l]
      /\ UNCHANGED <<commitIndex, base>>
      BY Zenon DEF RestartAfterLog
<1>3. /\ l \in Seq(Entry) /\ Len(l) \in Nat
      /\ base[n] \in Nat /\ commitIndex[n] \in Nat
      /\ base[n] <= commitIndex[n] /\ commitIndex[n] <= Len(l)
      /\ Sorted(l) /\ NoFutureTerm(l, currentTerm'[n])
      BY Zenon, <1>1, <1>2, MergedOK
<1>   HIDE DEF l
<1>4. /\ base' = [base EXCEPT ![n] = base[n]]
      /\ commitIndex' = [commitIndex EXCEPT ![n] = commitIndex[n]]
      BY Zenon, <1>1, <1>2, SameAt DEF DurableOK
<1>5. DurableOK'
      BY Zenon, <1>1, <1>2, <1>3, <1>4, AdoptAndStoreOK
<1>6. VolatileOK' /\ ProcessOK' /\ HistoryOK'
      BY Zenon, <1>1, <1>2, RecoverOK
<1>7. MessagesOK'
      BY <1>1, <1>2, ExchangeOK
<1>   QED  BY Zenon, <1>5, <1>6, <1>7 DEF TypeInv

\* The progress of a peer after a success or a rejection.
LEMMA MatchedOK ==
    ASSUME NEW n, NEW m, m.match \in Nat, progress[n][m.from] \in ProgressRecord,
           progress[n][m.from].next >= 1
    PROVE  Matched(n, m) \in ProgressRecord /\ Matched(n, m).next >= 1
<1> DEFINE pr == progress[n][m.from]
<1>1. pr.match \in Nat /\ pr.next \in Nat /\ pr.next >= 1
      BY Zenon DEF ProgressRecord
<1>   HIDE DEF pr
<1>2. /\ Larger(pr.match, m.match) \in Nat
      /\ Larger(pr.next, m.match + 1) \in Nat
      /\ Larger(pr.next, m.match + 1) >= 1
      BY <1>1 DEF Larger
<1>3. Matched(n, m) = [match |-> Larger(pr.match, m.match),
                       next |-> Larger(pr.next, m.match + 1), offset |-> 0]
      BY Zenon DEF Matched, pr
<1>   QED  BY <1>2, <1>3 DEF ProgressRecord

\* After a rejection the next index is still at least 1.
LEMMA BackedOffOK ==
    ASSUME NaturalsWellOrdered,
           DurableOK, NEW n \in Node, NEW m \in AppendEntriesResponse,
           progress[n][m.from] \in ProgressRecord,
           progress[n][m.from].next >= 1
    PROVE  BackedOff(n, m) \in ProgressRecord /\ BackedOff(n, m).next >= 1
<1> DEFINE held == IF m.conflictTerm = NoTerm THEN NoTerm
                   ELSE LastIndexOfTerm(log[n], base[n], m.conflictTerm)
           hint == Larger(IF held = NoTerm THEN m.conflictIndex ELSE held + 1, 1)
           pr == progress[n][m.from]
           next == Smaller(hint, Larger(pr.next - 1, 1))
<1>1. pr.match \in Nat /\ pr.next \in Nat /\ pr.next >= 1
      BY Zenon DEF ProgressRecord
<1>2. m.conflictIndex \in Nat
      BY Zenon DEF AppendEntriesResponse
<1>3. held \in Nat \cup {NoTerm}
      BY Zenon, NodeDurable, LastIndexOfTermType
<1>   HIDE DEF held, pr
<1>4. hint \in Nat /\ hint >= 1
      BY <1>2, <1>3 DEF Larger
<1>   HIDE DEF hint
<1>5. next \in Nat /\ next >= 1
      BY <1>1, <1>4 DEF Smaller, Larger
<1>6. BackedOff(n, m) = [match |-> pr.match, next |-> next, offset |-> 0]
      BY Zenon DEF BackedOff, held, hint, pr
<1>   HIDE DEF next
<1>   QED  BY <1>1, <1>5, <1>6 DEF ProgressRecord

\* Acknowledging a read leaves well-formed pending reads.
LEMMA AcknowledgedReadsOK ==
    ASSUME NEW n \in Node, NEW m, m.from \in Node,
           pendingReads[n] \subseteq PendingRead
    PROVE  AcknowledgedReads(n, m) \subseteq PendingRead
<1>1. \A r \in PendingRead : [r EXCEPT !.acks = @ \cup {m.from}] \in PendingRead
      BY Zenon DEF PendingRead
<1>   QED  BY Zenon, <1>1 DEF AcknowledgedReads

\* A leader records what a peer replied and answers it from its own log.
LEMMA LeaderRepliesOK ==
    ASSUME NaturalsWellOrdered,
           TypeInv, NEW m \in msgs, NEW n \in Node, n = m.to,
           role[n] = "Leader",
           NEW pr \in ProgressRecord, pr.next >= 1,
           NEW prog, prog = [progress[n] EXCEPT ![m.from] = pr],
           NEW commit, \/ commit = commitIndex[n]
                       \/ commit = AdvanceLeaderCommit(n, log[n], prog),
           progress' = [progress EXCEPT ![n] = prog],
           recentActive' = [recentActive EXCEPT ![n] = @ \cup {m.from}],
           pendingReads' \in [Node -> SUBSET PendingRead],
           commitIndex' = [commitIndex EXCEPT ![n] = commit],
           NEW sent,
           sent \subseteq {SendAppend(n, m.from, log[n], commit, pr, NoContext)},
           Exchange(m, sent),
           UNCHANGED <<currentTerm, votedFor, log, base, roleVars,
                       processVars, historyVars>>
    PROVE  TypeInv'
<1>1. /\ m.from \in Node /\ m.from # n
      /\ DurableOK /\ VolatileOK /\ MessagesOK
      BY Zenon, Delivered
<1>2. /\ log[n] \in Seq(Entry) /\ base[n] \in Nat /\ commitIndex[n] \in Nat
      /\ Len(log[n]) \in Nat
      /\ base[n] <= commitIndex[n] /\ commitIndex[n] <= Len(log[n])
      /\ base[n] <= Len(log[n])
      /\ Sorted(log[n]) /\ NoFutureTerm(log[n], currentTerm[n])
      BY Zenon, <1>1, NodeDurable
<1>3. /\ prog \in [Node -> ProgressRecord]
      /\ \A p \in Node : prog[p].next >= 1
      BY Zenon, <1>1, NodeVolatile
<1>4. commit \in Nat /\ commitIndex[n] <= commit /\ commit <= Len(log[n])
      <2> DEFINE advanced == AdvanceLeaderCommit(n, log[n], prog)
      <2>1. /\ advanced \in Nat /\ commitIndex[n] <= advanced
            /\ advanced <= Len(log[n])
            BY Zenon, <1>1, <1>2, <1>3, AdvanceOK
      <2>   HIDE DEF advanced
      <2>2. commit = commitIndex[n] \/ commit = advanced
            BY Zenon DEF advanced
      <2>   QED  BY <1>2, <2>1, <2>2
<1>5. DurableOK'
      <2>1. log' = [log EXCEPT ![n] = log[n]]
            BY Zenon, <1>1, SameAt DEF DurableOK
      <2>2. base[n] <= commit
            BY <1>2, <1>4
      <2>   QED  BY Zenon, <1>1, <1>2, <1>4, <2>1, <2>2, LogStepOK
<1>6. VolatileOK'
      <2>1. recentActive' \in [Node -> SUBSET Node]
            BY Zenon, <1>1 DEF VolatileOK
      <2>   QED  BY Zenon, <1>1, <1>3, <2>1, LeaderStepOK
<1>7. MessagesOK'
      <2>1. NoContext \in Context
            BY Zenon DEF Context
      <2>2. WellFormed(SendAppend(n, m.from, log[n], commit, pr, NoContext))
            BY Zenon, <1>1, <1>2, <1>4, <2>1, SendAppendOK
      <2>   QED  BY Zenon, <1>1, <2>2, ExchangeOK
<1>   QED  BY Zenon, <1>5, <1>6, <1>7, Unchanged DEF TypeInv

\* on_append_response keeps the type invariant.
LEMMA OnAppendResponseOK ==
    ASSUME NaturalsWellOrdered, TypeInv, NEW m \in msgs, OnAppendResponse(m)
    PROVE  TypeInv'
<1> DEFINE n == m.to
           pr == IF m.success THEN Matched(n, m) ELSE BackedOff(n, m)
           prog == [progress[n] EXCEPT ![m.from] = pr]
           commit == IF m.success THEN AdvanceLeaderCommit(n, log[n], prog)
                     ELSE commitIndex[n]
           sent == IF m.success /\ m.match >= LastIndex(log[n]) THEN {}
                   ELSE {SendAppend(n, m.from, log[n], commit, pr, NoContext)}
<1>1. CASE StepDownOnNewerTerm(m)
      BY Zenon, <1>1, StepDownOnNewerTermOK
<1>2. CASE ~ StepDownOnNewerTerm(m)
      <2>1. /\ role[n] = "Leader"
            /\ recentActive' = [recentActive EXCEPT ![n] = @ \cup {m.from}]
            /\ pendingReads' = [pendingReads EXCEPT ![n] =
                                    AcknowledgedReads(n, m)]
            /\ progress' = [progress EXCEPT ![n] = prog]
            /\ commitIndex' = [commitIndex EXCEPT ![n] = commit]
            /\ Exchange(m, sent)
            /\ UNCHANGED <<currentTerm, votedFor, log, base, roleVars,
                           processVars, historyVars>>
            BY Zenon, <1>2 DEF OnAppendResponse
      <2>2. /\ m \in AppendEntriesResponse /\ n \in Node /\ m.from \in Node
            /\ DurableOK /\ VolatileOK
            BY Zenon, Delivered, MessageKinds DEF OnAppendResponse, Receives
      <2>3. /\ progress[n][m.from] \in ProgressRecord
            /\ progress[n][m.from].next >= 1
            BY Zenon, <2>1, <2>2, NodeVolatile
      <2>4. m.match \in Nat
            BY Zenon, <2>2 DEF AppendEntriesResponse
      <2>5. pr \in ProgressRecord /\ pr.next >= 1
            BY Zenon, <2>2, <2>3, <2>4, MatchedOK, BackedOffOK
      <2>6. pendingReads' \in [Node -> SUBSET PendingRead]
            <3>1. AcknowledgedReads(n, m) \subseteq PendingRead
                  BY Zenon, <2>2, NodeVolatile, AcknowledgedReadsOK
            <3>   QED  BY Zenon, <2>1, <2>2, <3>1 DEF VolatileOK
      <2>   HIDE DEF pr
      <2>7. \/ commit = commitIndex[n]
            \/ commit = AdvanceLeaderCommit(n, log[n], prog)
            BY Zenon
      <2>8. sent \subseteq
                {SendAppend(n, m.from, log[n], commit, pr, NoContext)}
            BY Zenon
      <2>   HIDE DEF prog, commit, sent
      <2>9. prog = [progress[n] EXCEPT ![m.from] = pr]
            BY Zenon DEF prog
      <2>   QED  BY Zenon, <2>1, <2>2, <2>5, <2>6, <2>7, <2>8, <2>9,
                    LeaderRepliesOK
<1>   QED  BY Zenon, <1>1, <1>2

\* The refusal of an earlier leader's snapshot keeps the type invariant.
LEMMA OnStaleInstallSnapshotOK ==
    ASSUME TypeInv, NEW m \in msgs, OnStaleInstallSnapshot(m)
    PROVE  TypeInv'
<1>1. /\ DurableOK' /\ ProcessOK' /\ HistoryOK' /\ VolatileOK'
      BY Zenon, Unchanged DEF OnStaleInstallSnapshot
<1>2. m \in InstallSnapshot /\ m.from # m.to /\ DurableOK /\ MessagesOK
      BY Zenon, Delivered, MessageKinds DEF OnStaleInstallSnapshot, Receives
<1>3. Exchange(m, {SnapshotReply(m.to, m, FALSE, 0, FALSE, 0)})
      BY Zenon DEF OnStaleInstallSnapshot
<1>4. WellFormed(SnapshotReply(m.to, m, FALSE, 0, FALSE, 0))
      BY Zenon, <1>2, SnapshotReplyOK
<1>5. MessagesOK'
      BY Zenon, <1>2, <1>3, <1>4, ExchangeOK
<1>   QED  BY Zenon, <1>1, <1>5 DEF TypeInv

\* on_install_snapshot keeps the type invariant: the boundary, the commit
\* index and the installed log fit together.
LEMMA OnInstallSnapshotOK ==
    ASSUME TypeInv, NEW m \in msgs, OnInstallSnapshot(m)
    PROVE  TypeInv'
<1> DEFINE n == m.to
           index == Len(m.snapshot)
           transfer == Transfer(n, m)
           applied == index <= commitIndex[n]
           fits == /\ ~applied
                   /\ transfer.snapshot = m.snapshot /\ m.offset = transfer.next
           got == Smaller(m.offset + 1, Chunks)
<1>1. /\ m \in InstallSnapshot /\ m.from # m.to /\ n \in Node /\ m.from \in Node
      /\ m.term \in Nat
      /\ DurableOK /\ VolatileOK /\ ProcessOK /\ MessagesOK
      BY Zenon, Delivered, MessageKinds DEF OnInstallSnapshot, Receives
<1>2. /\ m.snapshot \in Seq(Entry) /\ index \in Nat /\ m.offset \in Nat
      /\ Chunks \in Nat /\ got \in Nat
      BY <1>1, EntryTerms, ParametersAssumption
         DEF InstallSnapshot, Smaller
<1>3. Sorted(m.snapshot) /\ NoFutureTerm(m.snapshot, m.term)
      BY Zenon, <1>1 DEF MessagesOK, WellFormed, InstallSnapshot
<1>4. /\ AdoptTerm(n, m.term) /\ StepDown(n, m.from)
      /\ UNCHANGED <<fenced, nextRead, historyVars>>
      BY Zenon DEF OnInstallSnapshot, BecomeFollower
<1>5. VolatileOK' /\ HistoryOK'
      BY Zenon, <1>1, <1>4, StepDownOK, Unchanged
<1>6. transfer \in [snapshot : Seq(Entry), next : Nat]
      BY Zenon, <1>1, <1>2 DEF Transfer, ProcessOK
<1>7. transfer.next \in Nat
      BY Zenon, <1>6
<1>8. ASSUME UNCHANGED <<commitIndex, log, base>>,
             incoming' \in [Node -> [snapshot : Seq(Entry), next : Nat]],
             NEW accepted \in BOOLEAN, NEW next \in Nat, NEW done \in BOOLEAN,
             NEW match \in Nat,
             Exchange(m, {SnapshotReply(n, m, accepted, next, done, match)})
      PROVE  TypeInv'
      <2>1. DurableOK'
            BY Zenon, <1>1, <1>4, <1>8, AdoptTermOK, TermGrowsOK
      <2>2. ProcessOK'
            BY Zenon, <1>1, <1>4, <1>8 DEF ProcessOK
      <2>3. MessagesOK'
            <3>1. WellFormed(SnapshotReply(n, m, accepted, next, done, match))
                  BY Zenon, <1>1, SnapshotReplyOK
            <3>   QED  BY Zenon, <1>1, <1>8, <3>1, ExchangeOK
      <2>   QED  BY Zenon, <1>5, <2>1, <2>2, <2>3 DEF TypeInv
<1>9. incoming \in [Node -> [snapshot : Seq(Entry), next : Nat]]
      BY Zenon, <1>1 DEF ProcessOK
<1>10. CASE applied
      <2>1. /\ Exchange(m, {SnapshotReply(n, m, TRUE, Chunks, TRUE, index)})
            /\ UNCHANGED <<commitIndex, log, base, incoming>>
            BY Zenon, <1>10 DEF OnInstallSnapshot
      <2>   QED  BY Zenon, <1>2, <1>8, <1>9, <2>1
<1>11. CASE ~applied /\ ~fits
      <2>1. /\ Exchange(m,
                  {IF transfer.snapshot # m.snapshot
                   THEN SnapshotReply(n, m, FALSE, 0, FALSE, 0)
                   ELSE SnapshotReply(n, m, m.offset < transfer.next,
                                      transfer.next, FALSE, 0)})
            /\ UNCHANGED <<commitIndex, log, base, incoming>>
            BY Zenon, <1>11 DEF OnInstallSnapshot
      <2>2. CASE transfer.snapshot # m.snapshot
            <3>1. Exchange(m, {SnapshotReply(n, m, FALSE, 0, FALSE, 0)})
                  BY Zenon, <2>1, <2>2
            <3>   QED  BY Zenon, <1>8, <1>9, <2>1, <3>1
      <2>3. CASE transfer.snapshot = m.snapshot
            <3> DEFINE before == m.offset < transfer.next
            <3>1. before \in BOOLEAN
                  OBVIOUS
            <3>2. Exchange(m, {SnapshotReply(n, m, before, transfer.next,
                                             FALSE, 0)})
                  BY Zenon, <2>1, <2>3
            <3>   HIDE DEF before
            <3>   QED  BY Zenon, <1>7, <1>8, <1>9, <2>1, <3>1, <3>2
      <2>   QED  BY Zenon, <2>2, <2>3
<1>12. CASE fits /\ ~m.done
      <2>1. /\ incoming' = [incoming EXCEPT ![n] =
                                [snapshot |-> m.snapshot, next |-> got]]
            /\ Exchange(m, {SnapshotReply(n, m, TRUE, got, FALSE, 0)})
            /\ UNCHANGED <<commitIndex, log, base>>
            BY Zenon, <1>12 DEF OnInstallSnapshot
      <2>   HIDE DEF got
      <2>2. incoming' \in [Node -> [snapshot : Seq(Entry), next : Nat]]
            BY Zenon, <1>2, <1>9, <2>1
      <2>   QED  BY Zenon, <1>2, <1>8, <2>1, <2>2
<1>13. CASE fits /\ m.done
      <2> DEFINE l == InstalledLog(log[n], base[n], m.snapshot)
                 c == Larger(commitIndex[n], index)
      <2>1. /\ incoming' = [incoming EXCEPT ![n] = NoTransfer]
            /\ log' = [log EXCEPT ![n] = l]
            /\ base' = [base EXCEPT ![n] = index]
            /\ commitIndex' = [commitIndex EXCEPT ![n] = c]
            /\ Exchange(m, {SnapshotReply(n, m, TRUE, Chunks, TRUE, index)})
            BY Zenon, <1>13 DEF OnInstallSnapshot
      <2>2. /\ log[n] \in Seq(Entry) /\ base[n] \in Nat
            /\ commitIndex[n] \in Nat /\ currentTerm[n] \in Nat
            /\ Sorted(log[n]) /\ NoFutureTerm(log[n], currentTerm[n])
            BY Zenon, <1>1, NodeDurable
      <2>3. /\ currentTerm'[n] \in Nat /\ currentTerm[n] <= currentTerm'[n]
            /\ m.term <= currentTerm'[n]
            BY Zenon, <1>1, <1>4, AdoptTermOK
      <2>4. /\ NoFutureTerm(log[n], currentTerm'[n])
            /\ NoFutureTerm(m.snapshot, currentTerm'[n])
            BY Zenon, <1>1, <1>2, <1>3, <2>2, <2>3, LaterTerm
      <2>5. /\ l \in Seq(Entry) /\ index <= Len(l)
            /\ Sorted(l) /\ NoFutureTerm(l, currentTerm'[n])
            BY Zenon, <1>2, <1>3, <2>2, <2>3, <2>4, InstalledLogOK
      <2>6. c \in Nat /\ index <= c /\ c <= Len(l)
            <3>1. c = index
                  BY Zenon, <1>2, <1>13, <2>2 DEF Larger
            <3>   QED  BY <1>2, <2>5, <3>1
      <2>   HIDE DEF l, c, index
      <2>7. DurableOK'
            BY Zenon, <1>1, <1>2, <1>4, <2>1, <2>5, <2>6, AdoptAndStoreOK
      <2>8. ProcessOK'
            <3>1. NoTransfer \in [snapshot : Seq(Entry), next : Nat]
                  BY DEF NoTransfer
            <3>   QED  BY Zenon, <1>1, <1>4, <2>1, <3>1 DEF ProcessOK
      <2>9. MessagesOK'
            BY Zenon, <1>1, <1>2, <2>1, SnapshotReplyOK, ExchangeOK
      <2>   QED  BY Zenon, <1>5, <2>7, <2>8, <2>9 DEF TypeInv
<1>   QED  BY Zenon, <1>10, <1>11, <1>12, <1>13

\* on_snapshot_response keeps the type invariant.
LEMMA OnSnapshotResponseOK ==
    ASSUME NaturalsWellOrdered, TypeInv, NEW m \in msgs, OnSnapshotResponse(m)
    PROVE  TypeInv'
<1> DEFINE n == m.to
           installed == m.done /\ m.accepted
           other == [progress[n][m.from] EXCEPT !.offset =
                         IF m.accepted THEN m.next ELSE 0]
           pr == IF installed THEN Matched(n, m) ELSE other
           prog == [progress[n] EXCEPT ![m.from] = pr]
           commit == IF installed THEN AdvanceLeaderCommit(n, log[n], prog)
                     ELSE commitIndex[n]
           sent == {SendAppend(n, m.from, log[n], commit, pr, NoContext)}
<1>1. CASE StepDownOnNewerTerm(m)
      BY Zenon, <1>1, StepDownOnNewerTermOK
<1>2. CASE ~ StepDownOnNewerTerm(m)
      <2>1. /\ role[n] = "Leader"
            /\ recentActive' = [recentActive EXCEPT ![n] = @ \cup {m.from}]
            /\ progress' = [progress EXCEPT ![n] = prog]
            /\ commitIndex' = [commitIndex EXCEPT ![n] = commit]
            /\ Exchange(m, sent)
            /\ UNCHANGED <<currentTerm, votedFor, log, base, roleVars,
                           pendingReads, processVars, historyVars>>
            BY Zenon, <1>2 DEF OnSnapshotResponse
      <2>2. /\ m \in InstallSnapshotResponse /\ n \in Node /\ m.from \in Node
            /\ DurableOK /\ VolatileOK
            BY Zenon, Delivered, MessageKinds DEF OnSnapshotResponse, Receives
      <2>3. /\ progress[n][m.from] \in ProgressRecord
            /\ progress[n][m.from].next >= 1
            BY Zenon, <2>1, <2>2, NodeVolatile
      <2>4. m.match \in Nat /\ m.next \in Nat
            BY Zenon, <2>2 DEF InstallSnapshotResponse
      <2>5. pr \in ProgressRecord /\ pr.next >= 1
            <3>1. other \in ProgressRecord /\ other.next >= 1
                  BY Zenon, <2>3, <2>4 DEF ProgressRecord
            <3>   HIDE DEF other
            <3>   QED  BY Zenon, <2>3, <2>4, <3>1, MatchedOK
      <2>6. pendingReads' \in [Node -> SUBSET PendingRead]
            BY Zenon, <2>1, <2>2 DEF VolatileOK
      <2>   HIDE DEF pr
      <2>7. \/ commit = commitIndex[n]
            \/ commit = AdvanceLeaderCommit(n, log[n], prog)
            BY Zenon
      <2>   HIDE DEF prog, commit
      <2>8. prog = [progress[n] EXCEPT ![m.from] = pr]
            BY Zenon DEF prog
      <2>9. sent \subseteq
                {SendAppend(n, m.from, log[n], commit, pr, NoContext)}
            BY Zenon
      <2>   HIDE DEF sent
      <2>   QED  BY Zenon, <2>1, <2>2, <2>5, <2>6, <2>7, <2>8, <2>9,
                    LeaderRepliesOK
<1>   QED  BY Zenon, <1>1, <1>2

-----------------------------------------------------------------------------
(***************************************************************************)
(* What the messages are.                                                  *)
(***************************************************************************)

\* The messages of an election, and the replies that acknowledge nothing.
LEMMA PlainMessages ==
    ASSUME NEW x
    PROVE  /\ x.type \in {"PreVoteRequest", "PreVoteResponse",
                          "RequestVoteResponse"} => Plain(x)
           /\ x.type = "AppendEntriesResponse" /\ x.success = FALSE => Plain(x)
           /\ x.type = "InstallSnapshotResponse" /\ x.done = FALSE => Plain(x)
BY DEF Plain, FromLeader, IsAck

\* A node that becomes a follower; the others keep their roles.
LEMMA StepDownFacts ==
    ASSUME VolatileOK, NEW n \in Node, NEW leader, StepDown(n, leader)
    PROVE  /\ role'[n] = "Follower"
           /\ \A k \in Node : k # n => /\ role'[k] = role[k]
                                       /\ progress'[k] = progress[k]
BY Zenon DEF VolatileOK, StepDown

\* A node that becomes a follower and says nothing of importance.
LEMMA QuietFollower ==
    ASSUME TypeInv, NEW n \in Node, NEW leader, StepDown(n, leader),
           currentTerm[n] <= currentTerm'[n],
           \A k \in Node : k # n => currentTerm'[k] = currentTerm[k],
           UNCHANGED <<log, commitIndex, ballots, leaderships>>,
           \A x \in msgs' : x \in msgs \/ Plain(x)
    PROVE  Quiet(n)
<1>1. /\ role'[n] = "Follower"
      /\ \A k \in Node : k # n => role'[k] = role[k] /\ progress'[k] = progress[k]
      BY Zenon, StepDownFacts DEF TypeInv
<1>2. role'[n] # "Leader" /\ role'[n] # "Candidate"
      BY <1>1
<1>   QED  BY Zenon, <1>1, <1>2 DEF Quiet, Others

\* A node that does nothing but send.
LEMMA QuietSender ==
    ASSUME TypeInv, NEW n \in Node,
           UNCHANGED <<currentTerm, role, progress, log, commitIndex, ballots,
                       leaderships>>,
           \A x \in msgs' : x \in msgs \/ Plain(x)
    PROVE  Quiet(n)
<1>1. currentTerm[n] <= currentTerm[n]
      BY NodeDurable DEF TypeInv
<1>   QED  BY Zenon, <1>1 DEF Quiet, Others

\* A response of a later term.
LEMMA NewerTermQuiet ==
    ASSUME TypeInv, NEW m \in msgs, StepDownOnNewerTerm(m)
    PROVE  Quiet(m.to)
<1>1. m.to \in Node /\ m.term \in Nat /\ DurableOK
      BY Zenon, Delivered
<1>2. /\ AdoptTerm(m.to, m.term) /\ StepDown(m.to, NoNode)
      /\ UNCHANGED <<log, commitIndex, ballots, leaderships>>
      /\ msgs' \subseteq msgs
      BY Zenon DEF StepDownOnNewerTerm, BecomeFollower, historyVars, Exchange
<1>3. /\ currentTerm[m.to] <= currentTerm'[m.to]
      /\ \A k \in Node : k # m.to => currentTerm'[k] = currentTerm[k]
      BY Zenon, <1>1, <1>2, AdoptTermOK
<1>   QED  BY Zenon, <1>1, <1>2, <1>3, QuietFollower

\* A leader that sends from its log and changes nothing else.
LEMMA BroadcastLeading ==
    ASSUME TypeInv, NEW n \in Node, role[n] = "Leader", NEW context,
           UNCHANGED <<currentTerm, role, progress, log, commitIndex, ballots,
                       leaderships>>,
           msgs' \subseteq msgs \cup BroadcastAppend(n, log[n], commitIndex[n],
                                                     progress[n], context)
    PROVE  Leading(n)
<1>1. /\ DurableOK /\ log[n] \in Seq(Entry) /\ base[n] <= Len(log[n])
      /\ \A i \in 1 .. base[n] : log[n][i] = log[n][i]
      BY Zenon, NodeDurable DEF TypeInv
<1>2. /\ progress[n] \in [Node -> ProgressRecord]
      /\ \A p \in Node : progress[n][p].next >= 1
      BY Zenon, NodeVolatile DEF TypeInv
<1>3. \A x \in BroadcastAppend(n, log[n], commitIndex[n], progress[n], context) :
          LeaderMessage(n, log[n], commitIndex[n], x)
      BY Zenon, <1>1, <1>2, BroadcastPart
<1>4. \A x \in msgs' : x \in msgs \/ LeaderMessage(n, log[n], commitIndex[n], x)
      BY Zenon, <1>3
<1>   QED  BY Zenon, <1>4 DEF Leading, Others, Advances

-----------------------------------------------------------------------------
(***************************************************************************)
(* Timers, reads, snapshots and restarts.                                  *)
(***************************************************************************)

\* The actions of a node on its own, but for Propose.
LEMMA TimerKinds ==
    ASSUME TypeInv, NEW n \in Node,
           \/ ElectionTick(n) \/ HeartbeatTick(n) \/ CheckQuorumTick(n)
           \/ ReadIndex(n) \/ Restart(n) \/ (\E i : SnapshotBuilt(n, i))
    PROVE  Quiet(n) \/ Leading(n)
<1>0. currentTerm[n] <= currentTerm[n]
      BY NodeDurable DEF TypeInv
<1>1. CASE ElectionTick(n)
      <2>1. /\ role' = [role EXCEPT ![n] = "PreCandidate"]
            /\ UNCHANGED <<currentTerm, log, commitIndex, progress, ballots,
                           leaderships>>
            BY Zenon, <1>1 DEF ElectionTick, durableVars, leaderVars, historyVars
      <2>2. role'[n] = "PreCandidate" /\ \A k \in Node : k # n => role'[k] = role[k]
            BY Zenon, <2>1 DEF TypeInv, VolatileOK
      <2>3. role'[n] # "Leader" /\ role'[n] # "Candidate"
            BY <2>2
      <2>4. \A x \in msgs' : x \in msgs \/ x.type = "PreVoteRequest"
            BY <1>1 DEF ElectionTick
      <2>5. \A x \in msgs' : x \in msgs \/ Plain(x)
            BY Zenon, <2>4, PlainMessages
      <2>   QED  BY Zenon, <1>0, <2>1, <2>2, <2>3, <2>5 DEF Quiet, Others
<1>2. CASE HeartbeatTick(n)
      <2>1. /\ role[n] = "Leader"
            /\ UNCHANGED <<currentTerm, role, progress, log, commitIndex,
                           ballots, leaderships>>
            /\ msgs' \subseteq msgs \cup BroadcastAppend(n, log[n],
                                 commitIndex[n], progress[n], NoContext)
            BY Zenon, <1>2 DEF HeartbeatTick, durableVars, roleVars,
               leaderVars, historyVars
      <2>   QED  BY Zenon, <2>1, BroadcastLeading
<1>3. CASE CheckQuorumTick(n) /\ IsQuorum(recentActive[n])
      <2>1. /\ role[n] = "Leader"
            /\ UNCHANGED <<currentTerm, role, progress, log, commitIndex,
                           ballots, leaderships>>
            /\ msgs' \subseteq msgs \cup BroadcastAppend(n, log[n],
                                 commitIndex[n], progress[n], NoContext)
            BY Zenon, <1>3 DEF CheckQuorumTick, durableVars, roleVars,
               historyVars
      <2>   QED  BY Zenon, <2>1, BroadcastLeading
<1>4. CASE ReadIndex(n)
      <2> DEFINE context == <<n, nextRead[n]>>
      <2>1. /\ role[n] = "Leader"
            /\ UNCHANGED <<currentTerm, role, progress, log, commitIndex,
                           ballots, leaderships>>
            /\ msgs' \subseteq msgs \cup BroadcastAppend(n, log[n],
                                 commitIndex[n], progress[n], context)
            BY Zenon, <1>4 DEF ReadIndex, durableVars, roleVars, historyVars
      <2>   HIDE DEF context
      <2>   QED  BY Zenon, <2>1, BroadcastLeading
<1>5. CASE \/ CheckQuorumTick(n) /\ ~ IsQuorum(recentActive[n])
           \/ Restart(n)
      <2>1. /\ StepDown(n, NoNode)
            /\ UNCHANGED <<currentTerm, log, commitIndex, ballots, leaderships>>
            /\ msgs' \subseteq msgs
            BY Zenon, <1>5 DEF CheckQuorumTick, Restart, Recover, durableVars,
                        historyVars
      <2>   QED  BY Zenon, <1>0, <2>1, QuietFollower
<1>6. CASE \E i : SnapshotBuilt(n, i)
      <2>1. /\ UNCHANGED <<currentTerm, role, progress, log, commitIndex,
                           ballots, leaderships>>
            /\ msgs' \subseteq msgs
            BY Zenon, <1>6 DEF SnapshotBuilt, roleVars, leaderVars, historyVars
      <2>   QED  BY Zenon, <2>1, QuietSender
<1>   QED  BY Zenon, <1>1, <1>2, <1>3, <1>4, <1>5, <1>6

\* A crash in the middle of a batch, after the term.
LEMMA RestartAfterTermKind ==
    ASSUME TypeInv, NEW m \in msgs, RestartAfterTerm(m)
    PROVE  Quiet(m.to)
<1>1. m.to \in Node /\ m.term \in Nat /\ DurableOK
      BY Zenon, Delivered
<1>2. /\ AdoptTerm(m.to, m.term) /\ StepDown(m.to, NoNode)
      /\ UNCHANGED <<log, commitIndex, ballots, leaderships>>
      /\ msgs' \subseteq msgs
      BY Zenon DEF RestartAfterTerm, Recover, historyVars, Exchange
<1>3. /\ currentTerm[m.to] <= currentTerm'[m.to]
      /\ \A k \in Node : k # m.to => currentTerm'[k] = currentTerm[k]
      BY Zenon, <1>1, <1>2, AdoptTermOK
<1>   QED  BY Zenon, <1>1, <1>2, <1>3, QuietFollower

\* A message that the network drops.
LEMMA LoseKind ==
    ASSUME TypeInv, NEW m \in msgs, Lose(m)
    PROVE  Quiet(m.to)
<1>1. /\ UNCHANGED <<currentTerm, role, progress, log, commitIndex, ballots,
                     leaderships>>
      /\ msgs' \subseteq msgs
      BY Zenon DEF Lose, durableVars, roleVars, leaderVars, historyVars
<1>   QED  BY Zenon, <1>1, Delivered, QuietSender

-----------------------------------------------------------------------------
(***************************************************************************)
(* Elections.                                                              *)
(***************************************************************************)

\* A pre-vote changes nothing but the network.
LEMMA PreVoteRequestKind ==
    ASSUME TypeInv, NEW m \in msgs, OnPreVoteRequest(m)
    PROVE  Quiet(m.to)
<1>1. UNCHANGED <<currentTerm, role, progress, log, commitIndex, ballots,
                  leaderships>>
      BY Zenon DEF OnPreVoteRequest, durableVars, roleVars, leaderVars,
                   historyVars
<1>2. \A x \in msgs' : x \in msgs \/ x.type = "PreVoteResponse"
      BY DEF OnPreVoteRequest, Exchange
<1>3. \A x \in msgs' : x \in msgs \/ Plain(x)
      BY Zenon, <1>2, PlainMessages
<1>   QED  BY Zenon, <1>1, <1>3, Delivered, QuietSender

\* Standing in the term the pre-vote was held for.
LEMMA StartElectionKind ==
    ASSUME TypeInv, NEW n \in Node, NEW term \in Nat, term > currentTerm[n],
           NEW m, StartElection(n, term, m),
           UNCHANGED <<commitIndex, log, progress, leaderships>>
    PROVE  Quiet(n)
<1> DEFINE ask(p) == [type |-> "RequestVote", from |-> n, to |-> p,
                      term |-> term, lastIndex |-> LastIndex(log[n]),
                      lastTerm |-> LastTerm(log[n])]
           new == [voter |-> n, candidate |-> n, term |-> term]
<1>1. /\ currentTerm'[n] = term /\ role'[n] = "Candidate"
      /\ \A k \in Node : k # n => /\ currentTerm'[k] = currentTerm[k]
                                  /\ role'[k] = role[k]
      BY Zenon DEF StartElection, TypeInv, DurableOK, VolatileOK
<1>2. currentTerm[n] <= currentTerm'[n] /\ currentTerm[n] < currentTerm'[n]
      BY <1>1, NodeDurable DEF TypeInv
<1>3. ballots' = ballots \cup {new}
      BY Zenon DEF StartElection
<1>4. Voting(n, new)
      BY Zenon, <1>1, <1>2 DEF Voting
<1>5. \A x \in msgs' : x \in msgs \/ \E p \in Peers(n) : x = ask(p)
      BY Zenon DEF StartElection, Exchange
<1>6. \A p : Asking(n, ask(p))
      BY Zenon, <1>1 DEF Asking, LastIndex
<1>   HIDE DEF ask, new
<1>7. \A x \in msgs' : x \in msgs \/ Plain(x) \/ Asking(n, x)
      BY Zenon, <1>5, <1>6
<1>8. role'[n] # "Leader"
      BY <1>1
<1>   QED  BY Zenon, <1>1, <1>2, <1>3, <1>4, <1>7, <1>8 DEF Quiet, Others

LEMMA PreVoteResponseKind ==
    ASSUME TypeInv, CampaignOK, NEW m \in msgs, OnPreVoteResponse(m)
    PROVE  Quiet(m.to)
<1> DEFINE n == m.to
<1>1. n \in Node /\ m \in Message
      BY Zenon, Delivered
<1>2. CASE StepDownOnNewerTerm(m)
      BY Zenon, <1>2, NewerTermQuiet
<1>3. CASE StartElection(n, m.prospective, m)
                 /\ role[n] = "PreCandidate" /\ campaignTerm[n] = m.prospective
                 /\ UNCHANGED <<commitIndex, log, leaderVars, leaderships>>
      <2>1. m.prospective \in Nat
            <3>1. m.type = "PreVoteResponse"
                  BY Zenon DEF OnPreVoteResponse, Receives
            <3>   QED  BY Zenon, <1>1, <3>1, MessageKinds DEF PreVoteResponse
      <2>2. m.prospective > currentTerm[n]
            BY Zenon, <1>1, <1>3 DEF CampaignOK
      <2>3. UNCHANGED <<commitIndex, log, progress, leaderships>>
            BY Zenon, <1>3 DEF leaderVars
      <2>   QED  BY Zenon, <1>1, <1>3, <2>1, <2>2, <2>3, StartElectionKind
<1>4. CASE /\ UNCHANGED <<currentTerm, role, leaderVars, log, commitIndex,
                          ballots, leaderships>>
           /\ Exchange(m, {})
      <2>1. /\ UNCHANGED <<currentTerm, role, progress, log, commitIndex,
                           ballots, leaderships>>
            /\ msgs' \subseteq msgs
            BY Zenon, <1>4 DEF leaderVars, Exchange
      <2>   QED  BY Zenon, <1>1, <2>1, QuietSender
<1>   QED  BY Zenon, <1>2, <1>3, <1>4 DEF OnPreVoteResponse

\* A vote, granted or not.
LEMMA VoteRequestKind ==
    ASSUME TypeInv, NEW m \in msgs, OnVoteRequest(m)
    PROVE  Quiet(m.to)
<1> DEFINE n == m.to
           new == [voter |-> n, candidate |-> m.from, term |-> m.term]
<1>1. /\ n \in Node /\ m.term \in Nat /\ currentTerm[n] \in Nat
      /\ m.type = "RequestVote"
      BY Zenon, Delivered, NodeDurable DEF OnVoteRequest, Receives
<1>2. /\ currentTerm'[n] = Larger(currentTerm[n], m.term)
      /\ \A k \in Node : k # n => currentTerm'[k] = currentTerm[k]
      /\ UNCHANGED <<log, commitIndex, leaderships>>
      BY Zenon, <1>1 DEF OnVoteRequest, TypeInv, DurableOK
<1>3. /\ currentTerm[n] <= currentTerm'[n]
      /\ m.term >= currentTerm[n] => currentTerm'[n] = m.term
      /\ ~ (m.term > currentTerm[n]) => currentTerm'[n] = currentTerm[n]
      BY <1>1, <1>2 DEF Larger
<1>4. /\ ballots \subseteq ballots'
      /\ \A b \in ballots' :
             \/ b \in ballots
             \/ /\ b = new /\ m.term >= currentTerm[n]
                /\ CandidateLogIsUpToDate(n, m)
      BY Zenon DEF OnVoteRequest
<1>5. m.term >= currentTerm[n] /\ CandidateLogIsUpToDate(n, m) => Voting(n, new)
      BY Zenon, <1>1, <1>3 DEF Voting
<1>6. \A b \in ballots' : b \in ballots \/ Voting(n, b)
      BY Zenon, <1>4, <1>5
<1>7. \A x \in msgs' : x \in msgs \/ x.type = "RequestVoteResponse"
      BY DEF OnVoteRequest, Exchange
<1>8. \A x \in msgs' : x \in msgs \/ Plain(x)
      BY Zenon, <1>7, PlainMessages
<1>9. /\ \A k \in Node : k # n => role'[k] = role[k] /\ progress'[k] = progress[k]
      /\ \/ role'[n] = "Follower"
         \/ /\ role'[n] = role[n] /\ progress'[n] = progress[n]
            /\ currentTerm'[n] = currentTerm[n]
      <2>1. CASE StepDown(n, NoNode)
            BY Zenon, <1>1, <2>1, StepDownFacts DEF TypeInv
      <2>2. CASE UNCHANGED <<role, leaderVars>> /\ ~ (m.term > currentTerm[n])
            BY Zenon, <1>3, <2>2 DEF leaderVars
      <2>   QED  BY Zenon, <2>1, <2>2 DEF OnVoteRequest
<1>10. /\ role'[n] = "Leader" =>
              /\ role[n] = "Leader" /\ currentTerm'[n] = currentTerm[n]
              /\ progress'[n] = progress[n]
       /\ role'[n] = "Candidate" =>
              \/ role[n] = "Candidate" /\ currentTerm'[n] = currentTerm[n]
              \/ currentTerm[n] < currentTerm'[n]
      BY <1>9
<1>   HIDE DEF n
<1>11. Quiet(n)
      BY Zenon, <1>2, <1>3, <1>4, <1>6, <1>8, <1>9, <1>10 DEF Quiet, Others
<1>   QED  BY Zenon, <1>11 DEF n

-----------------------------------------------------------------------------
(***************************************************************************)
(* Leaders.                                                                *)
(***************************************************************************)

\* An index that quorum_index returns is matched by a quorum.
LEMMA QuorumIndexReached ==
    ASSUME NaturalsWellOrdered, NEW matched \in [Node -> Nat],
           QuorumIndex(matched) # 0
    PROVE  \E Q \in SUBSET Node :
               IsQuorum(Q) /\ \A v \in Q : matched[v] >= QuorumIndex(matched)
<1> DEFINE values == {matched[v] : v \in Node}
           reached == {i \in values : IsQuorum({v \in Node : matched[v] >= i})}
<1>1. PICK u \in Nat : \A v \in Node : matched[v] <= u
      BY VotersBounded
<1>2. QuorumIndex(matched) = Max(reached) /\ reached # {}
      BY Zenon DEF QuorumIndex
<1>3. reached \subseteq Nat /\ \A i \in reached : i <= u
      BY Zenon, <1>1
<1>4. Max(reached) \in reached
      <2>  HIDE DEF reached
      <2>  QED  BY Zenon, <1>1, <1>2, <1>3, MaxOfNaturals
<1>5. IsQuorum({v \in Node : matched[v] >= QuorumIndex(matched)})
      BY Zenon, <1>2, <1>4
<1>6. QuorumIndex(matched) \in Nat
      BY Zenon, QuorumIndexType
<1>   HIDE DEF reached, values
<1> DEFINE Q == {v \in Node : matched[v] >= QuorumIndex(matched)}
<1>7. /\ Q \in SUBSET Node /\ IsQuorum(Q)
      /\ \A v \in Q : matched[v] >= QuorumIndex(matched)
      BY Zenon, <1>5
<1>   HIDE DEF Q
<1>   QED  BY Zenon, <1>7

\* advance_leader_commit stays, or moves to an index of the leader's own term
\* that a quorum matches.
LEMMA AdvanceBacked ==
    ASSUME NaturalsWellOrdered, DurableOK, NEW n \in Node, NEW l \in Seq(Entry),
           NEW prog \in [Node -> ProgressRecord], progress'[n] = prog
    PROVE  Advances(n, l, AdvanceLeaderCommit(n, l, prog))
<1> DEFINE matched == [v \in Node |-> prog[v].match]
           index == QuorumIndex(matched)
<1>1. matched \in [Node -> Nat] /\ \A v \in Node : matched[v] = prog[v].match
      BY Zenon DEF ProgressRecord
<1>2. /\ commitIndex[n] \in Nat /\ base[n] \in Nat /\ currentTerm[n] \in Nat
      /\ Len(l) \in Nat
      BY Zenon, NodeDurable, EntryTerms
<1>   HIDE DEF matched
<1>3. index \in Nat
      BY Zenon, <1>1, QuorumIndexType
<1>4. \/ AdvanceLeaderCommit(n, l, prog) = commitIndex[n]
      \/ /\ AdvanceLeaderCommit(n, l, prog) = index
         /\ index > commitIndex[n]
         /\ TermAt(l, base[n], index) = currentTerm[n]
      BY Zenon DEF AdvanceLeaderCommit, matched
<1>5. CASE AdvanceLeaderCommit(n, l, prog) = commitIndex[n]
      BY Zenon, <1>5 DEF Advances
<1>6. CASE /\ AdvanceLeaderCommit(n, l, prog) = index
           /\ index > commitIndex[n]
           /\ TermAt(l, base[n], index) = currentTerm[n]
      <2>1. PICK Q \in SUBSET Node : IsQuorum(Q) /\ \A v \in Q : matched[v] >= index
            <3>1. index # 0
                  BY <1>2, <1>3, <1>6
            <3>   QED  BY Zenon, <1>1, <3>1, QuorumIndexReached
      <2>   HIDE DEF index
      <2>2. TermAt(l, base[n], index) # NoTerm
            BY <1>2, <1>6 DEF NoTerm
      <2>3. base[n] <= index /\ index <= Len(l)
            BY Zenon, <1>2, <1>3, <2>2, TermAtType
      <2>4. index \in 1 .. Len(l)
            BY <1>2, <1>3, <1>6, <2>3
      <2>5. l[index].term = currentTerm[n]
            BY Zenon, <1>2, <1>6, <2>3, <2>4, TermAtEntry
      <2>6. \A v \in Q : progress'[n][v].match >= index
            BY Zenon, <1>1, <2>1
      <2>   QED  BY Zenon, <1>6, <2>1, <2>4, <2>5, <2>6 DEF Advances
<1>   QED  BY Zenon, <1>4, <1>5, <1>6

\* What the log of a leader is once it has appended.
LEMMA AppendedLog ==
    ASSUME DurableOK, NEW n \in Node, NEW e \in Entry, NEW l,
           l = Append(log[n], e)
    PROVE  /\ l \in Seq(Entry) /\ Len(l) = Len(log[n]) + 1
           /\ base[n] <= Len(l) /\ commitIndex[n] <= Len(l) /\ Len(l) \in Nat
           /\ \A i \in 1 .. Len(log[n]) : l[i] = log[n][i]
           /\ \A i \in 1 .. base[n] : l[i] = log[n][i]
<1>1. /\ log[n] \in Seq(Entry) /\ Len(log[n]) \in Nat /\ base[n] \in Nat
      /\ base[n] <= Len(log[n]) /\ commitIndex[n] \in Nat
      /\ commitIndex[n] <= Len(log[n])
      BY Zenon, NodeDurable
<1>2. /\ l \in Seq(Entry) /\ Len(l) = Len(log[n]) + 1
      /\ \A i \in 1 .. Len(log[n]) : l[i] = log[n][i]
      BY <1>1, LogAppend
<1>3. Len(l) \in Nat /\ base[n] <= Len(l) /\ commitIndex[n] <= Len(l)
      BY <1>1, <1>2
<1>4. \A i \in 1 .. base[n] : i \in 1 .. Len(log[n])
      BY <1>1
<1>   QED  BY Zenon, <1>2, <1>3, <1>4

\* A leader that appends an entry of its term and counts itself.
LEMMA AppendingStep ==
    ASSUME NaturalsWellOrdered, TypeInv, NEW n \in Node, NEW e \in Entry,
           e.term = currentTerm[n], NEW l, l = Append(log[n], e),
           NEW prog \in [Node -> ProgressRecord],
           \A p \in Node : prog[p].next >= 1, prog[n].match = Len(l),
           NEW commit, commit = AdvanceLeaderCommit(n, l, prog),
           log' = [log EXCEPT ![n] = l],
           progress' = [progress EXCEPT ![n] = prog],
           commitIndex' = [commitIndex EXCEPT ![n] = commit],
           role'[n] = "Leader", \A k \in Node : k # n => role'[k] = role[k],
           UNCHANGED <<currentTerm, ballots>>, NEW context,
           msgs' \subseteq msgs \cup BroadcastAppend(n, l, commit, prog, context)
    PROVE  Appending(n) /\ progress'[n] = prog
<1>1. /\ DurableOK /\ l \in Seq(Entry) /\ Len(l) = Len(log[n]) + 1
      /\ base[n] <= Len(l) /\ \A i \in 1 .. base[n] : l[i] = log[n][i]
      BY Zenon, AppendedLog DEF TypeInv
<1>2. /\ log'[n] = l /\ progress'[n] = prog /\ commitIndex'[n] = commit
      /\ \A k \in Node : k # n => /\ log'[k] = log[k]
                                  /\ progress'[k] = progress[k]
                                  /\ commitIndex'[k] = commitIndex[k]
      BY Zenon DEF TypeInv, DurableOK, VolatileOK
<1>3. Others(n)
      BY Zenon, <1>2 DEF Others
<1>4. Advances(n, l, commit)
      BY Zenon, <1>1, <1>2, AdvanceBacked
<1>5. \A x \in BroadcastAppend(n, l, commit, prog, context) :
          LeaderMessage(n, l, commit, x)
      BY Zenon, <1>1, BroadcastPart
<1>6. \A x \in msgs' : x \in msgs \/ LeaderMessage(n, l, commit, x)
      BY Zenon, <1>5
<1>   QED  BY Zenon, <1>1, <1>2, <1>3, <1>4, <1>6 DEF Appending

\* A candidate with a quorum of votes appends its no-op.
LEMMA BecomeLeaderKind ==
    ASSUME NaturalsWellOrdered, TypeInv, NEW n \in Node, role[n] = "Candidate",
           NEW m, BecomeLeader(n, m), UNCHANGED <<currentTerm, ballots>>
    PROVE  Winning(n)
<1> DEFINE e == [term |-> currentTerm[n], payload |-> Noop]
           l == Append(log[n], e)
           prog == [p \in Node |-> [match |-> IF p = n THEN Len(l) ELSE 0,
                                    next |-> Len(l) + 1, offset |-> 0]]
           commit == AdvanceLeaderCommit(n, l, prog)
<1>1. e \in Entry /\ e.term = currentTerm[n]
      BY NodeDurable DEF TypeInv, Entry
<1>2. Len(l) \in Nat
      BY Zenon, <1>1, AppendedLog DEF TypeInv
<1>3. /\ log' = [log EXCEPT ![n] = l]
      /\ progress' = [progress EXCEPT ![n] = prog]
      /\ commitIndex' = [commitIndex EXCEPT ![n] = commit]
      /\ role' = [role EXCEPT ![n] = "Leader"]
      /\ msgs' \subseteq msgs \cup BroadcastAppend(n, l, commit, prog, NoContext)
      /\ leaderships' = leaderships \cup {[node |-> n, term |-> currentTerm[n]]}
      BY Zenon DEF BecomeLeader, Exchange
<1>4. role'[n] = "Leader" /\ \A k \in Node : k # n => role'[k] = role[k]
      BY Zenon, <1>3 DEF TypeInv, VolatileOK
<1>   HIDE DEF e
<1>5. /\ prog \in [Node -> ProgressRecord] /\ prog[n].match = Len(l)
      /\ \A p \in Node : p # n => prog[p].match = 0
      /\ \A p \in Node : prog[p].next = Len(l) + 1
      <2>  HIDE DEF l
      <2>1. Len(l) + 1 \in Nat
            BY <1>2
      <2>   QED  BY Zenon, <1>2, <2>1 DEF ProgressRecord
<1>6. \A p \in Node : prog[p].next >= 1
      <2>1. Len(l) + 1 >= 1
            BY <1>2
      <2>   HIDE DEF prog, l
      <2>   QED  BY Zenon, <1>5, <2>1
<1>7. l = Append(log[n], e) /\ commit = AdvanceLeaderCommit(n, l, prog)
      BY Zenon
<1>   HIDE DEF l, prog, commit
<1>8. /\ log' = [log EXCEPT ![n] = l]
      /\ progress' = [progress EXCEPT ![n] = prog]
      /\ commitIndex' = [commitIndex EXCEPT ![n] = commit]
      /\ msgs' \subseteq msgs \cup BroadcastAppend(n, l, commit, prog, NoContext)
      /\ prog \in [Node -> ProgressRecord] /\ prog[n].match = Len(l)
      BY Zenon, <1>3, <1>5
<1>9. Appending(n) /\ progress'[n] = prog
      BY Zenon, <1>1, <1>4, <1>6, <1>7, <1>8, AppendingStep
<1>   QED  BY Zenon, <1>3, <1>5, <1>9 DEF Winning

\* Counting a vote.
LEMMA VoteResponseKind ==
    ASSUME NaturalsWellOrdered, TypeInv, NEW m \in msgs, OnVoteResponse(m)
    PROVE  Quiet(m.to) \/ Winning(m.to)
<1> DEFINE n == m.to
<1>1. n \in Node
      BY Zenon, Delivered
<1>2. CASE StepDownOnNewerTerm(m)
      BY Zenon, <1>2, NewerTermQuiet
<1>3. CASE /\ role[n] = "Candidate" /\ BecomeLeader(n, m)
           /\ UNCHANGED <<currentTerm, ballots>>
      BY Zenon, <1>1, <1>3, BecomeLeaderKind
<1>4. CASE /\ UNCHANGED <<currentTerm, role, leaderVars, log, commitIndex,
                          ballots, leaderships>>
           /\ Exchange(m, {})
      <2>1. /\ UNCHANGED <<currentTerm, role, progress, log, commitIndex,
                           ballots, leaderships>>
            /\ msgs' \subseteq msgs
            BY Zenon, <1>4 DEF leaderVars, Exchange
      <2>   QED  BY Zenon, <1>1, <2>1, QuietSender
<1>   QED  BY Zenon, <1>2, <1>3, <1>4 DEF OnVoteResponse

\* A leader appends a command.
LEMMA ProposeKind ==
    ASSUME NaturalsWellOrdered, TypeInv, NEW n \in Node, NEW c \in Command,
           Propose(n, c)
    PROVE  Proposing(n)
<1> DEFINE e == [term |-> currentTerm[n], payload |-> c]
           l == Append(log[n], e)
           own == [match |-> Len(l), next |-> Len(l) + 1,
                   offset |-> progress[n][n].offset]
           prog == [progress[n] EXCEPT ![n] = own]
           commit == AdvanceLeaderCommit(n, l, prog)
<1>1. e \in Entry /\ e.term = currentTerm[n]
      BY NodeDurable DEF TypeInv, Entry
<1>2. Len(l) \in Nat
      BY Zenon, <1>1, AppendedLog DEF TypeInv
<1>3. /\ progress[n] \in [Node -> ProgressRecord]
      /\ \A p \in Node : progress[n][p].next >= 1
      /\ role[n] = "Leader" /\ UNCHANGED <<role, currentTerm, ballots, leaderships>>
      BY Zenon, NodeVolatile DEF TypeInv, Propose, roleVars, historyVars
<1>4. /\ log' = [log EXCEPT ![n] = l]
      /\ progress' = [progress EXCEPT ![n] = prog]
      /\ commitIndex' = [commitIndex EXCEPT ![n] = commit]
      /\ msgs' \subseteq msgs \cup BroadcastAppend(n, l, commit, prog, NoContext)
      <2>1. prog = [progress[n] EXCEPT ![n] =
                        [match |-> Len(l), next |-> Len(l) + 1,
                         offset |-> @.offset]]
            BY Zenon, <1>3
      <2>   QED  BY Zenon, <2>1 DEF Propose
<1>   HIDE DEF e
<1>5. own \in ProgressRecord /\ own.match = Len(l) /\ own.next >= 1
      <2>   HIDE DEF l
      <2>1. Len(l) + 1 \in Nat /\ Len(l) + 1 >= 1
            BY <1>2
      <2>2. progress[n][n].offset \in Nat
            BY Zenon, <1>3 DEF ProgressRecord
      <2>   QED  BY Zenon, <1>2, <2>1, <2>2 DEF ProgressRecord
<1>   HIDE DEF own
<1>6. /\ prog \in [Node -> ProgressRecord] /\ prog[n].match = Len(l)
      /\ \A p \in Node : p # n => prog[p] = progress[n][p]
      /\ prog[n] = own
      BY Zenon, <1>3, <1>5
<1>   HIDE DEF prog
<1>7. \A p \in Node : prog[p].next >= 1
      BY Zenon, <1>3, <1>5, <1>6
<1>8. Appending(n) /\ progress'[n] = prog
      BY Zenon, <1>1, <1>3, <1>4, <1>6, <1>7, AppendingStep
<1>   QED  BY Zenon, <1>3, <1>6, <1>8 DEF Proposing

\* The match index after an acknowledgement, and after a rejection.
LEMMA MatchAfterReply ==
    ASSUME NEW n, NEW m, m.match \in Nat,
           progress[n][m.from] \in ProgressRecord
    PROVE  /\ Matched(n, m).match \in {progress[n][m.from].match, m.match}
           /\ BackedOff(n, m).match = progress[n][m.from].match
<1>1. Larger(progress[n][m.from].match, m.match)
          \in {progress[n][m.from].match, m.match}
      BY Zenon DEF Larger
<1>   QED  BY Zenon, <1>1 DEF Matched, BackedOff

\* A leader that takes note of a reply and sends on.
LEMMA ReplyLeading ==
    ASSUME NaturalsWellOrdered, TypeInv, NEW n \in Node, role[n] = "Leader",
           NEW p \in Node, NEW pr \in ProgressRecord, pr.next >= 1,
           NEW prog, prog = [progress[n] EXCEPT ![p] = pr],
           NEW commit, commit \in {commitIndex[n],
                                   AdvanceLeaderCommit(n, log[n], prog)},
           \/ pr.match = progress[n][p].match
           \/ \E r \in msgs : /\ IsAck(r) /\ r.from = p /\ r.to = n
                              /\ r.term = currentTerm[n] /\ r.match = pr.match,
           progress' = [progress EXCEPT ![n] = prog],
           commitIndex' = [commitIndex EXCEPT ![n] = commit],
           UNCHANGED <<currentTerm, role, log, ballots, leaderships>>,
           msgs' \subseteq msgs \cup
               {SendAppend(n, p, log[n], commit, pr, NoContext)}
    PROVE  Leading(n)
<1>1. /\ DurableOK /\ log[n] \in Seq(Entry) /\ base[n] <= Len(log[n])
      /\ \A i \in 1 .. base[n] : log[n][i] = log[n][i]
      /\ progress[n] \in [Node -> ProgressRecord]
      BY Zenon, NodeDurable, NodeVolatile DEF TypeInv
<1>2. /\ prog \in [Node -> ProgressRecord] /\ prog[p] = pr
      /\ \A v \in Node : v # p => prog[v] = progress[n][v]
      BY Zenon, <1>1
<1>3. /\ progress'[n] = prog /\ commitIndex'[n] = commit
      /\ \A k \in Node : k # n => /\ progress'[k] = progress[k]
                                  /\ commitIndex'[k] = commitIndex[k]
      BY Zenon DEF TypeInv, DurableOK, VolatileOK
<1>4. Advances(n, log[n], commit)
      <2>1. Advances(n, log[n], AdvanceLeaderCommit(n, log[n], prog))
            BY Zenon, <1>1, <1>2, <1>3, AdvanceBacked
      <2>   QED  BY Zenon, <2>1 DEF Advances
<1>5. LeaderMessage(n, log[n], commit,
                    SendAppend(n, p, log[n], commit, pr, NoContext))
      BY Zenon, <1>1, SendAppendPart
<1>6. \A x \in msgs' : x \in msgs \/ LeaderMessage(n, log[n], commit, x)
      BY Zenon, <1>5
<1>7. \A v \in Node :
          \/ progress'[n][v].match = progress[n][v].match
          \/ \E r \in msgs : /\ IsAck(r) /\ r.from = v /\ r.to = n
                             /\ r.term = currentTerm[n]
                             /\ r.match = progress'[n][v].match
      BY Zenon, <1>2, <1>3
<1>   QED  BY Zenon, <1>3, <1>4, <1>6, <1>7 DEF Leading, Others

\* on_append_response.
LEMMA AppendResponseKind ==
    ASSUME NaturalsWellOrdered, TypeInv, NEW m \in msgs, OnAppendResponse(m)
    PROVE  Quiet(m.to) \/ Leading(m.to)
<1> DEFINE n == m.to
           pr == IF m.success THEN Matched(n, m) ELSE BackedOff(n, m)
           prog == [progress[n] EXCEPT ![m.from] = pr]
           commit == IF m.success THEN AdvanceLeaderCommit(n, log[n], prog)
                     ELSE commitIndex[n]
<1>1. CASE StepDownOnNewerTerm(m)
      BY Zenon, <1>1, NewerTermQuiet
<1>2. CASE ~ StepDownOnNewerTerm(m)
      <2>1. /\ role[n] = "Leader" /\ m.term = currentTerm[n]
            /\ progress' = [progress EXCEPT ![n] = prog]
            /\ commitIndex' = [commitIndex EXCEPT ![n] = commit]
            /\ UNCHANGED <<currentTerm, role, log, ballots, leaderships>>
            /\ msgs' \subseteq msgs \cup
                   {SendAppend(n, m.from, log[n], commit, pr, NoContext)}
            BY Zenon, <1>2 DEF OnAppendResponse, Exchange, roleVars, historyVars
      <2>2. /\ m \in AppendEntriesResponse /\ n \in Node /\ m.from \in Node
            /\ DurableOK /\ VolatileOK /\ m.type = "AppendEntriesResponse"
            BY Zenon, Delivered, MessageKinds DEF OnAppendResponse, Receives
      <2>3. /\ progress[n][m.from] \in ProgressRecord
            /\ progress[n][m.from].next >= 1 /\ m.match \in Nat
            BY Zenon, <2>1, <2>2, NodeVolatile DEF AppendEntriesResponse
      <2>4. pr \in ProgressRecord /\ pr.next >= 1
            BY Zenon, <2>2, <2>3, MatchedOK, BackedOffOK
      <2>5. \/ pr.match = progress[n][m.from].match
            \/ m.success /\ pr.match = m.match
            BY Zenon, <2>3, MatchAfterReply
      <2>   HIDE DEF pr
      <2>6. commit \in {commitIndex[n], AdvanceLeaderCommit(n, log[n], prog)}
            BY Zenon
      <2>   HIDE DEF prog, commit
      <2>7. prog = [progress[n] EXCEPT ![m.from] = pr]
            BY Zenon DEF prog
      <2>8. \/ pr.match = progress[n][m.from].match
            \/ \E r \in msgs : /\ IsAck(r) /\ r.from = m.from /\ r.to = n
                               /\ r.term = currentTerm[n] /\ r.match = pr.match
            BY Zenon, <2>1, <2>2, <2>5 DEF IsAck
      <2>   QED  BY Zenon, <2>1, <2>2, <2>4, <2>6, <2>7, <2>8, ReplyLeading
<1>   QED  BY Zenon, <1>1, <1>2

\* on_snapshot_response.
LEMMA SnapshotResponseKind ==
    ASSUME NaturalsWellOrdered, TypeInv, NEW m \in msgs, OnSnapshotResponse(m)
    PROVE  Quiet(m.to) \/ Leading(m.to)
<1> DEFINE n == m.to
           installed == m.done /\ m.accepted
           other == [progress[n][m.from] EXCEPT !.offset =
                         IF m.accepted THEN m.next ELSE 0]
           pr == IF installed THEN Matched(n, m) ELSE other
           prog == [progress[n] EXCEPT ![m.from] = pr]
           commit == IF installed THEN AdvanceLeaderCommit(n, log[n], prog)
                     ELSE commitIndex[n]
<1>1. CASE StepDownOnNewerTerm(m)
      BY Zenon, <1>1, NewerTermQuiet
<1>2. CASE ~ StepDownOnNewerTerm(m)
      <2>1. /\ role[n] = "Leader" /\ m.term = currentTerm[n]
            /\ progress' = [progress EXCEPT ![n] = prog]
            /\ commitIndex' = [commitIndex EXCEPT ![n] = commit]
            /\ UNCHANGED <<currentTerm, role, log, ballots, leaderships>>
            /\ msgs' \subseteq msgs \cup
                   {SendAppend(n, m.from, log[n], commit, pr, NoContext)}
            BY Zenon, <1>2 DEF OnSnapshotResponse, Exchange, roleVars,
                               historyVars
      <2>2. /\ m \in InstallSnapshotResponse /\ n \in Node /\ m.from \in Node
            /\ DurableOK /\ VolatileOK /\ m.type = "InstallSnapshotResponse"
            BY Zenon, Delivered, MessageKinds DEF OnSnapshotResponse, Receives
      <2>3. /\ progress[n][m.from] \in ProgressRecord
            /\ progress[n][m.from].next >= 1
            /\ m.match \in Nat /\ m.next \in Nat
            BY Zenon, <2>1, <2>2, NodeVolatile DEF InstallSnapshotResponse
      <2>4. /\ other \in ProgressRecord /\ other.next >= 1
            /\ other.match = progress[n][m.from].match
            BY Zenon, <2>3 DEF ProgressRecord
      <2>   HIDE DEF other
      <2>5. pr \in ProgressRecord /\ pr.next >= 1
            BY Zenon, <2>3, <2>4, MatchedOK
      <2>6. \/ pr.match = progress[n][m.from].match
            \/ installed /\ pr.match = m.match
            BY Zenon, <2>3, <2>4, MatchAfterReply
      <2>   HIDE DEF pr
      <2>7. commit \in {commitIndex[n], AdvanceLeaderCommit(n, log[n], prog)}
            BY Zenon
      <2>   HIDE DEF prog, commit
      <2>8. prog = [progress[n] EXCEPT ![m.from] = pr]
            BY Zenon DEF prog
      <2>9. \/ pr.match = progress[n][m.from].match
            \/ \E r \in msgs : /\ IsAck(r) /\ r.from = m.from /\ r.to = n
                               /\ r.term = currentTerm[n] /\ r.match = pr.match
            BY Zenon, <2>1, <2>2, <2>6 DEF IsAck
      <2>   QED  BY Zenon, <2>1, <2>2, <2>5, <2>7, <2>8, <2>9, ReplyLeading
<1>   QED  BY Zenon, <1>1, <1>2

-----------------------------------------------------------------------------
(***************************************************************************)
(* Followers.                                                              *)
(***************************************************************************)

\* The refusals of a follower say nothing of importance.
LEMMA RefusalFacts ==
    ASSUME NEW n, NEW m, NEW match
    PROVE  /\ \A c : Plain(AppendReply(n, m, FALSE, match, c))
           /\ \A a, next : Plain(SnapshotReply(n, m, a, next, FALSE, match))
BY DEF Plain, FromLeader, IsAck, AppendReply, SnapshotReply

LEMMA ReplySent ==
    ASSUME NEW m
    PROVE  /\ \A y : Exchange(m, {y}) => \A x \in msgs' : x \in msgs \/ x = y
           /\ Exchange(m, {}) => \A x \in msgs' : x \in msgs
BY Zenon DEF Exchange

\* The refusal of a leader of an earlier term.
LEMMA StaleKind ==
    ASSUME TypeInv, NEW m \in msgs,
           OnStaleAppendEntries(m) \/ OnStaleInstallSnapshot(m)
    PROVE  Quiet(m.to)
<1>1. UNCHANGED <<currentTerm, role, progress, log, commitIndex, ballots,
                  leaderships>>
      BY Zenon DEF OnStaleAppendEntries, OnStaleInstallSnapshot, durableVars,
                   roleVars, leaderVars, historyVars
<1>2. \A x \in msgs' : x \in msgs \/ Plain(x)
      <2>1. \/ \E c : Exchange(m, {AppendReply(m.to, m, FALSE, 0, c)})
            \/ \E a, i : Exchange(m, {SnapshotReply(m.to, m, a, i, FALSE, 0)})
            BY Zenon DEF OnStaleAppendEntries, OnStaleInstallSnapshot
      <2>   QED  BY Zenon, <2>1, RefusalFacts, ReplySent
<1>   QED  BY Zenon, <1>1, <1>2, Delivered, QuietSender

\* A follower of the sender of m that changes no log.
LEMMA QuietReceiver ==
    ASSUME TypeInv, NEW m \in msgs, NEW leader,
           BecomeFollower(m.to, m.term, leader),
           UNCHANGED <<log, commitIndex, ballots, leaderships>>,
           \A x \in msgs' : x \in msgs \/ Plain(x)
    PROVE  Quiet(m.to)
<1>1. m.to \in Node /\ m.term \in Nat /\ DurableOK
      BY Zenon, Delivered
<1>2. AdoptTerm(m.to, m.term) /\ StepDown(m.to, leader)
      BY Zenon DEF BecomeFollower
<1>3. /\ currentTerm[m.to] <= currentTerm'[m.to]
      /\ \A k \in Node : k # m.to => currentTerm'[k] = currentTerm[k]
      BY Zenon, <1>1, <1>2, AdoptTermOK
<1>   QED  BY Zenon, <1>1, <1>2, <1>3, QuietFollower

\* A follower that takes over what m carries.
LEMMA FollowingStep ==
    ASSUME TypeInv, NEW m \in msgs, FromLeader(m), m.term >= currentTerm[m.to],
           NEW leader, AdoptTerm(m.to, m.term), StepDown(m.to, leader),
           \A k \in Node : k # m.to => /\ log'[k] = log[k]
                                       /\ commitIndex'[k] = commitIndex[k],
           UNCHANGED <<ballots, leaderships>>,
           TakesAppend(m.to, m) \/ TakesSnapshot(m.to, m),
           \A x \in msgs' : x \in msgs \/ Plain(x) \/ Acking(m.to, m, x)
    PROVE  Following(m.to, m)
<1>1. m.to \in Node /\ m.term \in Nat /\ DurableOK /\ VolatileOK
      BY Zenon, Delivered
<1>2. /\ \A k \in Node : k # m.to => currentTerm'[k] = currentTerm[k]
      /\ currentTerm'[m.to] = Larger(currentTerm[m.to], m.term)
      BY Zenon, <1>1, AdoptTermOK
<1>3. currentTerm[m.to] <= m.term /\ currentTerm'[m.to] = m.term
      BY <1>1, <1>2, NodeDurable DEF Larger
<1>4. /\ role'[m.to] = "Follower"
      /\ \A k \in Node : k # m.to => /\ role'[k] = role[k]
                                     /\ progress'[k] = progress[k]
      BY Zenon, <1>1, StepDownFacts
<1>   QED  BY Zenon, <1>1, <1>2, <1>3, <1>4 DEF Following, Others

\* A later or equal term is the one that a reply carries.
LEMMA ReplyTerm ==
    ASSUME TypeInv, NEW m \in msgs, m.term >= currentTerm[m.to]
    PROVE  Larger(currentTerm[m.to], m.term) = m.term
BY Delivered, NodeDurable DEF Larger

\* on_append_entries from the current leader.
LEMMA AppendEntriesKind ==
    ASSUME TypeInv, NEW m \in msgs, OnAppendEntries(m)
    PROVE  Quiet(m.to) \/ Following(m.to, m)
<1> DEFINE n == m.to
           l == MergedLog(log[n], base[n], m)
<1>1. /\ n \in Node /\ m \in AppendEntries /\ FromLeader(m)
      /\ m.type = "AppendEntries" /\ m.term >= currentTerm[n] /\ DurableOK
      BY Zenon, Delivered, MessageKinds
         DEF OnAppendEntries, Receives, FromLeader
<1>2. /\ BecomeFollower(n, m.term, m.from)
      /\ UNCHANGED <<ballots, leaderships>>
      BY Zenon DEF OnAppendEntries, historyVars
<1>3. CASE ~ AcceptsAppend(log[n], base[n], m) \/ ReplacesCommitted(n, m)
      <2>1. UNCHANGED <<log, commitIndex>>
            BY Zenon, <1>3 DEF OnAppendEntries
      <2>2. \A x \in msgs' : x \in msgs \/ Plain(x)
            <3>1. \/ \E c : Exchange(m, {AppendReply(n, m, FALSE, 0, c)})
                  \/ Exchange(m, {})
                  BY Zenon, <1>3 DEF OnAppendEntries
            <3>   QED  BY Zenon, <3>1, RefusalFacts, ReplySent
      <2>   QED  BY Zenon, <1>2, <2>1, <2>2, QuietReceiver
<1>4. CASE AcceptsAppend(log[n], base[n], m) /\ ~ ReplacesCommitted(n, m)
      <2> DEFINE x == AppendReply(n, m, TRUE, m.prev + Len(m.entries),
                                  [index |-> 0, term |-> NoTerm])
      <2>1. /\ log' = [log EXCEPT ![n] = l]
            /\ commitIndex' = [commitIndex EXCEPT ![n] = FollowerCommit(@, l, m)]
            /\ Exchange(m, {x})
            BY Zenon, <1>4 DEF OnAppendEntries
      <2>2. /\ log'[n] = l /\ commitIndex'[n] = FollowerCommit(commitIndex[n], l, m)
            /\ \A k \in Node : k # n => /\ log'[k] = log[k]
                                        /\ commitIndex'[k] = commitIndex[k]
            BY Zenon, <1>1, <2>1 DEF DurableOK
      <2>   HIDE DEF l
      <2>3. TakesAppend(n, m)
            BY Zenon, <1>1, <1>4, <2>2 DEF TakesAppend, l
      <2>4. LastOf(Carried(m)) = m.prev + Len(m.entries)
            BY <1>1 DEF LastOf, Carried
      <2>5. Acking(n, m, x)
            <3>1. /\ IsAck(x) /\ ~ FromLeader(x)
                  /\ x.from = n /\ x.to = m.from
                  /\ x.match = m.prev + Len(m.entries)
                  /\ x.term = Larger(currentTerm[n], m.term)
                  BY DEF AppendReply, IsAck, FromLeader
            <3>   HIDE DEF x
            <3>   QED  BY Zenon, <1>1, <2>4, <3>1, ReplyTerm DEF Acking
      <2>   HIDE DEF x
      <2>6. \A y \in msgs' : y \in msgs \/ Acking(n, m, y)
            BY Zenon, <2>1, <2>5 DEF Exchange
      <2>   QED  BY Zenon, <1>1, <1>2, <2>2, <2>3, <2>6, FollowingStep
                    DEF BecomeFollower
<1>   QED  BY Zenon, <1>3, <1>4

\* A crash after the entries of an append are on disk.
LEMMA RestartAfterLogKind ==
    ASSUME TypeInv, NEW m \in msgs, RestartAfterLog(m)
    PROVE  Following(m.to, m)
<1> DEFINE n == m.to
<1>1. /\ n \in Node /\ m \in AppendEntries /\ FromLeader(m)
      /\ m.term >= currentTerm[n] /\ DurableOK
      BY Zenon, Delivered, MessageKinds
         DEF RestartAfterLog, Receives, FromLeader
<1>2. /\ AdoptTerm(n, m.term) /\ StepDown(n, NoNode)
      /\ UNCHANGED <<commitIndex, ballots, leaderships>>
      /\ log' = [log EXCEPT ![n] = MergedLog(@, base[n], m)]
      /\ AcceptsAppend(log[n], base[n], m) /\ ~ ReplacesCommitted(n, m)
      /\ msgs' \subseteq msgs
      BY Zenon DEF RestartAfterLog, Recover, historyVars, Exchange
<1>3. /\ log'[n] = MergedLog(log[n], base[n], m)
      /\ \A k \in Node : k # n => log'[k] = log[k]
      BY Zenon, <1>1, <1>2 DEF DurableOK
<1>4. TakesAppend(n, m)
      BY Zenon, <1>1, <1>2, <1>3 DEF TakesAppend
<1>   QED  BY Zenon, <1>1, <1>2, <1>3, <1>4, FollowingStep

\* on_install_snapshot from the current leader.
LEMMA InstallSnapshotKind ==
    ASSUME TypeInv, NEW m \in msgs, OnInstallSnapshot(m)
    PROVE  Quiet(m.to) \/ Following(m.to, m)
<1> DEFINE n == m.to
           index == Len(m.snapshot)
           applied == index <= commitIndex[n]
           l == InstalledLog(log[n], base[n], m.snapshot)
           x == SnapshotReply(n, m, TRUE, Chunks, TRUE, index)
<1>1. /\ n \in Node /\ m \in InstallSnapshot /\ FromLeader(m)
      /\ m.type = "InstallSnapshot" /\ m.term >= currentTerm[n] /\ DurableOK
      BY Zenon, Delivered, MessageKinds
         DEF OnInstallSnapshot, Receives, FromLeader
<1>2. /\ BecomeFollower(n, m.term, m.from)
      /\ UNCHANGED <<ballots, leaderships>>
      BY Zenon DEF OnInstallSnapshot, historyVars
<1>3. LastOf(Carried(m)) = index
      <2>1. index \in Nat
            BY <1>1, EntryTerms DEF InstallSnapshot
      <2>   QED  BY <1>1, <2>1 DEF LastOf, Carried, Whole
<1>4. Acking(n, m, x)
      <2>1. /\ IsAck(x) /\ ~ FromLeader(x)
            /\ x.from = n /\ x.to = m.from /\ x.match = index
            /\ x.term = Larger(currentTerm[n], m.term)
            BY DEF SnapshotReply, IsAck, FromLeader
      <2>   HIDE DEF x, index
      <2>   QED  BY ZenonT(30), <1>1, <1>3, <2>1, ReplyTerm DEF Acking
<1>   HIDE DEF x
<1>5. CASE applied /\ Exchange(m, {x}) /\ UNCHANGED <<commitIndex, log>>
      <2>1. TakesSnapshot(n, m)
            BY Zenon, <1>1, <1>5 DEF TakesSnapshot
      <2>2. \A y \in msgs' : y \in msgs \/ Acking(n, m, y)
            BY Zenon, <1>4, <1>5 DEF Exchange
      <2>   QED  BY Zenon, <1>1, <1>2, <1>5, <2>1, <2>2, FollowingStep
                    DEF BecomeFollower
<1>6. CASE /\ UNCHANGED <<commitIndex, log>>
           /\ \A y \in msgs' : y \in msgs \/ Plain(y)
      BY Zenon, <1>2, <1>6, QuietReceiver
<1>7. CASE /\ ~ applied
           /\ log' = [log EXCEPT ![n] = InstalledLog(@, base[n], m.snapshot)]
           /\ commitIndex' = [commitIndex EXCEPT ![n] = Larger(@, index)]
           /\ Exchange(m, {x})
      <2>1. Larger(commitIndex[n], index) = index /\ index > commitIndex[n]
            <3>1. index \in Nat /\ commitIndex[n] \in Nat
                  BY Zenon, <1>1, NodeDurable, EntryTerms DEF InstallSnapshot
            <3>   HIDE DEF index
            <3>   QED  BY <1>7, <3>1 DEF Larger
      <2>2. /\ log'[n] = l /\ commitIndex'[n] = index
            /\ \A k \in Node : k # n => /\ log'[k] = log[k]
                                        /\ commitIndex'[k] = commitIndex[k]
            BY Zenon, <1>1, <1>7, <2>1 DEF DurableOK
      <2>3. TakesSnapshot(n, m)
            BY Zenon, <1>1, <2>1, <2>2 DEF TakesSnapshot
      <2>4. \A y \in msgs' : y \in msgs \/ Acking(n, m, y)
            BY Zenon, <1>4, <1>7 DEF Exchange
      <2>   QED  BY Zenon, <1>1, <1>2, <2>2, <2>3, <2>4, FollowingStep
                    DEF BecomeFollower
<1>8. \/ applied /\ Exchange(m, {x}) /\ UNCHANGED <<commitIndex, log>>
      \/ /\ UNCHANGED <<commitIndex, log>>
         /\ \E accepted, next :
                Exchange(m, {SnapshotReply(n, m, accepted, next, FALSE, 0)})
      \/ /\ ~ applied
         /\ log' = [log EXCEPT ![n] = InstalledLog(@, base[n], m.snapshot)]
         /\ commitIndex' = [commitIndex EXCEPT ![n] = Larger(@, index)]
         /\ Exchange(m, {x})
      BY Zenon DEF OnInstallSnapshot, x
<1>9. ASSUME NEW accepted, NEW next,
             Exchange(m, {SnapshotReply(n, m, accepted, next, FALSE, 0)})
      PROVE  \A y \in msgs' : y \in msgs \/ Plain(y)
      BY Zenon, <1>9, RefusalFacts DEF Exchange
<1>   QED  BY Zenon, <1>5, <1>6, <1>7, <1>8, <1>9

-----------------------------------------------------------------------------
\* Every step is of one of the five kinds.
LEMMA NextKind ==
    ASSUME NaturalsWellOrdered, TypeInv, CampaignOK, Next
    PROVE  \E n \in Node : Step(n)
<1>1. CASE \E n \in Node : \/ ElectionTick(n) \/ HeartbeatTick(n)
                           \/ CheckQuorumTick(n) \/ ReadIndex(n) \/ Restart(n)
      BY Zenon, <1>1, TimerKinds DEF Step
<1>2. CASE \E n \in Node, c \in Command : Propose(n, c)
      BY Zenon, <1>2, ProposeKind DEF Step
<1>3. CASE \E n \in Node : \E i \in 1 .. LastIndex(log[n]) : SnapshotBuilt(n, i)
      BY Zenon, <1>3, TimerKinds DEF Step
<1>4. CASE \E m \in msgs : Deliver(m) \/ Lose(m)
      <2>1. PICK m \in msgs : Deliver(m) \/ Lose(m)
            BY Zenon, <1>4
      <2>2. m.to \in Node
            BY Zenon, Delivered
      <2>3. \/ Quiet(m.to) \/ Leading(m.to) \/ Winning(m.to)
            \/ Following(m.to, m)
            BY Zenon, <2>1, PreVoteRequestKind, PreVoteResponseKind,
               VoteRequestKind, VoteResponseKind, StaleKind, AppendEntriesKind,
               AppendResponseKind, InstallSnapshotKind, SnapshotResponseKind,
               RestartAfterTermKind, RestartAfterLogKind, LoseKind DEF Deliver
      <2>   QED  BY Zenon, <2>2, <2>3 DEF Step
<1>   QED  BY Zenon, <1>1, <1>2, <1>3, <1>4 DEF Next
=============================================================================
