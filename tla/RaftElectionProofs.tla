------------------------- MODULE RaftElectionProofs -------------------------
(***************************************************************************)
(* Elections are safe: one vote per voter and term, one leader per term,   *)
(* and leader hints that name it.  The invariant follows a vote from the   *)
(* voter's durable state through the response in flight to the votes a     *)
(* candidate has counted, and a leadership from the quorum that granted it *)
(* to the messages sent in its name.                                       *)
(***************************************************************************)
EXTENDS RaftLemmas

-----------------------------------------------------------------------------
(***************************************************************************)
(* Steps that leave a part of the invariant alone.                         *)
(***************************************************************************)

\* History only grows.
HistoryGrows == ballots \subseteq ballots' /\ leaderships \subseteq leaderships'

\* A step that casts no vote and touches no term or vote keeps BallotsOK.
LEMMA BallotsSame ==
    ASSUME BallotsOK, UNCHANGED <<currentTerm, votedFor, ballots>>
    PROVE  BallotsOK'
BY Zenon DEF BallotsOK, OneVotePerTerm

\* A later term comes with no vote; the same term keeps it.
LEMMA BallotsAdopt ==
    ASSUME TypeInv, BallotsOK, NEW n \in Node, NEW term \in Nat,
           AdoptTerm(n, term), UNCHANGED ballots
    PROVE  BallotsOK'
<1>1. ASSUME NEW b \in ballots
      PROVE  /\ b.term <= currentTerm'[b.voter]
             /\ b.term = currentTerm'[b.voter] =>
                    votedFor'[b.voter] = b.candidate
      <2>1. /\ b.voter \in Node /\ b.term \in Nat
            /\ currentTerm[b.voter] \in Nat /\ currentTerm[n] \in Nat
            BY Zenon, NodeDurable DEF TypeInv, HistoryOK
      <2>2. /\ b.term <= currentTerm[b.voter]
            /\ b.term = currentTerm[b.voter] => votedFor[b.voter] = b.candidate
            BY Zenon DEF BallotsOK
      <2>3. CASE b.voter # n
            BY Zenon, <2>1, <2>2, <2>3 DEF AdoptTerm, TypeInv, DurableOK
      <2>4. CASE b.voter = n
            <3>1. /\ currentTerm'[n] = Larger(currentTerm[n], term)
                  /\ votedFor'[n] = IF term > currentTerm[n] THEN NoNode
                                    ELSE votedFor[n]
                  BY Zenon, <2>1 DEF AdoptTerm, TypeInv, DurableOK
            <3>   QED  BY <2>1, <2>2, <2>4, <3>1 DEF Larger
      <2>   QED  BY Zenon, <2>3, <2>4
<1>   QED  BY Zenon, <1>1 DEF BallotsOK, OneVotePerTerm

\* A node casts its vote in a term in which it has not voted for another.
LEMMA BallotsCast ==
    ASSUME TypeInv, BallotsOK, NEW n \in Node, NEW c \in Node, NEW term \in Nat,
           \/ term > currentTerm[n]
           \/ term = currentTerm[n] /\ votedFor[n] \in {NoNode, c},
           currentTerm' = [currentTerm EXCEPT ![n] = term],
           votedFor' = [votedFor EXCEPT ![n] = c],
           ballots' = ballots \cup {Ballot(n, c, term)}
    PROVE  BallotsOK'
<1> DEFINE new == Ballot(n, c, term)
<1>1. new.voter = n /\ new.candidate = c /\ new.term = term
      BY Zenon DEF Ballot
<1>   HIDE DEF new
<1>2. /\ currentTerm[n] \in Nat /\ NoNode \notin Node
      /\ currentTerm'[n] = term /\ votedFor'[n] = c
      BY Zenon, NodeDurable, ParametersAssumption DEF TypeInv, DurableOK
<1>3. ASSUME NEW b \in ballots
      PROVE  /\ b.voter \in Node /\ b.candidate \in Node /\ b.term \in Nat
             /\ currentTerm[b.voter] \in Nat
             /\ b.term <= currentTerm[b.voter]
             /\ b.term = currentTerm[b.voter] => votedFor[b.voter] = b.candidate
      BY Zenon, NodeDurable DEF TypeInv, HistoryOK, BallotsOK
<1>4. ASSUME NEW b \in ballots, b.voter = n, b.term = term
      PROVE  b.candidate = c
      BY <1>2, <1>3, <1>4
<1>5. ASSUME NEW b \in ballots'
      PROVE  /\ b.term <= currentTerm'[b.voter]
             /\ b.term = currentTerm'[b.voter] =>
                    votedFor'[b.voter] = b.candidate
      <2>1. CASE b = new
            BY <1>1, <1>2, <2>1
      <2>2. CASE b \in ballots /\ b.voter # n
            BY Zenon, <1>3, <2>2 DEF TypeInv, DurableOK
      <2>3. CASE b \in ballots /\ b.voter = n
            BY <1>2, <1>3, <1>4, <2>3
      <2>   QED  BY Zenon, <2>1, <2>2, <2>3 DEF new
<1>6. ASSUME NEW a \in ballots', NEW b \in ballots',
             a.voter = b.voter, a.term = b.term
      PROVE  a.candidate = b.candidate
      <2>1. CASE a \in ballots /\ b \in ballots
            BY Zenon, <1>6, <2>1 DEF BallotsOK, OneVotePerTerm
      <2>2. CASE a = new /\ b \in ballots
            BY Zenon, <1>1, <1>4, <1>6, <2>2
      <2>3. CASE a \in ballots /\ b = new
            BY Zenon, <1>1, <1>4, <1>6, <2>3
      <2>4. CASE a = new /\ b = new
            BY Zenon, <2>4
      <2>   QED  BY Zenon, <2>1, <2>2, <2>3, <2>4 DEF new
<1>   QED  BY Zenon, <1>5, <1>6 DEF BallotsOK, OneVotePerTerm

\* A leadership stays backed by its ballots, of which none is ever removed.
LEMMA LeadershipsKept ==
    ASSUME LeadershipsOK, ballots \subseteq ballots', UNCHANGED leaderships
    PROVE  LeadershipsOK'
BY Zenon DEF LeadershipsOK

\* Messages in flight stay backed; those a step sends have to be.
LEMMA BackedKept ==
    ASSUME \A m \in msgs : Backed(m), HistoryGrows,
           \A m \in msgs' : m \in msgs \/ Backed(m)'
    PROVE  (\A m \in msgs : Backed(m))'
<1>1. ASSUME NEW m, Backed(m)
      PROVE  Backed(m)'
      BY Zenon, <1>1 DEF Backed, Leads, HistoryGrows
<1>   QED  BY Zenon, <1>1

\* A node that the step does not concern.
LEMMA RoleKept ==
    ASSUME NEW n \in Node, RoleBacked(n), HistoryGrows,
           role'[n] = role[n], leaderId'[n] \in {NoNode, leaderId[n]},
           votes'[n] = votes[n], currentTerm'[n] = currentTerm[n]
    PROVE  RoleBacked(n)'
BY Zenon DEF RoleBacked, Leads, HistoryGrows

\* What send_append sends goes out in the name of the leader.
LEMMA SendAppendSource ==
    ASSUME NEW n, NEW p, NEW l, NEW commit, NEW pr, NEW context
    PROVE  LET x == SendAppend(n, p, l, commit, pr, context)
           IN  /\ x.type \in {"AppendEntries", "InstallSnapshot"}
               /\ x.from = n /\ x.term = currentTerm[n]
BY Zenon DEF SendAppend, SnapshotChunk

\* A message of a kind that says nothing about votes or leaders.
LEMMA NeutralBacked ==
    ASSUME NEW x, x.type \notin {"RequestVoteResponse", "AppendEntries",
                                 "InstallSnapshot"}
    PROVE  Backed(x)'
BY Zenon DEF Backed

\* A leader sends in a term it leads.
LEMMA LeaderSends ==
    ASSUME ElectionInv, NEW n \in Node, role[n] = "Leader",
           leaderships \subseteq leaderships',
           NEW x, x.type \in {"AppendEntries", "InstallSnapshot"},
           x.from = n, x.term = currentTerm[n]
    PROVE  Backed(x)'
BY Zenon DEF ElectionInv, RoleBacked, Backed, Leads

\* Whatever broadcast_append sends names its sender as the leader of its term.
LEMMA BroadcastBacked ==
    ASSUME ElectionInv, NEW n \in Node, role[n] = "Leader",
           leaderships \subseteq leaderships',
           NEW l, NEW commit, NEW prog, NEW context
    PROVE  \A x \in BroadcastAppend(n, l, commit, prog, context) : Backed(x)'
<1>1. ASSUME NEW p \in Peers(n), NEW x,
             x = SendAppend(n, p, l, commit, prog[p], context)
      PROVE  Backed(x)'
      <2>1. /\ x.type \in {"AppendEntries", "InstallSnapshot"}
            /\ x.from = n /\ x.term = currentTerm[n]
            BY <1>1, SendAppendSource
      <2>   QED  BY <2>1, LeaderSends
<1>2. TAKE x \in BroadcastAppend(n, l, commit, prog, context)
<1>3. PICK p \in Peers(n) : x = SendAppend(n, p, l, commit, prog[p], context)
      BY Zenon, <1>2 DEF BroadcastAppend
<1>   QED  BY Zenon, <1>1, <1>3

\* A step that changes no term, no vote and no role.
LEMMA QuietStep ==
    ASSUME ElectionInv,
           UNCHANGED <<currentTerm, votedFor, role, leaderId, votes, ballots,
                       leaderships>>,
           \A x \in msgs' : x \in msgs \/ Backed(x)'
    PROVE  ElectionInv'
<1>1. BallotsOK' /\ LeadershipsOK'
      BY Zenon, BallotsSame, LeadershipsKept DEF ElectionInv
<1>2. (\A x \in msgs : Backed(x))'
      BY Zenon, BackedKept DEF ElectionInv, HistoryGrows
<1>3. ASSUME NEW k \in Node
      PROVE  RoleBacked(k)'
      BY Zenon, RoleKept DEF ElectionInv, HistoryGrows
<1>   QED  BY Zenon, <1>1, <1>2, <1>3 DEF ElectionInv

\* A step in which a node becomes a follower, of nobody or of a leader of its
\* term.
LEMMA FollowerStep ==
    ASSUME TypeInv, ElectionInv, NEW n \in Node, NEW leader,
           StepDown(n, leader), BallotsOK', HistoryGrows,
           UNCHANGED leaderships,
           \A k \in Node : k # n => currentTerm'[k] = currentTerm[k],
           leader # NoNode => Leads(leader, currentTerm'[n]),
           \A x \in msgs' : x \in msgs \/ Backed(x)'
    PROVE  ElectionInv'
<1>1. LeadershipsOK'
      BY Zenon, LeadershipsKept DEF ElectionInv, HistoryGrows
<1>2. (\A x \in msgs : Backed(x))'
      BY Zenon, BackedKept DEF ElectionInv
<1>3. ASSUME NEW k \in Node
      PROVE  RoleBacked(k)'
      <2>1. CASE k = n
            <3>1. role'[n] = "Follower" /\ leaderId'[n] = leader
                  BY Zenon DEF StepDown, TypeInv, VolatileOK
            <3>   QED  BY Zenon, <2>1, <3>1 DEF RoleBacked, Leads
      <2>2. CASE k # n
            <3>1. /\ role'[k] = role[k] /\ leaderId'[k] = leaderId[k]
                  /\ votes'[k] = votes[k]
                  BY Zenon, <2>2 DEF StepDown, TypeInv, VolatileOK
            <3>   QED  BY Zenon, <2>2, <3>1, RoleKept DEF ElectionInv
      <2>   QED  BY Zenon, <2>1, <2>2
<1>   QED  BY Zenon, <1>1, <1>2, <1>3 DEF ElectionInv

\* Stepping down on a response of a later term keeps the election invariant.
LEMMA NewerTermStep ==
    ASSUME TypeInv, ElectionInv, NEW m \in msgs, StepDownOnNewerTerm(m)
    PROVE  ElectionInv'
<1>1. m.to \in Node /\ m.term \in Nat /\ DurableOK
      BY Zenon, Delivered
<1>2. /\ AdoptTerm(m.to, m.term) /\ StepDown(m.to, NoNode)
      /\ UNCHANGED <<ballots, leaderships>>
      /\ msgs' \subseteq msgs
      BY Zenon DEF StepDownOnNewerTerm, BecomeFollower, historyVars, Exchange
<1>3. BallotsOK'
      BY Zenon, <1>1, <1>2, BallotsAdopt DEF ElectionInv
<1>4. \A k \in Node : k # m.to => currentTerm'[k] = currentTerm[k]
      BY Zenon, <1>1, <1>2, AdoptTermOK
<1>   QED  BY Zenon, <1>1, <1>2, <1>3, <1>4, FollowerStep DEF HistoryGrows

-----------------------------------------------------------------------------
(***************************************************************************)
(* Each action keeps ElectionInv.                                          *)
(***************************************************************************)

\* The actions that cast no vote, win no election and change no term.
LEMMA TimersElection ==
    ASSUME TypeInv, ElectionInv, NEW n \in Node,
           \/ HeartbeatTick(n) \/ CheckQuorumTick(n) \/ ReadIndex(n)
           \/ Restart(n) \/ (\E i : SnapshotBuilt(n, i))
           \/ (\E c : Propose(n, c))
    PROVE  ElectionInv'
<1>1. CASE HeartbeatTick(n)
      <2>1. /\ role[n] = "Leader"
            /\ UNCHANGED <<currentTerm, votedFor, role, leaderId, votes,
                           ballots, leaderships>>
            /\ msgs' \subseteq msgs \cup BroadcastAppend(n, log[n],
                                 commitIndex[n], progress[n], NoContext)
            BY Zenon, <1>1 DEF HeartbeatTick, durableVars, roleVars,
               historyVars
      <2>   QED  BY Zenon, <2>1, BroadcastBacked, QuietStep
<1>2. CASE CheckQuorumTick(n) /\ IsQuorum(recentActive[n])
      <2>1. /\ role[n] = "Leader"
            /\ UNCHANGED <<currentTerm, votedFor, role, leaderId, votes,
                           ballots, leaderships>>
            /\ msgs' \subseteq msgs \cup BroadcastAppend(n, log[n],
                                 commitIndex[n], progress[n], NoContext)
            BY Zenon, <1>2 DEF CheckQuorumTick, durableVars, roleVars,
               historyVars
      <2>   QED  BY Zenon, <2>1, BroadcastBacked, QuietStep
<1>3. CASE \/ CheckQuorumTick(n) /\ ~ IsQuorum(recentActive[n])
           \/ Restart(n)
      <2>1. /\ StepDown(n, NoNode)
            /\ UNCHANGED <<currentTerm, votedFor, ballots, leaderships>>
            /\ msgs' \subseteq msgs
            BY Zenon, <1>3 DEF CheckQuorumTick, Restart, Recover, durableVars,
                        historyVars
      <2>2. BallotsOK'
            BY Zenon, <2>1, BallotsSame DEF ElectionInv
      <2>   QED  BY Zenon, <2>1, <2>2, FollowerStep DEF HistoryGrows
<1>4. CASE ReadIndex(n)
      <2> DEFINE context == <<n, nextRead[n]>>
      <2>1. /\ role[n] = "Leader"
            /\ UNCHANGED <<currentTerm, votedFor, role, leaderId, votes,
                           ballots, leaderships>>
            /\ msgs' \subseteq msgs \cup BroadcastAppend(n, log[n],
                                 commitIndex[n], progress[n], context)
            BY Zenon, <1>4 DEF ReadIndex, durableVars, roleVars, historyVars
      <2>   HIDE DEF context
      <2>   QED  BY Zenon, <2>1, BroadcastBacked, QuietStep
<1>5. CASE \E i : SnapshotBuilt(n, i)
      <2>1. /\ UNCHANGED <<currentTerm, votedFor, role, leaderId, votes,
                           ballots, leaderships>>
            /\ msgs' \subseteq msgs
            BY Zenon, <1>5 DEF SnapshotBuilt, roleVars, historyVars
      <2>   QED  BY Zenon, <2>1, QuietStep
<1>6. CASE \E c : Propose(n, c)
      <2>1. PICK c : Propose(n, c)
            BY Zenon, <1>6
      <2>2. /\ role[n] = "Leader"
            /\ UNCHANGED <<currentTerm, votedFor, role, leaderId, votes,
                           ballots, leaderships>>
            BY Zenon, <2>1 DEF Propose, roleVars, historyVars
      <2>3. PICK l, commit, prog :
                msgs' = msgs \cup BroadcastAppend(n, l, commit, prog, NoContext)
            BY Zenon, <2>1 DEF Propose
      <2>   QED  BY Zenon, <2>2, <2>3, BroadcastBacked, QuietStep
<1>   QED  BY Zenon, <1>1, <1>2, <1>3, <1>4, <1>5, <1>6

\* start_pre_vote asks for pre-votes only: no ballot is cast.
LEMMA ElectionTickElection ==
    ASSUME TypeInv, ElectionInv, NEW n \in Node, ElectionTick(n)
    PROVE  ElectionInv'
<1>1. /\ UNCHANGED <<currentTerm, votedFor, ballots, leaderships>>
      /\ HistoryGrows
      BY Zenon DEF ElectionTick, durableVars, historyVars, HistoryGrows
<1>2. BallotsOK' /\ LeadershipsOK'
      BY Zenon, <1>1, BallotsSame, LeadershipsKept DEF ElectionInv
<1>3. (\A x \in msgs : Backed(x))'
      <2>1. \A x \in msgs' : x \in msgs \/ x.type = "PreVoteRequest"
            BY DEF ElectionTick
      <2>2. \A x \in msgs' : x \in msgs \/ Backed(x)'
            BY Zenon, <2>1, NeutralBacked
      <2>   QED  BY Zenon, <1>1, <2>2, BackedKept DEF ElectionInv
<1>4. ASSUME NEW k \in Node
      PROVE  RoleBacked(k)'
      <2>1. CASE k = n
            <3>1. role'[n] = "PreCandidate" /\ leaderId'[n] = NoNode
                  BY Zenon DEF ElectionTick, TypeInv, VolatileOK
            <3>   QED  BY Zenon, <2>1, <3>1 DEF RoleBacked
      <2>2. CASE k # n
            <3>1. /\ role'[k] = role[k] /\ leaderId'[k] = leaderId[k]
                  /\ votes'[k] = votes[k]
                  BY Zenon, <2>2 DEF ElectionTick, TypeInv, VolatileOK
            <3>   QED  BY Zenon, <1>1, <3>1, RoleKept DEF ElectionInv
      <2>   QED  BY Zenon, <2>1, <2>2
<1>   QED  BY Zenon, <1>2, <1>3, <1>4 DEF ElectionInv

\* Handlers that change no term, vote or role, and answer at most.
LEMMA NeutralElection ==
    ASSUME TypeInv, ElectionInv, NEW m \in msgs,
           \/ OnPreVoteRequest(m) \/ OnStaleAppendEntries(m)
           \/ OnStaleInstallSnapshot(m) \/ Lose(m)
    PROVE  ElectionInv'
<1>1. UNCHANGED <<currentTerm, votedFor, role, leaderId, votes, ballots,
                  leaderships>>
      BY Zenon DEF OnPreVoteRequest, OnStaleAppendEntries,
         OnStaleInstallSnapshot,
             Lose, durableVars, roleVars, historyVars
<1>2. \A x \in msgs' : x \in msgs \/
          x.type \in {"PreVoteResponse", "AppendEntriesResponse",
                      "InstallSnapshotResponse"}
      BY DEF OnPreVoteRequest, OnStaleAppendEntries, OnStaleInstallSnapshot,
             Lose, Exchange, AppendReply, SnapshotReply
<1>3. \A x \in msgs' : x \in msgs \/ Backed(x)'
      BY Zenon, <1>2, NeutralBacked
<1>   QED  BY Zenon, <1>1, <1>3, QuietStep

\* A node counts one more vote, or asks for votes having cast its own.
LEMMA OnPreVoteResponseElection ==
    ASSUME TypeInv, CampaignOK, ElectionInv, NEW m \in msgs,
           OnPreVoteResponse(m)
    PROVE  ElectionInv'
<1> DEFINE n == m.to
<1>0. n \in Node /\ m \in PreVoteResponse
      BY Zenon, Delivered, MessageKinds DEF OnPreVoteResponse, Receives
<1>1. CASE StepDownOnNewerTerm(m)
      BY Zenon, <1>1, NewerTermStep
<1>2. CASE ~ StepDownOnNewerTerm(m) /\ StartElection(n, m.prospective, m)
      <2>1. /\ role[n] = "PreCandidate" /\ campaignTerm[n] = m.prospective
            /\ UNCHANGED leaderships
            BY Zenon, <1>2 DEF OnPreVoteResponse
      <2>2. /\ m.prospective \in Nat /\ currentTerm[n] \in Nat
            /\ m.prospective > currentTerm[n]
            BY Zenon, <1>0, <2>1, NodeDurable DEF CampaignOK, PreVoteResponse,
               TypeInv
      <2>3. ballots' = ballots \cup {Ballot(n, n, m.prospective)}
            BY Zenon, <1>2 DEF StartElection, Ballot
      <2>4. BallotsOK'
            BY Zenon, <1>0, <1>2, <2>2, <2>3, BallotsCast DEF StartElection,
               ElectionInv
      <2>5. LeadershipsOK' /\ HistoryGrows
            BY Zenon, <2>1, <2>3, LeadershipsKept DEF ElectionInv, HistoryGrows
      <2>6. (\A x \in msgs : Backed(x))'
            <3>1. \A x \in msgs' : x \in msgs \/ x.type = "RequestVote"
                  BY <1>2 DEF StartElection, Exchange
            <3>2. \A x \in msgs' : x \in msgs \/ Backed(x)'
                  BY Zenon, <3>1, NeutralBacked
            <3>   QED  BY Zenon, <2>5, <3>2, BackedKept DEF ElectionInv
      <2>7. ASSUME NEW k \in Node
            PROVE  RoleBacked(k)'
            <3>1. CASE k = n
                  <4>1. /\ role'[n] = "Candidate" /\ votes'[n] = {n}
                        /\ currentTerm'[n] = m.prospective
                        /\ leaderId'[n] = leaderId[n]
                        BY Zenon, <1>0, <1>2 DEF StartElection, TypeInv,
                           VolatileOK,
                                          DurableOK
                  <4>2. leaderId[n] = NoNode
                        BY Zenon, <1>0, <2>1 DEF ElectionInv, RoleBacked
                  <4>   QED  BY Zenon, <2>3, <3>1, <4>1, <4>2 DEF RoleBacked
            <3>2. CASE k # n
                  <4>1. /\ role'[k] = role[k] /\ leaderId'[k] = leaderId[k]
                        /\ votes'[k] = votes[k]
                        /\ currentTerm'[k] = currentTerm[k]
                        BY Zenon, <1>0, <1>2, <3>2 DEF StartElection, TypeInv,
                                                VolatileOK, DurableOK
                  <4>   QED  BY Zenon, <2>5, <4>1, RoleKept DEF ElectionInv
            <3>   QED  BY Zenon, <3>1, <3>2
      <2>   QED  BY Zenon, <2>4, <2>5, <2>6, <2>7 DEF ElectionInv
<1>3. CASE ~ StepDownOnNewerTerm(m) /\ ~ StartElection(n, m.prospective, m)
      <2>1. /\ role[n] = "PreCandidate"
            /\ votes' = [votes EXCEPT ![n] = @ \cup {m.from}]
            /\ UNCHANGED <<currentTerm, votedFor, role, leaderId, ballots,
                           leaderships>>
            /\ msgs' \subseteq msgs
            BY Zenon, <1>3 DEF OnPreVoteResponse, Exchange
      <2>2. BallotsOK' /\ LeadershipsOK' /\ HistoryGrows
            BY Zenon, <2>1, BallotsSame, LeadershipsKept DEF ElectionInv,
               HistoryGrows
      <2>3. (\A x \in msgs : Backed(x))'
            BY Zenon, <2>1, <2>2, BackedKept DEF ElectionInv
      <2>4. ASSUME NEW k \in Node
            PROVE  RoleBacked(k)'
            <3>1. role[k] = "Candidate" => k # n
                  BY Zenon, <2>1
            <3>2. k # n => votes'[k] = votes[k]
                  BY Zenon, <1>0, <2>1 DEF TypeInv, VolatileOK
            <3>   QED  BY Zenon, <2>1, <3>1, <3>2 DEF ElectionInv, RoleBacked,
                          Leads
      <2>   QED  BY Zenon, <2>2, <2>3, <2>4 DEF ElectionInv
<1>   QED  BY Zenon, <1>1, <1>2, <1>3

\* A granted vote is recorded before the response that reports it.
LEMMA OnVoteRequestElection ==
    ASSUME TypeInv, ElectionInv, NEW m \in msgs, OnVoteRequest(m)
    PROVE  ElectionInv'
<1> DEFINE n == m.to
           newer == m.term > currentTerm[n]
           vote == IF newer THEN NoNode ELSE votedFor[n]
           granted == /\ m.term >= currentTerm[n]
                      /\ vote \in {NoNode, m.from}
                      /\ CandidateLogIsUpToDate(n, m)
           r == [type |-> "RequestVoteResponse", from |-> n, to |-> m.from,
                 term |-> Larger(currentTerm[n], m.term), granted |-> granted]
<1>1. /\ n \in Node /\ m.from \in Node /\ m.term \in Nat
      /\ DurableOK /\ currentTerm[n] \in Nat
      BY Zenon, Delivered, NodeDurable
<1>2. /\ currentTerm' = [currentTerm EXCEPT ![n] = Larger(@, m.term)]
      /\ votedFor' = [votedFor EXCEPT ![n] = IF granted THEN m.from ELSE vote]
      /\ \/ newer /\ StepDown(n, NoNode)
         \/ /\ ~newer
            /\ leaderId' = [leaderId EXCEPT ![n] = IF granted THEN NoNode ELSE @]
            /\ UNCHANGED <<role, votes>>
      /\ Exchange(m, {r})
      /\ ballots' = ballots \cup
            {b \in {Ballot(n, m.from, m.term)} : granted}
      /\ UNCHANGED leaderships
      BY Zenon DEF OnVoteRequest, Ballot
<1>3. granted => /\ Larger(currentTerm[n], m.term) = m.term
                 /\ \/ m.term > currentTerm[n]
                    \/ m.term = currentTerm[n] /\ votedFor[n] \in {NoNode, m.from}
      BY <1>1 DEF Larger
<1>4. /\ r.type = "RequestVoteResponse" /\ r.from = n /\ r.to = m.from
      /\ r.granted = granted /\ r.term = Larger(currentTerm[n], m.term)
      BY Zenon
<1>5. BallotsOK'
      <2>1. CASE granted
            BY Zenon, <1>1, <1>2, <1>3, <2>1, BallotsCast DEF ElectionInv
      <2>2. CASE ~ granted
            <3>1. AdoptTerm(n, m.term) /\ ballots' = ballots
                  BY Zenon, <1>2, <2>2 DEF AdoptTerm
            <3>   QED  BY Zenon, <1>1, <3>1, BallotsAdopt DEF ElectionInv
      <2>   QED  BY Zenon, <2>1, <2>2
<1>6. HistoryGrows /\ LeadershipsOK'
      BY Zenon, <1>2, LeadershipsKept DEF ElectionInv, HistoryGrows
<1>7. \A x \in msgs' : x \in msgs \/ Backed(x)'
      <2>1. ASSUME NEW x, x = r
            PROVE  Backed(x)'
            BY Zenon, <1>2, <1>3, <1>4, <2>1 DEF Backed
      <2>2. msgs' \subseteq msgs \cup {r}
            BY Zenon, <1>2 DEF Exchange
      <2>   HIDE DEF r
      <2>   QED  BY Zenon, <2>1, <2>2
<1>8. \A k \in Node : k # n => currentTerm'[k] = currentTerm[k]
      BY Zenon, <1>1, <1>2 DEF DurableOK
<1>   HIDE DEF r, granted
<1>9. CASE StepDown(n, NoNode)
      BY <1>1, <1>2, <1>5, <1>6, <1>7, <1>8, <1>9, FollowerStep
<1>10. CASE ~ StepDown(n, NoNode)
      <2>1. /\ ~ newer
            /\ leaderId' = [leaderId EXCEPT ![n] = IF granted THEN NoNode ELSE @]
            /\ UNCHANGED <<role, votes>>
            BY Zenon, <1>2, <1>10
      <2>2. currentTerm'[n] = currentTerm[n]
            BY <1>1, <1>2, <2>1 DEF Larger, DurableOK
      <2>3. (\A x \in msgs : Backed(x))'
            BY Zenon, <1>6, <1>7, BackedKept DEF ElectionInv
      <2>4. ASSUME NEW k \in Node
            PROVE  RoleBacked(k)'
            <3>1. leaderId'[k] \in {NoNode, leaderId[k]}
                  BY Zenon, <1>1, <2>1 DEF TypeInv, VolatileOK
            <3>2. currentTerm'[k] = currentTerm[k]
                  BY Zenon, <1>8, <2>2
            <3>   QED  BY Zenon, <1>6, <2>1, <3>1, <3>2, RoleKept
                          DEF ElectionInv
      <2>   QED  BY Zenon, <1>5, <1>6, <2>3, <2>4 DEF ElectionInv
<1>   QED  BY Zenon, <1>9, <1>10

\* The votes counted are ballots of a quorum when a candidate becomes leader.
LEMMA OnVoteResponseElection ==
    ASSUME TypeInv, ElectionInv, NEW m \in msgs, OnVoteResponse(m)
    PROVE  ElectionInv'
<1> DEFINE n == m.to
           t == currentTerm[n]
           counted == votes[n] \cup {m.from}
<1>0. n \in Node /\ m.from \in Node /\ VolatileOK
      BY Zenon, Delivered
<1>1. CASE StepDownOnNewerTerm(m)
      BY Zenon, <1>1, NewerTermStep
<1>2. CASE ~ StepDownOnNewerTerm(m)
      <2>1. /\ role[n] = "Candidate" /\ m.term = t /\ m.granted
            /\ m.type = "RequestVoteResponse"
            /\ UNCHANGED <<currentTerm, votedFor, ballots>>
            BY Zenon, <1>2 DEF OnVoteResponse, Receives
      <2>2. counted \subseteq Node
            BY Zenon, <1>0, NodeVolatile
      <2>3. \A v \in counted : Ballot(v, n, t) \in ballots
            <3>1. Ballot(m.from, n, t) \in ballots
                  BY Zenon, <2>1 DEF ElectionInv, Backed
            <3>2. \A v \in votes[n] : Ballot(v, n, t) \in ballots
                  BY Zenon, <1>0, <2>1 DEF ElectionInv, RoleBacked
            <3>   QED  BY Zenon, <3>1, <3>2
      <2>4. BallotsOK'
            BY Zenon, <2>1, BallotsSame DEF ElectionInv
      <2>5. CASE IsQuorum(counted) /\ BecomeLeader(n, m)
            <3>1. /\ role' = [role EXCEPT ![n] = "Leader"]
                  /\ leaderId' = [leaderId EXCEPT ![n] = n]
                  /\ votes' = [votes EXCEPT ![n] = {}]
                  /\ leaderships' = leaderships \cup {[node |-> n, term |-> t]}
                  BY Zenon, <2>5 DEF BecomeLeader
            <3>2. LeadershipsOK'
                  <4>1. ASSUME NEW a \in leaderships'
                        PROVE  \E Q \in SUBSET Node :
                                   /\ IsQuorum(Q)
                                   /\ \A v \in Q :
                                          Ballot(v, a.node, a.term) \in ballots
                        <5>1. CASE a \in leaderships
                              BY Zenon, <5>1 DEF ElectionInv, LeadershipsOK
                        <5>2. CASE a = [node |-> n, term |-> t]
                              <6>1. a.node = n /\ a.term = t
                                    BY Zenon, <5>2
                              <6>2. counted \in SUBSET Node
                                    BY Zenon, <2>2
                              <6>   HIDE DEF counted, n, t
                              <6>   QED  BY Zenon, <2>3, <2>5, <6>1, <6>2
                        <5>   QED  BY Zenon, <3>1, <5>1, <5>2
                  <4>   QED  BY Zenon, <2>1, <4>1 DEF LeadershipsOK
            <3>3. HistoryGrows
                  BY Zenon, <2>1, <3>1 DEF HistoryGrows
            <3>4. (\A x \in msgs : Backed(x))'
                  <4>1. PICK l, commit, prog :
                            Exchange(m, BroadcastAppend(n, l, commit, prog,
                                                        NoContext))
                        BY Zenon, <2>5 DEF BecomeLeader
                  <4>2. ASSUME NEW x \in BroadcastAppend(n, l, commit, prog,
                                                         NoContext)
                        PROVE  Backed(x)'
                        <5>1. PICK p \in Peers(n) :
                                  x = SendAppend(n, p, l, commit, prog[p],
                                                 NoContext)
                              BY Zenon, <4>2 DEF BroadcastAppend
                        <5>2. /\ x.type \in {"AppendEntries", "InstallSnapshot"}
                              /\ x.from = n /\ x.term = t
                              BY <5>1, SendAppendSource
                        <5>   QED  BY Zenon, <3>1, <5>2 DEF Backed, Leads
                  <4>3. \A x \in msgs' : x \in msgs \/ Backed(x)'
                        BY Zenon, <4>1, <4>2 DEF Exchange
                  <4>   QED  BY Zenon, <3>3, <4>3, BackedKept DEF ElectionInv
            <3>5. ASSUME NEW k \in Node
                  PROVE  RoleBacked(k)'
                  <4>1. CASE k = n
                        <5>1. /\ role'[n] = "Leader" /\ leaderId'[n] = n
                              /\ currentTerm'[n] = t
                              BY Zenon, <1>0, <2>1, <3>1 DEF VolatileOK
                        <5>   QED  BY <3>1, <4>1, <5>1
                                      DEF RoleBacked, Leads
                  <4>2. CASE k # n
                        <5>1. /\ role'[k] = role[k] /\ votes'[k] = votes[k]
                              /\ leaderId'[k] = leaderId[k]
                              BY Zenon, <1>0, <3>1, <4>2 DEF VolatileOK
                        <5>   QED  BY Zenon, <2>1, <3>3, <5>1, RoleKept
                                      DEF ElectionInv
                  <4>   QED  BY Zenon, <4>1, <4>2
            <3>   QED  BY Zenon, <2>4, <3>2, <3>4, <3>5 DEF ElectionInv
      <2>6. CASE ~ (IsQuorum(counted) /\ BecomeLeader(n, m))
            <3>1. /\ votes' = [votes EXCEPT ![n] = counted]
                  /\ UNCHANGED <<role, leaderId, leaderships>>
                  /\ msgs' \subseteq msgs
                  BY Zenon, <1>2, <2>6 DEF OnVoteResponse, Exchange
            <3>2. LeadershipsOK' /\ HistoryGrows
                  BY Zenon, <2>1, <3>1, LeadershipsKept DEF ElectionInv,
                     HistoryGrows
            <3>3. (\A x \in msgs : Backed(x))'
                  BY Zenon, <3>1, <3>2, BackedKept DEF ElectionInv
            <3>4. ASSUME NEW k \in Node
                  PROVE  RoleBacked(k)'
                  <4>1. \A v \in votes'[k] : role[k] = "Candidate" =>
                            Ballot(v, k, currentTerm[k]) \in ballots
                        <5>1. CASE k = n
                              BY Zenon, <1>0, <2>3, <3>1, <5>1 DEF VolatileOK
                        <5>2. CASE k # n
                              <6>1. votes'[k] = votes[k]
                                    BY Zenon, <1>0, <3>1, <5>2 DEF VolatileOK
                              <6>   QED  BY Zenon, <6>1 DEF ElectionInv,
                                            RoleBacked
                        <5>   QED  BY Zenon, <5>1, <5>2
                  <4>   QED  BY Zenon, <2>1, <3>1, <4>1
                             DEF ElectionInv, RoleBacked, Leads
            <3>   QED  BY Zenon, <2>4, <3>2, <3>3, <3>4 DEF ElectionInv
      <2>   QED  BY Zenon, <2>5, <2>6
<1>   QED  BY Zenon, <1>1, <1>2

\* A node that accepts a leader's message follows the leader of its term.
LEMMA FollowElection ==
    ASSUME TypeInv, ElectionInv, NEW m \in msgs,
           \/ OnAppendEntries(m) \/ OnInstallSnapshot(m)
           \/ RestartAfterTerm(m) \/ RestartAfterLog(m)
    PROVE  ElectionInv'
<1> DEFINE n == m.to
<1>1. n \in Node /\ m.term \in Nat /\ DurableOK /\ currentTerm[n] \in Nat
      BY Zenon, Delivered, NodeDurable
<1>2. PICK leader :
          /\ AdoptTerm(n, m.term) /\ StepDown(n, leader)
          /\ UNCHANGED <<ballots, leaderships>>
          /\ leader # NoNode => /\ leader = m.from /\ m.term >= currentTerm[n]
                                /\ m.type \in {"AppendEntries",
                                               "InstallSnapshot"}
      <2>1. CASE OnAppendEntries(m) \/ OnInstallSnapshot(m)
            BY Zenon, <2>1 DEF OnAppendEntries, OnInstallSnapshot, Receives,
                        BecomeFollower, historyVars
      <2>2. CASE RestartAfterTerm(m) \/ RestartAfterLog(m)
            BY Zenon, <2>2 DEF RestartAfterTerm, RestartAfterLog, Recover,
               historyVars
      <2>   QED  BY Zenon, <2>1, <2>2
<1>3. \A x \in msgs' : x \in msgs \/
          x.type \in {"AppendEntriesResponse", "InstallSnapshotResponse"}
      <2>1. CASE OnAppendEntries(m)
            <3>1. \/ Exchange(m, {})
                  \/ \E success, match, c :
                         Exchange(m, {AppendReply(n, m, success, match, c)})
                  BY Zenon, <2>1 DEF OnAppendEntries
            <3>2. \A success, match, c :
                      AppendReply(n, m, success, match, c).type
                          = "AppendEntriesResponse"
                  BY Zenon DEF AppendReply
            <3>   QED  BY Zenon, <3>1, <3>2 DEF Exchange
      <2>2. CASE OnInstallSnapshot(m)
            <3>1. \E accepted, next, done, match :
                      Exchange(m, {SnapshotReply(n, m, accepted, next, done,
                                                 match)})
                  BY Zenon, <2>2 DEF OnInstallSnapshot
            <3>2. \A accepted, next, done, match :
                      SnapshotReply(n, m, accepted, next, done, match).type
                          = "InstallSnapshotResponse"
                  BY Zenon DEF SnapshotReply
            <3>   QED  BY Zenon, <3>1, <3>2 DEF Exchange
      <2>3. CASE RestartAfterTerm(m) \/ RestartAfterLog(m)
            BY Zenon, <2>3 DEF RestartAfterTerm, RestartAfterLog, Exchange
      <2>   QED  BY Zenon, <2>1, <2>2, <2>3
<1>4. \A x \in msgs' : x \in msgs \/ Backed(x)'
      BY Zenon, <1>3, NeutralBacked
<1>5. BallotsOK'
      BY Zenon, <1>1, <1>2, BallotsAdopt DEF ElectionInv
<1>6. /\ currentTerm'[n] = Larger(currentTerm[n], m.term)
      /\ \A k \in Node : k # n => currentTerm'[k] = currentTerm[k]
      BY Zenon, <1>1, <1>2, AdoptTermOK
<1>7. leader # NoNode => Leads(leader, currentTerm'[n])
      <2>1. HAVE leader # NoNode
      <2>2. currentTerm'[n] = m.term
            BY <1>1, <1>2, <1>6, <2>1 DEF Larger
      <2>3. Leads(m.from, m.term)
            BY Zenon, <1>2, <2>1 DEF ElectionInv, Backed
      <2>   QED  BY Zenon, <1>2, <2>1, <2>2, <2>3
<1>   QED  BY Zenon, <1>1, <1>2, <1>4, <1>5, <1>6, <1>7, FollowerStep
              DEF HistoryGrows

\* A leader that hears from a peer answers in its own name.
LEMMA RepliesElection ==
    ASSUME TypeInv, ElectionInv, NEW m \in msgs,
           OnAppendResponse(m) \/ OnSnapshotResponse(m)
    PROVE  ElectionInv'
<1> DEFINE n == m.to
<1>1. CASE StepDownOnNewerTerm(m)
      BY Zenon, <1>1, NewerTermStep
<1>2. CASE ~ StepDownOnNewerTerm(m)
      <2>1. /\ role[n] = "Leader"
            /\ UNCHANGED <<currentTerm, votedFor, role, leaderId, votes,
                           ballots, leaderships>>
            BY Zenon, <1>2 DEF OnAppendResponse, OnSnapshotResponse, roleVars,
                        historyVars
      <2>2. PICK commit, pr :
                msgs' \subseteq msgs \cup
                    {SendAppend(n, m.from, log[n], commit, pr, NoContext)}
            <3>1. CASE OnAppendResponse(m)
                  BY Zenon, <1>2, <3>1 DEF OnAppendResponse, Exchange
            <3>2. CASE OnSnapshotResponse(m)
                  BY Zenon, <1>2, <3>2 DEF OnSnapshotResponse, Exchange
            <3>   QED  BY Zenon, <3>1, <3>2
      <2>3. ASSUME NEW x,
                   x = SendAppend(n, m.from, log[n], commit, pr, NoContext)
            PROVE  Backed(x)'
            <3>1. /\ x.type \in {"AppendEntries", "InstallSnapshot"}
                  /\ x.from = n /\ x.term = currentTerm[n]
                  BY <2>3, SendAppendSource
            <3>   QED  BY <2>1, <3>1, Delivered, LeaderSends
      <2>   QED  BY Zenon, <2>1, <2>2, <2>3, QuietStep
<1>   QED  BY Zenon, <1>1, <1>2

\* Every step of the protocol keeps the election invariant.
LEMMA NextElection ==
    ASSUME TypeInv, CampaignOK, ElectionInv, Next
    PROVE  ElectionInv'
<1>1. ASSUME NEW n \in Node, ElectionTick(n)
      PROVE  ElectionInv'
      BY Zenon, <1>1, ElectionTickElection
<1>2. ASSUME NEW n \in Node,
             \/ HeartbeatTick(n) \/ CheckQuorumTick(n) \/ ReadIndex(n)
             \/ Restart(n) \/ (\E i : SnapshotBuilt(n, i))
             \/ (\E c : Propose(n, c))
      PROVE  ElectionInv'
      BY Zenon, <1>2, TimersElection
<1>3. ASSUME NEW m \in msgs, Deliver(m) \/ Lose(m)
      PROVE  ElectionInv'
      BY Zenon, <1>3, NeutralElection, OnPreVoteResponseElection,
         OnVoteRequestElection, OnVoteResponseElection, FollowElection,
         RepliesElection DEF Deliver
<1>   QED  BY Zenon, <1>1, <1>2, <1>3 DEF Next
=============================================================================
