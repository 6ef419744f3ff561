---------------------------- MODULE RaftTheorems ----------------------------
(***************************************************************************)
(* The theorems about RaftNode, for every set of voters, fixed or joint,   *)
(* every limit and every fault: types, recoverability of the durable       *)
(* state, the safety of elections, logs that match, and commitment.        *)
(***************************************************************************)
EXTENDS RaftActionProofs, RaftElectionProofs, RaftCommitProofs,
        FiniteSetTheorems

-----------------------------------------------------------------------------
(***************************************************************************)
(* What takes the theorems of the library: induction over the naturals and *)
(* the cardinality of quorums.                                             *)
(***************************************************************************)

\* The hypothesis of the lemmas on least and greatest elements.
LEMMA WellOrdering == NaturalsWellOrdered
<1> DEFINE Less == {ss \in Nat \X Nat : ss[1] < ss[2]}
<1>1. IsWellFoundedOn(Less, Nat)
      BY Zenon, NatLessThanWellFounded DEF OpToRel
<1> HIDE DEF Less
<1>2. ASSUME NEW S \in SUBSET Nat, S # {}
      PROVE  \E x \in S : \A y \in S : x <= y
      <2>1. PICK x \in S : \A y \in S : ~ (<<y, x>> \in Less)
            BY Zenon, <1>1, <1>2, WFMin
      <2>2. ASSUME NEW y \in S
            PROVE  x <= y
            <3>1. SUFFICES ASSUME y < x PROVE <<y, x>> \in Less
                  BY <2>1
            <3>2. <<y, x>> \in Nat \X Nat /\ <<y, x>>[1] = y /\ <<y, x>>[2] = x
                  BY Zenon
            <3>   QED  BY Zenon, <3>1, <3>2 DEF Less
      <2>   QED  BY Zenon, <2>2
<1>   QED  BY Zenon, <1>2 DEF NaturalsWellOrdered

\* Two quorums share a voter: has_majority counts a strict majority of the
\* incoming side in both.
LEMMA QuorumsIntersect ==
    ASSUME NEW Q, NEW R, IsQuorum(Q), IsQuorum(R)
    PROVE  \E v \in Node : v \in Q /\ v \in R
<1> DEFINE q == Incoming \cap Q
           r == Incoming \cap R
<1>1. IsFiniteSet(Incoming)
      BY Zenon, VotersAssumption
<1>2. /\ Cardinality(Incoming) \in Nat
      /\ Cardinality(q) \in Nat
      /\ Cardinality(r) \in Nat
      BY Zenon, <1>1, FS_CardinalityType, FS_Subset
<1>3. /\ Cardinality(q) > Cardinality(Incoming) \div 2
      /\ Cardinality(r) > Cardinality(Incoming) \div 2
      BY Zenon DEF IsQuorum, HasMajority
<1>4. Cardinality(q) + Cardinality(r) > Cardinality(Incoming)
      BY <1>2, <1>3
<1>5. q \cap r # {}
      BY Zenon, <1>1, <1>4, FS_MajoritiesIntersect
<1>   QED  BY Zenon, <1>5 DEF Node

-----------------------------------------------------------------------------
(***************************************************************************)
(* Types, and a durable state that recover accepts.                        *)
(***************************************************************************)

\* An empty group satisfies the type invariant.
LEMMA InitTypeInv ==
    ASSUME Init
    PROVE  TypeInv /\ CampaignOK
<1>1. << >> \in Seq(Entry) /\ Len(<< >>) = 0
      OBVIOUS
<1>2. DurableOK
      <2>1. DurableStateRecoverable
            BY <1>1 DEF Init, DurableStateRecoverable, LastIndex, Sorted,
                        NoFutureTerm
      <2>   QED  BY Zenon, <1>1, <2>1 DEF Init, DurableOK
<1>3. VolatileOK
      BY Zenon, NoProgressOK DEF Init, VolatileOK, Role
<1>4. ProcessOK
      BY Zenon, <1>1 DEF Init, ProcessOK, NoTransfer
<1>5. HistoryOK /\ MessagesOK /\ CampaignOK
      BY Zenon DEF Init, HistoryOK, MessagesOK, CampaignOK
<1>   QED  BY Zenon, <1>2, <1>3, <1>4, <1>5 DEF TypeInv

\* Every step of the protocol keeps the type invariant.
LEMMA NextTypeInv ==
    ASSUME TypeInv, CampaignOK, Next
    PROVE  TypeInv'
<1>1. ASSUME NEW n \in Node,
             \/ ElectionTick(n) \/ HeartbeatTick(n) \/ CheckQuorumTick(n)
             \/ ReadIndex(n) \/ Restart(n)
      PROVE  TypeInv'
      BY Zenon, <1>1, WellOrdering, ElectionTickOK, HeartbeatTickOK,
         CheckQuorumTickOK, ReadIndexOK, RestartOK
<1>2. ASSUME NEW n \in Node, NEW c \in Command, Propose(n, c)
      PROVE  TypeInv'
      BY <1>2, WellOrdering, ProposeOK
<1>3. ASSUME NEW n \in Node, NEW i, SnapshotBuilt(n, i)
      PROVE  TypeInv'
      BY Zenon, <1>3, SnapshotBuiltOK
<1>4. ASSUME NEW m \in msgs, Deliver(m)
      PROVE  TypeInv'
      BY <1>4, WellOrdering, OnPreVoteRequestOK, OnPreVoteResponseOK,
         OnVoteRequestOK,
         OnVoteResponseOK, OnStaleAppendEntriesOK, OnAppendEntriesOK,
         OnAppendResponseOK, OnStaleInstallSnapshotOK, OnInstallSnapshotOK,
         OnSnapshotResponseOK, RestartAfterTermOK, RestartAfterLogOK
         DEF Deliver
<1>5. ASSUME NEW m \in msgs, Lose(m)
      PROVE  TypeInv'
      BY <1>5, LoseOK
<1>   QED  BY <1>1, <1>2, <1>3, <1>4, <1>5 DEF Next

\* A step that changes nothing keeps the type invariant.
LEMMA StutterTypeInv ==
    ASSUME TypeInv, CampaignOK, UNCHANGED vars
    PROVE  TypeInv' /\ CampaignOK'
<1>1. /\ UNCHANGED durableVars /\ UNCHANGED processVars /\ UNCHANGED historyVars
      /\ UNCHANGED roleVars /\ UNCHANGED leaderVars /\ UNCHANGED msgs
      BY Zenon DEF vars
<1>2. TypeInv'
      BY Zenon, <1>1, Unchanged DEF TypeInv
<1>3. CampaignOK'
      BY <1>1, CampaignUnchanged DEF durableVars, roleVars
<1>   QED  BY Zenon, <1>2, <1>3

\* Every reachable state satisfies the inductive invariant: the types, the
\* recoverability of the durable state, and well-formed messages.
THEOREM TypeInvariance == Spec => [](TypeInv /\ CampaignOK)
<1>1. Init => TypeInv /\ CampaignOK
      BY InitTypeInv
<1>2. (TypeInv /\ CampaignOK) /\ [Next]_vars => (TypeInv /\ CampaignOK)'
      BY Zenon, NextTypeInv, CampaignNext, StutterTypeInv
<1>   QED  BY <1>1, <1>2, PTL DEF Spec

\* Every variable keeps its type in every group, whatever its voters, limits
\* and faults: no handler of node.rs leaves the state ill-formed.
THEOREM TypeCorrectness == Spec => []TypeOK
<1>1. TypeInv => TypeOK
      BY Zenon DEF TypeInv, DurableOK, VolatileOK, ProcessOK, HistoryOK,
         MessagesOK,
             WellFormed, TypeOK
<1>   QED  BY <1>1, TypeInvariance, PTL

\* At every crash point the durable state of a node is one that recover
\* accepts.
THEOREM Recoverability == Spec => []DurableStateRecoverable
<1>1. TypeInv => DurableStateRecoverable
      BY Zenon DEF TypeInv, DurableOK
<1>   QED  BY <1>1, TypeInvariance, PTL

-----------------------------------------------------------------------------
(***************************************************************************)
(* Elections.                                                              *)
(***************************************************************************)

\* In every reachable state each vote is remembered by its voter, each
\* leadership rests on a quorum of ballots, and every message and role that
\* claims a vote or a leadership has one behind it.
THEOREM ElectionInvariance == Spec => []ElectionInv
<1>1. Init => ElectionInv
      <2>1. ASSUME Init, NEW n \in Node
            PROVE  RoleBacked(n)
            BY Zenon, <2>1 DEF Init, RoleBacked
      <2>   QED  BY Zenon, <2>1 DEF Init, ElectionInv, BallotsOK,
                    OneVotePerTerm,
                             LeadershipsOK
<1>2. (TypeInv /\ CampaignOK) /\ ElectionInv /\ [Next]_vars => ElectionInv'
      <2>1. ASSUME ElectionInv, UNCHANGED vars
            PROVE  ElectionInv'
            <3>1. UNCHANGED <<currentTerm, votedFor, role, leaderId, votes,
                              ballots, leaderships, msgs>>
                  BY Zenon, <2>1 DEF vars, durableVars, roleVars, historyVars
            <3>   QED  BY Zenon, <2>1, <3>1, QuietStep
      <2>   QED  BY Zenon, <2>1, NextElection
<1>   QED  BY <1>1, <1>2, TypeInvariance, PTL DEF Spec

\* No voter votes for two candidates of one term, across any crash.
THEOREM VotesOnce == Spec => []OneVotePerTerm
<1>1. ElectionInv => OneVotePerTerm
      BY Zenon DEF ElectionInv, BallotsOK
<1>   QED  BY <1>1, ElectionInvariance, PTL

\* Both quorums of ballots of two leaders of a term contain a common voter,
\* who voted once.
LEMMA ElectionInvSafe ==
    ASSUME ElectionInv
    PROVE  ElectionSafety
<1>1. SUFFICES ASSUME NEW a \in leaderships, NEW b \in leaderships, a.term = b.term
               PROVE  a.node = b.node
      BY Zenon DEF ElectionSafety
<1>2. PICK Q \in SUBSET Node :
          /\ IsQuorum(Q)
          /\ \A v \in Q : Ballot(v, a.node, a.term) \in ballots
      BY Zenon DEF ElectionInv, LeadershipsOK
<1>3. PICK R \in SUBSET Node :
          /\ IsQuorum(R)
          /\ \A v \in R : Ballot(v, b.node, b.term) \in ballots
      BY Zenon DEF ElectionInv, LeadershipsOK
<1>4. PICK v \in Node : v \in Q /\ v \in R
      BY <1>2, <1>3, QuorumsIntersect
<1>5. /\ Ballot(v, a.node, a.term) \in ballots
      /\ Ballot(v, b.node, b.term) \in ballots
      BY Zenon, <1>2, <1>3, <1>4
<1>6. Ballot(v, a.node, a.term).candidate
          = Ballot(v, b.node, b.term).candidate
      <2>1. OneVotePerTerm
            BY Zenon DEF ElectionInv, BallotsOK
      <2>2. /\ Ballot(v, a.node, a.term).voter = v
            /\ Ballot(v, b.node, b.term).voter = v
            /\ Ballot(v, a.node, a.term).term = a.term
            /\ Ballot(v, b.node, b.term).term = a.term
            BY Zenon, <1>1 DEF Ballot
      <2>   QED  BY <1>5, <2>1, <2>2 DEF OneVotePerTerm
<1>   QED  BY Zenon, <1>6 DEF Ballot

\* Two nodes never lead the same term, for any set of voters, fixed or joint:
\* on_vote_response counts a quorum of votes, and nobody votes twice.
THEOREM OneLeaderPerTerm == Spec => []ElectionSafety
<1>1. ElectionInv => ElectionSafety
      BY ElectionInvSafe
<1>   QED  BY <1>1, ElectionInvariance, PTL

\* The leader hint a node gives to clients names a node that was elected in
\* the term the node is in.
THEOREM HintsNameLeaders == Spec => []LeaderHintIsLeader
<1>1. ElectionInv => LeaderHintIsLeader
      BY Zenon DEF ElectionInv, RoleBacked, Leads, LeaderHintIsLeader
<1>   QED  BY <1>1, ElectionInvariance, PTL

-----------------------------------------------------------------------------
(***************************************************************************)
(* Logs.                                                                   *)
(***************************************************************************)

LEMMA QuorumsShare == QuorumsMeet
BY Zenon, QuorumsIntersect DEF QuorumsMeet

LEMMA SettledInvariance == Spec => [](CampaignOK /\ Settled)
<1>1. TypeInv /\ CampaignOK /\ ElectionInv => CampaignOK /\ Settled
      BY Zenon, ElectionInvSafe DEF Settled
<1>   QED  BY <1>1, TypeInvariance, ElectionInvariance, PTL

\* In every reachable state all logs, and all that messages carry of logs,
\* are coherent, and the entries of a term are the entries of its one leader.
THEOREM MatchInvariance == Spec => []MatchInv
<1>1. Init => MatchInv
      BY Zenon, InitMatch
<1>2. CampaignOK /\ Settled /\ Settled' /\ MatchInv /\ [Next]_vars => MatchInv'
      <2>1. ASSUME CampaignOK, Settled, Settled', MatchInv, Next
            PROVE  MatchInv'
            <3>1. PICK n \in Node : Step(n)
                  BY Zenon, <2>1, WellOrdering, NextKind DEF Settled
            <3>   QED  BY Zenon, <2>1, <3>1, WellOrdering, QuorumsShare, NextMatch
      <2>   QED  BY Zenon, <2>1, StutterMatch
<1>   QED  BY <1>1, <1>2, SettledInvariance, PTL DEF Spec

\* Two logs that hold the same term at an index are the same up to it, in
\* every group, whatever crashes, is lost, is cut at MAX_APPEND_ENTRIES, or is
\* replaced by a snapshot: the prev_log_term test of on_append_entries and the
\* boundary test of on_install_snapshot keep it so.
THEOREM LogsMatch == Spec => []LogMatching
<1>1. Settled /\ MatchInv => LogMatching
      BY Zenon, MatchInvMatches DEF Settled
<1>   QED  BY <1>1, SettledInvariance, MatchInvariance, PTL

-----------------------------------------------------------------------------
(***************************************************************************)
(* Commitment.  The theorems have a proviso: no AppendEntries in flight    *)
(* announces a commit index past the entries it carries.  send_append does *)
(* not guarantee it, since it caps the entries at MAX_APPEND_ENTRIES and   *)
(* not leader_commit; without it StateMachineSafety fails.                 *)
(***************************************************************************)

\* The proviso holds in every group where no follower falls behind by
\* MAX_APPEND_ENTRIES entries: then a message reaches to the end of the log.
THEOREM UncutAppendsCover == Spec /\ []UncutAppends => []AppendsCoverCommit
<1>1. Init => AppendsCoverCommit
      BY Zenon DEF Init, AppendsCoverCommit
<1>2. CampaignOK /\ Settled /\ Settled' /\ UncutAppends' /\ AppendsCoverCommit
      /\ [Next]_vars => AppendsCoverCommit'
      <2>1. ASSUME CampaignOK, Settled, Settled', UncutAppends',
                   AppendsCoverCommit, Next
            PROVE  AppendsCoverCommit'
            <3>1. PICK n \in Node : Step(n)
                  BY Zenon, <2>1, WellOrdering, NextKind DEF Settled
            <3>   QED  BY Zenon, <2>1, <3>1, UncutStep
      <2>2. ASSUME AppendsCoverCommit, UNCHANGED vars
            PROVE  AppendsCoverCommit'
            BY Zenon, <2>2 DEF vars, AppendsCoverCommit
      <2>   QED  BY Zenon, <2>1, <2>2
<1>   QED  BY <1>1, <1>2, SettledInvariance, PTL DEF Spec

\* Whatever a node considers committed, and whatever a message announces as
\* committed, is anchored in a quorum; nobody was fenced.
THEOREM CommitInvariance ==
    Spec /\ []AppendsCoverCommit => [](CommitInv /\ NeverFenced)
<1>1. Init => CommitInv /\ NeverFenced
      <2>1. Init => NeverFenced
            BY Zenon DEF Init, NeverFenced
      <2>   QED  BY Zenon, <2>1, InitCommit
<1>2. CampaignOK /\ Settled /\ Settled' /\ MatchInv /\ MatchInv' /\
      AppendsCoverCommit /\ CommitInv /\ NeverFenced /\ [Next]_vars
          => CommitInv' /\ NeverFenced'
      <2>1. ASSUME CampaignOK, Settled, Settled', MatchInv, MatchInv',
                   AppendsCoverCommit, CommitInv, NeverFenced, Next
            PROVE  CommitInv' /\ NeverFenced'
            <3>1. PICK n \in Node : Step(n)
                  BY Zenon, <2>1, WellOrdering, NextKind DEF Settled
            <3>2. CommitInv'
                  BY Zenon, <2>1, <3>1, WellOrdering, QuorumsShare, NextCommit
            <3>3. NeverFenced'
                  BY Zenon, <2>1, WellOrdering, FencedStep
            <3>   QED  BY Zenon, <3>2, <3>3
      <2>2. ASSUME CommitInv, NeverFenced, UNCHANGED vars
            PROVE  CommitInv' /\ NeverFenced'
            BY Zenon, <2>2, StutterCommit DEF vars, processVars, NeverFenced
      <2>   QED  BY Zenon, <2>1, <2>2
<1>   QED  BY <1>1, <1>2, SettledInvariance, MatchInvariance, PTL DEF Spec

\* Two nodes never apply different entries at an index.
THEOREM CommittedAgree ==
    Spec /\ []AppendsCoverCommit => []StateMachineSafety
<1>1. Settled /\ CommitInv => StateMachineSafety
      BY Zenon, QuorumsShare, CommitInvSafe
<1>   QED  BY <1>1, SettledInvariance, CommitInvariance, PTL

\* A leader holds all that was committed in its term or before.
THEOREM LeadersComplete ==
    Spec /\ []AppendsCoverCommit => []LeaderCompleteness
<1>1. Settled /\ MatchInv /\ CommitInv => LeaderCompleteness
      BY Zenon, QuorumsShare, CommitInvComplete
<1>   QED  BY <1>1, SettledInvariance, MatchInvariance, CommitInvariance, PTL

\* What on_append_response and on_snapshot_response count as replicated is in
\* the log of the follower they count.
THEOREM MatchesReplicated ==
    Spec /\ []AppendsCoverCommit => []MatchedIsReplicated
<1>1. Settled /\ CommitInv => MatchedIsReplicated
      BY Zenon, CommitInvMatched
<1>   QED  BY <1>1, SettledInvariance, CommitInvariance, PTL

\* on_append_entries never comes to "leader attempted to replace committed
\* index".
THEOREM NobodyFenced == Spec /\ []AppendsCoverCommit => []NeverFenced
BY CommitInvariance, PTL

\* No step replaces or forgets an entry its node knows to be committed, or
\* takes a commit index back.
THEOREM CommitsLast == Spec /\ []AppendsCoverCommit => CommittedNeverReplaced
<1> DEFINE Kept == \A n \in Node : /\ commitIndex'[n] >= commitIndex[n]
                                   /\ Agree(log[n], log'[n], commitIndex[n])
<1>1. CampaignOK /\ Settled /\ Settled' /\ MatchInv /\ CommitInv /\ [Next]_vars
          => [Kept]_vars
      <2>1. ASSUME CampaignOK, Settled, Settled', MatchInv, CommitInv, Next
            PROVE  Kept
            <3>1. PICK n \in Node : Step(n)
                  BY Zenon, <2>1, WellOrdering, NextKind DEF Settled
            <3>   QED  BY Zenon, <2>1, <3>1, WellOrdering, QuorumsShare,
                          CommittedStep
      <2>   HIDE DEF Kept
      <2>   QED  BY Zenon, <2>1
<1>   QED  BY <1>1, SettledInvariance, MatchInvariance, CommitInvariance, PTL
           DEF Spec, CommittedNeverReplaced
=============================================================================
