-------------------------- MODULE RaftCommitProofs --------------------------
(***************************************************************************)
(* Committed entries are never lost: once a quorum holds an entry of a     *)
(* leader's term, every later leader holds it, and no node replaces it.    *)
(* CommitInv of RaftInvariants is kept by every kind of step, as long as   *)
(* no AppendEntries announces a commit index past what it carries.         *)
(***************************************************************************)
EXTENDS RaftSupportProofs

-----------------------------------------------------------------------------
(***************************************************************************)
(* A leader's log is supported by a quorum that has not gone past the      *)
(* leader's term: nobody can have been elected since.                      *)
(***************************************************************************)

LEMMA NoLater ==
    ASSUME QuorumsMeet, Settled, NEW p, NEW u \in Nat, Leads(p, u),
           NEW Q \in SUBSET Node, IsQuorum(Q), NEW t \in Nat,
           \A v \in Q : currentTerm[v] <= t
    PROVE  u <= t
<1> DEFINE w == [node |-> p, term |-> u]
<1>1. w.node = p /\ w.term = u /\ w \in leaderships
      BY Zenon DEF Leads
<1>   HIDE DEF w
<1>2. PICK R \in SUBSET Node :
          /\ IsQuorum(R)
          /\ \A v \in R : Ballot(v, w.node, w.term) \in ballots
      BY Zenon, <1>1 DEF Settled, ElectionInv, LeadershipsOK
<1>3. PICK v \in Q : v \in R
      BY Zenon, <1>2 DEF QuorumsMeet
<1> DEFINE b == Ballot(v, p, u)
<1>4. b.voter = v /\ b.term = u /\ b \in ballots
      BY Zenon, <1>1, <1>2, <1>3 DEF Ballot
<1>   HIDE DEF b
<1>5. u <= currentTerm[v]
      BY Zenon, <1>4 DEF Settled, ElectionInv, BallotsOK
<1>6. currentTerm[v] \in Nat /\ currentTerm[v] <= t
      BY Zenon, <1>3, NodeDurable DEF Settled, TypeInv
<1>   QED  BY <1>5, <1>6

\* Q has not gone past the term of leader n, whose log ends in it.
Fresh(n, Q) ==
    /\ role[n] = "Leader" /\ Len(log[n]) >= 1 /\ LastTerm(log[n]) = currentTerm[n]
    /\ IsQuorum(Q) /\ \A v \in Q : currentTerm[v] <= currentTerm[n]

LEMMA FreshSupported ==
    ASSUME NaturalsWellOrdered, QuorumsMeet, Settled, MatchInv, SentParts,
           NEW n \in Node, NEW Q \in SUBSET Node, Fresh(n, Q)
    PROVE  Supported(log[n], Q)
<1> DEFINE a == log[n]
           t == currentTerm[n]
<1>1. /\ t \in Nat /\ a \in Seq(Entry) /\ Len(a) \in Nat /\ Sorted(a)
      /\ LastTerm(a) = t /\ Len(a) >= 1
      /\ IsQuorum(Q) /\ \A v \in Q : currentTerm[v] <= t
      BY Zenon, NodeDurable DEF Settled, TypeInv, Fresh
<1>2. ASSUME NEW p, NEW u \in Nat, Leads(p, u)
      PROVE  ~ (u > t)
      <2>1. u <= t
            BY Zenon, <1>1, <1>2, NoLater
      <2>   QED  BY <1>1, <1>2, <2>1
<1>3. VotersHold(a, Q)
      <2>1. \A v \in Q : currentTerm[v] \in Nat
            BY Zenon, NodeDurable DEF Settled, TypeInv
      <2>2. \A v \in Q : ~ (currentTerm[v] > LastTerm(a))
            BY <1>1, <2>1
      <2>   QED  BY Zenon, <2>2 DEF VotersHold
<1>4. LaterHold(a)
      <2>1. SUFFICES ASSUME NEW p \in Node, LastTerm(log[p]) > t
                     PROVE  FALSE
            BY Zenon, <1>1 DEF LaterHold
      <2>2. log[p] \in Seq(Entry) /\ Len(log[p]) \in Nat
            BY Zenon, NodeDurable DEF Settled, TypeInv
      <2>3. Len(log[p]) >= 1
        <3>1. SUFFICES ASSUME ~ (Len(log[p]) >= 1)
                       PROVE  FALSE
              BY Zenon
        <3>2. log[p] = << >>
              BY <2>2, <3>1
        <3>3. LastTerm(log[p]) = 0
              BY Zenon, <3>2 DEF LastTerm
        <3>   QED  BY <1>1, <2>1, <3>3
      <2>4. /\ Len(log[p]) \in 1 .. Len(log[p]) /\ LastTerm(log[p]) \in Nat
            /\ LastTerm(log[p]) = log[p][Len(log[p])].term
            BY Zenon, <2>2, <2>3, LastTermFacts
      <2>5. /\ Whole(log[p]) \in Fragments
            /\ Len(log[p]) \in In(Whole(log[p]))
            /\ TermIn(Whole(log[p]), Len(log[p])) = LastTerm(log[p])
            BY Zenon, <2>2, <2>4, WholeFacts, FragmentsType DEF Settled
      <2>6. \E q \in Node : Leads(q, LastTerm(log[p]))
            BY Zenon, <2>5 DEF MatchInv, EntriesLed
      <2>   QED  BY Zenon, <1>2, <2>1, <2>4, <2>6
<1>5. SentHold(a)
      <2>1. SUFFICES ASSUME NEW m \in msgs, FromLeader(m), m.term >= t
                     PROVE  Agrees(Carried(m), a)
            BY Zenon, <1>1 DEF SentHold
      <2>2. m.term \in Nat /\ Leads(m.from, m.term)
            BY Zenon, <2>1, SenderLeads
      <2>3. ~ (m.term > t)
            BY Zenon, <1>2, <2>2
      <2>4. m.term = t
            BY <1>1, <2>1, <2>2, <2>3
      <2>5. m.from = n
            BY Zenon, <2>1, <2>4, SenderIsLeader DEF Fresh
      <2>6. Part(Carried(m), Whole(a)) /\ Carried(m) \in Fragment
            BY Zenon, <2>1, <2>4, <2>5, LeaderMessageKinds
               DEF SentParts, Fresh, Settled
      <2>7. Extends(a, a)
            BY <1>1 DEF Extends
      <2>   QED  BY Zenon, <1>1, <2>6, <2>7, PartAgrees
<1>6. ChosenHold(a, Q)
      <2>1. SUFFICES ASSUME NEW b \in ballots, b.voter \in Q, b.term > t
                     PROVE  FALSE
            BY Zenon, <1>1 DEF ChosenHold
      <2>2. b.term <= currentTerm[b.voter] /\ currentTerm[b.voter] <= t
            BY Zenon, <1>1, <2>1 DEF Settled, ElectionInv, BallotsOK
      <2>3. currentTerm[b.voter] \in Nat
            BY Zenon, <2>1, NodeDurable DEF Settled, TypeInv
      <2>4. b.term \in Nat
            BY DEF Settled, TypeInv, HistoryOK
      <2>   QED  BY <1>1, <2>1, <2>2, <2>3, <2>4
<1>   QED  BY Zenon, <1>3, <1>4, <1>5, <1>6 DEF Supported

FreshAll ==
    Settled /\ MatchInv /\ SentParts =>
        \A n \in Node : \A Q \in SUBSET Node : Fresh(n, Q) => Supported(log[n], Q)

LEMMA FreshNow ==
    ASSUME NaturalsWellOrdered, QuorumsMeet
    PROVE  FreshAll
BY Zenon, FreshSupported DEF FreshAll

LEMMA FreshNext ==
    ASSUME NaturalsWellOrdered, QuorumsMeet
    PROVE  FreshAll'
BY FreshNow, PTL

\* Who has acknowledged an index in the next state had done so before, or is
\* not past the leader's term.
LEMMA AckedBefore ==
    ASSUME Settled, Settled', NEW n \in Node, Step(n), NEW k \in Node,
           role[k] = "Leader", role'[k] = "Leader", NEW v \in Node,
           NEW i \in Nat, i >= 1, Acked(k, v, i)'
    PROVE  Acked(k, v, i) \/ currentTerm'[v] <= currentTerm[k]
<1>1. currentTerm'[k] = currentTerm[k] /\ currentTerm[k] \in Nat
      BY Zenon, LeadersGrow, StepHistory
<1>2. currentTerm'[k] <= currentTerm[k]
      BY <1>1
<1>3. CASE progress'[k][v].match >= i
      <2>1. \/ progress'[k][v].match = 0
            \/ v = k /\ progress'[k][v].match <= Len(log'[k])
            \/ role[k] = "Leader" /\ progress'[k][v].match = progress[k][v].match
            \/ /\ role[k] = "Leader"
               /\ \E r \in msgs : /\ IsAck(r) /\ r.from = v /\ r.to = k
                                  /\ r.term = currentTerm[k]
                                  /\ r.match = progress'[k][v].match
            BY ProgressNext
      <2>2. progress'[k][v].match # 0
            BY <1>3
      <2>   QED  BY Zenon, <1>2, <1>3, <2>1, <2>2 DEF Acked
<1>4. ASSUME NEW r \in msgs', IsAck(r), r.from = v, r.to = k,
             r.term = currentTerm'[k], r.match >= i
      PROVE  Acked(k, v, i) \/ currentTerm'[v] <= currentTerm[k]
      <2>1. CASE r \in msgs
            BY Zenon, <1>1, <1>4, <2>1 DEF Acked
      <2>2. CASE r \notin msgs
        <3>1. PICK m \in msgs : Following(n, m) /\ Acking(n, m, r)
              BY Zenon, <1>4, <2>2, AcksNew
        <3>2. currentTerm'[v] = currentTerm'[k]
              BY Zenon, <1>4, <3>1 DEF Following, Acking
        <3>   QED  BY Zenon, <1>2, <3>2
      <2>   QED  BY Zenon, <2>1, <2>2
<1>   QED  BY Zenon, <1>3, <1>4 DEF Acked

\* Who has acknowledged an index holds the log up to it, or has moved on.
LEMMA AckedHolds ==
    ASSUME Settled, AcksHold, NEW k \in Node, role[k] = "Leader",
           NEW v \in Node, NEW i \in Nat, i >= 1, Acked(k, v, i)
    PROVE  Holds(k, v, i)
<1>0. /\ Len(log[k]) \in Nat /\ log[k] \in Seq(Entry) /\ log[v] \in Seq(Entry)
      BY Zenon, NodeDurable DEF Settled, TypeInv
<1>1. ASSUME NEW j \in Nat, j >= i, Holds(k, v, j)
      PROVE  Holds(k, v, i)
      <2>1. j >= 1 /\ i <= j
            BY <1>1
      <2>2. /\ j <= Len(log[k]) /\ currentTerm[v] >= currentTerm[k]
            /\ currentTerm[v] = currentTerm[k] => SameUpTo(log[v], log[k], j)
            BY Zenon, <1>1, <2>1 DEF Holds
      <2>3. i <= Len(log[k])
            BY <1>0, <2>1, <2>2
      <2>4. currentTerm[v] = currentTerm[k] => SameUpTo(log[v], log[k], i)
            BY Zenon, <1>0, <1>1, <2>1, <2>2, SameLess
      <2>   QED  BY Zenon, <2>2, <2>3, <2>4 DEF Holds
<1>2. CASE progress[k][v].match >= i
      <2>1. progress \in [Node -> [Node -> ProgressRecord]]
            BY Zenon DEF Settled, TypeInv, VolatileOK
      <2>2. progress[k][v] \in ProgressRecord
            BY <2>1
      <2>3. progress[k][v].match \in Nat
            BY <2>2 DEF ProgressRecord
      <2>   QED  BY Zenon, <1>1, <1>2, <2>3 DEF AcksHold
<1>3. ASSUME NEW r \in msgs, IsAck(r), r.from = v, r.to = k,
             r.term = currentTerm[k], r.match >= i
      PROVE  Holds(k, v, i)
      <2>1. r \in AppendEntriesResponse \/ r \in InstallSnapshotResponse
            BY Zenon, <1>3, Delivered, MessageKinds DEF IsAck, Settled
      <2>2. r.match \in Nat
            BY <2>1 DEF AppendEntriesResponse, InstallSnapshotResponse
      <2>   QED  BY Zenon, <1>1, <1>3, <2>2 DEF AcksHold
<1>   QED  BY Zenon, <1>2, <1>3 DEF Acked

\* An entry that a leader has just appended is acknowledged by itself only.
LEMMA NewUnacked ==
    ASSUME Settled, Settled', MatchInv, AcksLed, AcksHold, NEW n \in Node,
           Proposing(n) \/ Winning(n), NEW v \in Node,
           NEW i \in Nat, i = Len(log[n]) + 1, Acked(n, v, i)'
    PROVE  v = n
<1>1. SUFFICES ASSUME v # n
               PROVE  FALSE
      BY Zenon
<1>2. Appending(n) /\ currentTerm'[n] = currentTerm[n]
      BY Zenon DEF Proposing, Winning, Appending
<1>3. i >= 1 /\ ~ (i <= Len(log[n])) /\ ~ (0 >= i)
      <2>1. Len(log[n]) \in Nat
            BY Zenon, NodeDurable DEF Settled, TypeInv
      <2>   QED  BY <2>1
<1>4. \A x \in msgs' : IsAck(x) => x \in msgs
      <2>1. \A x \in msgs' : x \in msgs \/ x.type \in {"AppendEntries", "InstallSnapshot"}
            BY Zenon, <1>2 DEF Appending, LeaderMessage
      <2>   QED  BY <2>1 DEF IsAck
<1>5. \/ progress'[n][v].match >= i
      \/ \E r \in msgs : /\ IsAck(r) /\ r.from = v /\ r.to = n
                         /\ r.term = currentTerm[n] /\ r.match >= i
      BY Zenon, <1>2, <1>4 DEF Acked
<1>6. CASE Proposing(n)
      <2>1. Acked(n, v, i)
            BY Zenon, <1>1, <1>5, <1>6 DEF Acked, Proposing
      <2>2. Holds(n, v, i)
            BY Zenon, <1>3, <1>6, <2>1, AckedHolds DEF Proposing
      <2>   QED  BY Zenon, <1>3, <2>2 DEF Holds
<1>7. CASE Winning(n)
      BY Zenon, <1>1, <1>3, <1>5, <1>7, WinnerNew DEF Winning
<1>   QED  BY Zenon, <1>6, <1>7

\* A prefix that a leader has acquired support for keeps it.
LEMMA PendingKept ==
    ASSUME NaturalsWellOrdered, QuorumsMeet, Settled, Settled', MatchInv,
           NEW n \in Node, Step(n), AcksHold, OwnEntry, Pending,
           NEW k \in Node, role[k] = "Leader", role'[k] = "Leader",
           NEW i \in 1 .. Len(log[k]), log[k][i].term = currentTerm[k],
           NEW Q \in SUBSET Node, IsQuorum(Q),
           \A v \in Q : currentTerm'[v] <= currentTerm'[k] \/ Acked(k, v, i)',
           NEW a, a = SubSeq(log[k], 1, i)
    PROVE  Supported(a, Q)'
<1>1. /\ currentTerm'[k] = currentTerm[k] /\ log[k] \in Seq(Entry)
      BY Zenon, LeadersGrow
<1>2. i \in Nat /\ i >= 1
      BY <1>1, EntryTerms
<1>3. /\ a \in Seq(Entry) /\ Len(a) >= 1 /\ Extends(log[k], a) /\ Len(a) = i
      /\ LastTerm(a) = currentTerm[k] /\ \A j \in 1 .. i : a[j] = log[k][j]
      BY Zenon, <1>1, PrefixFacts
<1>4. \A v \in Node : /\ currentTerm[v] \in Nat /\ currentTerm'[v] \in Nat
                      /\ currentTerm[v] <= currentTerm'[v]
      BY Zenon, StepHistory
<1>5. \A v \in Q : currentTerm'[v] <= currentTerm[k] \/ Acked(k, v, i)
      BY Zenon, <1>1, <1>2, AckedBefore
<1>6. \A v \in Q : currentTerm'[v] <= currentTerm[k] =>
          currentTerm[v] <= currentTerm[k]
      BY <1>4
<1>7. Supported(a, Q)
      BY Zenon, <1>5, <1>6 DEF Pending
<1>8. Held(a)
      BY Zenon, <1>3 DEF Held
<1>9. ASSUME NEW v \in Q, currentTerm'[v] > LastTerm(a)
      PROVE  Extends(log[v], a)
      <2>1. CASE currentTerm[v] > LastTerm(a)
            BY Zenon, <1>7, <2>1 DEF Supported, VotersHold
      <2>2. CASE ~ (currentTerm[v] > LastTerm(a))
        <3>1. ~ (currentTerm'[v] <= currentTerm[k])
              BY <1>3, <1>4, <1>9
        <3>2. Holds(k, v, i)
              BY Zenon, <1>2, <1>5, <3>1, AckedHolds
        <3>3. /\ currentTerm[v] >= currentTerm[k]
              /\ currentTerm[v] = currentTerm[k] => SameUpTo(log[v], log[k], i)
              BY Zenon, <1>2, <3>2 DEF Holds
        <3>4. currentTerm[v] = currentTerm[k]
              BY <1>3, <1>4, <2>2, <3>3
        <3>   QED  BY Zenon, <1>1, <1>3, <3>3, <3>4, PrefixSame
      <2>   QED  BY Zenon, <2>1, <2>2
<1>   QED  BY Zenon, <1>7, <1>8, <1>9, SupportedStep

LEMMA PendingStep ==
    ASSUME NaturalsWellOrdered, QuorumsMeet, Settled, Settled', MatchInv, MatchInv',
           NEW n \in Node, Step(n), CommitInv
    PROVE  Pending'
<1>0. AcksLed /\ SentParts /\ AcksHold /\ OwnEntry /\ Pending
      BY Zenon DEF CommitInv
<1>1. SUFFICES ASSUME NEW k \in Node, role'[k] = "Leader",
                      NEW i \in 1 .. Len(log'[k]),
                      log'[k][i].term = currentTerm'[k],
                      NEW Q \in SUBSET Node, IsQuorum(Q),
                      \A v \in Q : \/ currentTerm'[v] <= currentTerm'[k]
                                   \/ Acked(k, v, i)'
               PROVE  Supported(SubSeq(log[k], 1, i), Q)'
      BY Zenon DEF Pending
<1>2. /\ log[k] \in Seq(Entry) /\ log'[k] \in Seq(Entry)
      /\ Len(log[k]) \in Nat /\ Len(log'[k]) \in Nat
      BY Zenon, LogsNext, NodeDurable, EntryTerms DEF Settled, TypeInv
<1>3. i \in Nat /\ i >= 1 /\ i <= Len(log'[k])
      BY <1>1, <1>2
<1>4. PICK a : a = SubSeq(log'[k], 1, i)
      BY Zenon
<1>5. SUFFICES Supported(a, Q)'
      BY Zenon, <1>4 DEF Supported, VotersHold, LaterHold, SentHold, ChosenHold
<1>6. a \in Seq(Entry) /\ Len(a) = i /\ \A j \in 1 .. i : a[j] = log'[k][j]
      BY Zenon, <1>1, <1>2, <1>4, PrefixFacts
<1>7. CASE role[k] = "Leader" /\ i <= Len(log[k])
      <2>1. i \in 1 .. Len(log[k])
            BY <1>2, <1>3, <1>7
      <2>2. /\ currentTerm'[k] = currentTerm[k]
            /\ \A j \in 1 .. Len(log[k]) : log'[k][j] = log[k][j]
            BY Zenon, <1>1, <1>7, LeadersGrow DEF Extends
      <2> DEFINE b == SubSeq(log[k], 1, i)
      <2>3. b \in Seq(Entry) /\ Len(b) = i /\ \A j \in 1 .. i : b[j] = log[k][j]
            BY Zenon, <1>2, <2>1, PrefixFacts
      <2>   HIDE DEF b
      <2>4. \A j \in 1 .. i : j \in 1 .. Len(log[k])
            BY <1>2, <1>3, <1>7
      <2>5. \A j \in 1 .. i : a[j] = b[j]
            BY Zenon, <1>6, <2>2, <2>3, <2>4
      <2>6. a = b
            BY Zenon, <1>6, <2>3, <2>5, LogEqual
      <2>7. log[k][i].term = currentTerm[k]
            BY Zenon, <1>1, <2>1, <2>2
      <2>   QED  BY Zenon, <1>0, <1>1, <1>7, <2>1, <2>6, <2>7, PendingKept DEF b
<1>8. CASE ~ (role[k] = "Leader" /\ i <= Len(log[k]))
      <2>1. k = n /\ (Proposing(n) \/ Winning(n))
        <3>1. CASE /\ role[k] = "Leader" /\ currentTerm'[k] = currentTerm[k]
                   /\ log'[k] = log[k]
              BY Zenon, <1>3, <1>8, <3>1
        <3>   QED  BY Zenon, <1>1, <3>1, LeadersKept
      <2>2. /\ Appending(n) /\ currentTerm'[n] = currentTerm[n]
            /\ Len(log'[n]) = Len(log[n]) + 1
            /\ \A j \in 1 .. Len(log[n]) : log'[n][j] = log[n][j]
            /\ LastTerm(log'[n]) = currentTerm[n]
            BY Zenon, <2>1, AppendingKeeps DEF Proposing, Winning, Appending
      <2>3. i = Len(log[n]) + 1
        <3>1. CASE Proposing(n)
              BY <1>2, <1>3, <1>8, <2>1, <2>2, <3>1 DEF Proposing
        <3>2. CASE Winning(n)
          <4>1. SUFFICES ASSUME i # Len(log[n]) + 1
                         PROVE  FALSE
                BY Zenon
          <4>2. i \in 1 .. Len(log[n])
                BY <1>2, <1>3, <2>1, <2>2, <4>1
          <4>3. log[n] \in Seq(Entry) /\ log[n][i].term = currentTerm[n]
                BY Zenon, <1>1, <1>2, <2>1, <2>2, <4>2
          <4>4. i \in In(Whole(log[n])) /\ TermIn(Whole(log[n]), i) = currentTerm[n]
                BY Zenon, <4>2, <4>3, WholeFacts
          <4>5. Whole(log[n]) \in Fragments
                BY Zenon, FragmentsType DEF Settled
          <4>   QED  BY Zenon, <3>2, <4>4, <4>5, WinningFresh
        <3>   QED  BY Zenon, <2>1, <3>1, <3>2
      <2>4. a = log'[n]
            BY Zenon, <1>2, <1>6, <2>1, <2>2, <2>3, LogEqual
      <2>5. \A v \in Q : currentTerm'[v] <= currentTerm'[n]
        <3>1. \A v \in Q : Acked(n, v, i)' => v = n
              BY Zenon, <1>0, <1>3, <2>1, <2>3, NewUnacked
        <3>2. currentTerm'[n] <= currentTerm'[n]
              BY StepHistory
        <3>   QED  BY Zenon, <1>1, <2>1, <3>1, <3>2
      <2>6. Fresh(n, Q)'
        <3>1. Len(log'[n]) >= 1
              BY <1>2, <2>1, <2>2
        <3>   QED  BY Zenon, <1>1, <2>1, <2>2, <2>5, <3>1 DEF Fresh
      <2>7. SentParts'
            BY Zenon, <1>0, SentPartsStep
      <2>8. Supported(log[n], Q)'
            BY Zenon, <2>6, <2>7, FreshNext DEF FreshAll
      <2>   QED  BY Zenon, <2>4, <2>8 DEF Supported, VotersHold, LaterHold,
                                         SentHold, ChosenHold
<1>   QED  BY Zenon, <1>7, <1>8

-----------------------------------------------------------------------------
(***************************************************************************)
(* Anchors: they are kept, a leader that counts a quorum has one, and      *)
(* every commit index rests on one.                                        *)
(***************************************************************************)

\* What is anchored stays anchored.
LEMMA AnchorStep ==
    ASSUME NaturalsWellOrdered, QuorumsMeet, Settled, Settled', MatchInv,
           OwnEntry, NEW n \in Node, Step(n), NEW a, NEW Q, Anchor(a, Q)
    PROVE  Anchor(a, Q)'
<1>1. /\ a \in Seq(Entry) /\ Len(a) >= 1 /\ Q \in SUBSET Node
      /\ IsQuorum(Q) /\ Supported(a, Q) /\ SentHold(a)
      /\ \A v \in Q : currentTerm[v] >= LastTerm(a) /\ Extends(log[v], a)
      BY Zenon DEF Anchor, Supported
<1>2. Held(a)
      BY Zenon, AnchorHeld
<1>3. Supported(a, Q)'
      BY Zenon, <1>1, <1>2, SupportedStep
<1>4. ASSUME NEW v \in Q
      PROVE  currentTerm'[v] >= LastTerm(a) /\ Extends(log'[v], a)
      <2>1. /\ currentTerm[v] \in Nat /\ currentTerm'[v] \in Nat
            /\ currentTerm[v] <= currentTerm'[v]
            BY Zenon, <1>1, StepHistory
      <2>2. currentTerm[v] >= LastTerm(a) /\ LastTerm(a) \in Nat
            BY Zenon, <1>1, LastTermFacts
      <2>3. currentTerm'[v] >= LastTerm(a)
            BY <2>1, <2>2
      <2>   QED  BY Zenon, <1>1, <1>2, <2>3, ExtendsStep
<1>   QED  BY Zenon, <1>1, <1>3, <1>4 DEF Anchor

\* An entry of a leader's own term that a quorum matches is anchored.
QuorumMatches(n, R, c) ==
    /\ role[n] = "Leader" /\ c \in 1 .. Len(log[n])
    /\ log[n][c].term = currentTerm[n]
    /\ IsQuorum(R) /\ \A v \in R : progress[n][v].match >= c

LEMMA QuorumAnchored ==
    ASSUME Settled, AcksHold, Pending, NEW n \in Node, NEW R \in SUBSET Node,
           NEW c, QuorumMatches(n, R, c)
    PROVE  Anchor(SubSeq(log[n], 1, c), R)
<1> DEFINE a == SubSeq(log[n], 1, c)
<1>1. /\ role[n] = "Leader" /\ c \in 1 .. Len(log[n])
      /\ log[n][c].term = currentTerm[n]
      /\ IsQuorum(R) /\ \A v \in R : progress[n][v].match >= c
      BY Zenon DEF QuorumMatches
<1>2. /\ log[n] \in Seq(Entry) /\ Len(log[n]) \in Nat
      /\ \A v \in Node : currentTerm[v] \in Nat /\ log[v] \in Seq(Entry)
      BY Zenon, NodeDurable, EntryTerms DEF Settled, TypeInv
<1>3. c \in Nat /\ c >= 1
      BY <1>1, <1>2
<1>4. /\ a \in Seq(Entry) /\ Len(a) = c /\ Len(a) >= 1
      /\ \A j \in 1 .. c : a[j] = log[n][j]
      /\ LastTerm(a) = currentTerm[n]
      BY Zenon, <1>1, <1>2, PrefixFacts
<1>5. Supported(a, R)
      BY Zenon, <1>1 DEF Pending, Acked
<1>   HIDE DEF a
<1>6. ASSUME NEW v \in R
      PROVE  currentTerm[v] >= LastTerm(a) /\ Extends(log[v], a)
      <2>1. Acked(n, v, c)
            BY Zenon, <1>1 DEF Acked
      <2>2. Holds(n, v, c)
            BY Zenon, <1>1, <1>3, <2>1, AckedHolds
      <2>3. /\ currentTerm[v] >= currentTerm[n]
            /\ currentTerm[v] = currentTerm[n] => SameUpTo(log[v], log[n], c)
            BY Zenon, <1>3, <2>2 DEF Holds
      <2>4. CASE currentTerm[v] = currentTerm[n]
            BY Zenon, <1>1, <1>2, <1>4, <2>3, <2>4, PrefixSame
      <2>5. CASE currentTerm[v] # currentTerm[n]
        <3>1. currentTerm[v] > LastTerm(a)
              BY <1>2, <1>4, <2>3, <2>5
        <3>   QED  BY Zenon, <1>4, <1>5, <2>3, <3>1 DEF Supported, VotersHold
      <2>   QED  BY Zenon, <2>4, <2>5
<1>7. Anchor(a, R)
      BY Zenon, <1>1, <1>4, <1>5, <1>6 DEF Anchor
<1>   QED  BY Zenon, <1>7 DEF a

QuorumAnchors ==
    Settled /\ AcksHold /\ Pending =>
        \A n \in Node : \A R \in SUBSET Node : \A c :
            QuorumMatches(n, R, c) => Anchor(SubSeq(log[n], 1, c), R)

LEMMA QuorumAnchorsNow == QuorumAnchors
BY Zenon, QuorumAnchored DEF QuorumAnchors

LEMMA QuorumAnchorsNext == QuorumAnchors'
BY QuorumAnchorsNow, PTL

\* No step replaces an entry that its node knows to be committed.
LEMMA CommitKept ==
    ASSUME NaturalsWellOrdered, QuorumsMeet, Settled, Settled', MatchInv,
           NEW n \in Node, Step(n), NEW p \in Node, commitIndex[p] >= 1,
           NEW a, NEW Q, Anchor(a, Q), LastTerm(a) <= currentTerm[p],
           SameUpTo(log[p], a, commitIndex[p])
    PROVE  SameUpTo(log'[p], a, commitIndex[p])
<1>1. a \in Seq(Entry) /\ Len(a) >= 1 /\ SentHold(a) /\ Held(a)
      BY Zenon, AnchorHeld DEF Anchor, Supported
<1>2. Sorted(a) /\ Len(a) \in Nat /\ LastTerm(a) \in Nat
      BY Zenon, <1>1, HeldFacts, LastTermFacts DEF Settled, MatchInv
<1> DEFINE c == commitIndex[p]
           s == SubSeq(a, 1, c)
<1>3. c \in Nat /\ c >= 1 /\ c <= Len(a)
      BY Zenon, NodeDurable DEF Settled, TypeInv, SameUpTo
<1>   HIDE DEF c
<1>4. c \in 1 .. Len(a)
      BY <1>2, <1>3
<1>5. /\ s \in Seq(Entry) /\ Len(s) = c /\ Len(s) >= 1
      /\ \A j \in 1 .. c : s[j] = a[j]
      BY Zenon, <1>1, <1>4, PrefixFacts
<1>   HIDE DEF s
<1>6. Extends(log[p], s)
      BY Zenon, <1>1, <1>4, <1>5, PrefixSame DEF c
<1>7. Held(s)
      BY Zenon, <1>5, <1>6 DEF Held
<1>8. ASSUME NEW m \in msgs, p = n, Following(n, m)
      PROVE  Agrees(Carried(m), s)
      <2>1. FromLeader(m) /\ currentTerm[p] <= m.term
            BY Zenon, <1>8 DEF Following
      <2>2. m.term \in Nat /\ currentTerm[p] \in Nat /\ Carried(m) \in Fragment
            BY Zenon, <2>1, SenderLeads, NodeDurable, LeaderMessageKinds
               DEF Settled, TypeInv
      <2>3. m.term >= LastTerm(a)
            BY <1>2, <2>1, <2>2
      <2>4. Agrees(Carried(m), a)
            BY Zenon, <1>1, <2>1, <2>3 DEF SentHold
      <2>   QED  BY Zenon, <1>1, <1>2, <1>3, <1>5, <2>2, <2>4, AgreesPrefix
<1>9. Extends(log'[p], s)
      BY Zenon, <1>6, <1>7, <1>8, KeepsStep
<1>   QED  BY Zenon, <1>1, <1>4, <1>5, <1>9, PrefixSame DEF c

\* What a follower takes over up to a covered index is anchored.
LEMMA FollowedCommit ==
    ASSUME NaturalsWellOrdered, QuorumsMeet, Settled, Settled', MatchInv,
           OwnEntry, NEW n \in Node, NEW m \in msgs, Following(n, m),
           Part(Carried(m), Whole(log'[n])), NEW c \in Nat, c >= 1,
           c <= LastOf(Carried(m)), Covered(c, m.term)
    PROVE  \E a, Q : /\ Anchor(a, Q)' /\ LastTerm(a) <= currentTerm'[n]
                     /\ SameUpTo(log'[n], a, c)
<1>1. Step(n) /\ FromLeader(m) /\ currentTerm'[n] = m.term
      BY Zenon DEF Step, Following
<1>2. PICK a, Q : Anchor(a, Q) /\ LastTerm(a) <= m.term /\ c <= Len(a)
      BY Zenon DEF Covered
<1>3. Anchor(a, Q)'
      BY Zenon, <1>1, <1>2, AnchorStep
<1>4. a \in Seq(Entry) /\ Len(a) >= 1 /\ SentHold(a) /\ Held(a)
      BY Zenon, <1>2, AnchorHeld DEF Anchor, Supported
<1>5. LastTerm(a) \in Nat /\ m.term \in Nat /\ Carried(m) \in Fragment
      BY Zenon, <1>1, <1>4, LastTermFacts, SenderLeads, LeaderMessageKinds
         DEF Settled
<1>6. m.term >= LastTerm(a)
      BY <1>2, <1>5
<1>7. Agrees(Carried(m), a)
      BY Zenon, <1>1, <1>4, <1>6 DEF SentHold
<1>8. /\ log'[n] \in Seq(Entry) /\ Sorted(log'[n])
      /\ Whole(log'[n]) \in Fragment
      /\ \A g \in Fragments : Match(Whole(log'[n]), g)
      BY Zenon, <1>1, LogsNext
<1>9. Coherent(Whole(a), Whole(log'[n]))
      BY Zenon, <1>4, <1>8, HeldMatches DEF Match, Settled
<1>10. LastTerm(log'[n]) > LastTerm(a) => Extends(log'[n], a)
       BY Zenon, <1>3 DEF Anchor, Supported, LaterHold
<1>11. SameUpTo(log'[n], a, c)
       BY Zenon, <1>2, <1>4, <1>5, <1>7, <1>8, <1>9, <1>10, CarriedSame
<1>   QED  BY Zenon, <1>1, <1>2, <1>3, <1>11

\* A commit index moves when a leader counts a quorum, or at a follower.
LEMMA CommitChanges ==
    ASSUME NEW n \in Node, Step(n), NEW p \in Node, commitIndex'[p] # commitIndex[p]
    PROVE  /\ p = n
           /\ \/ \E R \in SUBSET Node : QuorumMatches(n, R, commitIndex[n])'
              \/ \E m \in msgs : Following(n, m)
<1>1. p = n
      BY Zenon DEF Step, Quiet, Leading, Proposing, Winning, Appending,
                   Following, Others
<1>2. CASE Leading(n) \/ Proposing(n) \/ Winning(n)
      <2>1. /\ role'[n] = "Leader" /\ currentTerm'[n] = currentTerm[n]
            /\ Advances(n, log'[n], commitIndex'[n])
            BY Zenon, <1>2 DEF Leading, Proposing, Winning, Appending
      <2>2. PICK R \in SUBSET Node :
                /\ commitIndex'[n] \in 1 .. Len(log'[n])
                /\ log'[n][commitIndex'[n]].term = currentTerm[n]
                /\ IsQuorum(R) /\ \A v \in R : progress'[n][v].match >= commitIndex'[n]
            BY Zenon, <1>1, <2>1 DEF Advances
      <2>3. QuorumMatches(n, R, commitIndex[n])'
            BY Zenon, <2>1, <2>2 DEF QuorumMatches
      <2>   QED  BY Zenon, <1>1, <2>3
<1>3. CASE Quiet(n)
      BY Zenon, <1>1, <1>3 DEF Quiet
<1>   QED  BY Zenon, <1>1, <1>2, <1>3 DEF Step

\* The commit index a follower takes over is covered by what it received.
LEMMA FollowerCommits ==
    ASSUME NaturalsWellOrdered, Settled, Settled', MatchInv, SentBacked,
           AppendsCoverCommit, NEW n \in Node, NEW m \in msgs, Following(n, m),
           commitIndex'[n] # commitIndex[n]
    PROVE  /\ Part(Carried(m), Whole(log'[n]))
           /\ commitIndex'[n] <= LastOf(Carried(m))
           /\ Covered(commitIndex'[n], m.term)
<1>1. Part(Carried(m), Whole(log'[n])) /\ log'[n] \in Seq(Entry)
      BY Zenon, FollowingLog DEF Settled, MatchInv
<1>2. commitIndex[n] \in Nat
      BY Zenon, NodeDurable DEF Settled, TypeInv
<1>3. CASE TakesAppend(n, m)
      <2>1. /\ m \in AppendEntries /\ m.type = "AppendEntries" /\ m.commit \in Nat
            BY Zenon, <1>3 DEF TakesAppend, AppendEntries
      <2>2. /\ m.commit <= m.prev + Len(m.entries)
            /\ LastOf(Carried(m)) = m.prev + Len(m.entries)
            /\ m.prev \in Nat /\ Len(m.entries) \in Nat
            BY Zenon, <2>1, CarriedAppend DEF AppendsCoverCommit
      <2>3. commitIndex'[n] = FollowerCommit(commitIndex[n], log'[n], m)
            BY Zenon, <1>3 DEF TakesAppend
      <2>4. Len(log'[n]) \in Nat
            BY Zenon, <1>1, EntryTerms
      <2>5. commitIndex'[n] <= m.commit /\ commitIndex'[n] \in Nat
            BY <1>2, <2>1, <2>3, <2>4 DEF FollowerCommit, Larger, Smaller, LastIndex
      <2>6. commitIndex'[n] <= LastOf(Carried(m))
            BY <2>1, <2>2, <2>5
      <2>7. Covered(m.commit, m.term)
            BY Zenon, <2>1 DEF SentBacked
      <2>8. Covered(commitIndex'[n], m.term)
        <3>1. SUFFICES ASSUME commitIndex'[n] >= 1
                       PROVE  \E a, Q : /\ Anchor(a, Q) /\ LastTerm(a) <= m.term
                                        /\ commitIndex'[n] <= Len(a)
              BY Zenon DEF Covered
        <3>2. m.commit >= 1
              BY <2>1, <2>5, <3>1
        <3>3. PICK a, Q : /\ Anchor(a, Q) /\ LastTerm(a) <= m.term
                          /\ m.commit <= Len(a)
              BY Zenon, <2>7, <3>2 DEF Covered
        <3>4. Len(a) \in Nat
              BY Zenon, <3>3, EntryTerms DEF Anchor
        <3>5. commitIndex'[n] <= Len(a)
              BY <2>1, <2>5, <3>3, <3>4
        <3>   QED  BY Zenon, <3>3, <3>5
      <2>   QED  BY Zenon, <1>1, <2>6, <2>8
<1>4. CASE TakesSnapshot(n, m)
      <2>1. /\ m \in InstallSnapshot /\ m.type = "InstallSnapshot"
            /\ commitIndex'[n] = Len(m.snapshot)
            BY Zenon, <1>4 DEF TakesSnapshot, InstallSnapshot
      <2>2. Carried(m) = Whole(m.snapshot) /\ m.snapshot \in Seq(Entry)
            BY Zenon, <2>1, CarriedSnapshot
      <2>3. LastOf(Carried(m)) = Len(m.snapshot) /\ Len(m.snapshot) \in Nat
            BY Zenon, <2>2, WholeFacts
      <2>4. commitIndex'[n] <= LastOf(Carried(m))
            BY <2>1, <2>3
      <2>   QED  BY Zenon, <1>1, <2>1, <2>4 DEF SentBacked
<1>   QED  BY Zenon, <1>3, <1>4 DEF Following

LEMMA CommitsBackedStep ==
    ASSUME NaturalsWellOrdered, QuorumsMeet, Settled, Settled', MatchInv,
           AcksHold', Pending', NEW n \in Node, Step(n), CommitInv,
           AppendsCoverCommit
    PROVE  CommitsBacked'
<1>0. OwnEntry /\ CommitsBacked /\ SentBacked
      BY Zenon DEF CommitInv
<1>1. SUFFICES ASSUME NEW p \in Node, commitIndex'[p] >= 1
               PROVE  \E a, Q : /\ Anchor(a, Q)' /\ LastTerm(a) <= currentTerm'[p]
                                /\ SameUpTo(log'[p], a, commitIndex'[p])
      BY Zenon DEF CommitsBacked
<1>2. CASE commitIndex'[p] = commitIndex[p]
      <2>1. PICK a, Q : /\ Anchor(a, Q) /\ LastTerm(a) <= currentTerm[p]
                        /\ SameUpTo(log[p], a, commitIndex[p])
            BY Zenon, <1>0, <1>1, <1>2 DEF CommitsBacked
      <2>2. Anchor(a, Q)'
            BY Zenon, <1>0, <2>1, AnchorStep
      <2>3. SameUpTo(log'[p], a, commitIndex'[p])
            BY Zenon, <1>1, <1>2, <2>1, CommitKept
      <2>4. /\ currentTerm[p] \in Nat /\ currentTerm'[p] \in Nat
            /\ currentTerm[p] <= currentTerm'[p]
            BY Zenon, StepHistory
      <2>5. LastTerm(a) \in Nat
            BY Zenon, <2>1, LastTermFacts DEF Anchor
      <2>6. LastTerm(a) <= currentTerm'[p]
            BY <2>1, <2>4, <2>5
      <2>   QED  BY Zenon, <2>2, <2>3, <2>6
<1>3. CASE commitIndex'[p] # commitIndex[p]
      <2>1. p = n
            BY Zenon, <1>3, CommitChanges
      <2>2. ASSUME NEW R \in SUBSET Node, QuorumMatches(n, R, commitIndex[n])'
            PROVE  \E a, Q : /\ Anchor(a, Q)' /\ LastTerm(a) <= currentTerm'[n]
                             /\ SameUpTo(log'[n], a, commitIndex'[n])
        <3>1. PICK c : c = commitIndex'[n]
              BY Zenon
        <3>2. QuorumMatches(n, R, c)'
              BY Zenon, <2>2, <3>1 DEF QuorumMatches
        <3>3. PICK a : a = SubSeq(log'[n], 1, c)
              BY Zenon
        <3>4. Anchor(SubSeq(log[n], 1, c), R)'
              BY Zenon, <2>2, <3>2, QuorumAnchorsNext DEF QuorumAnchors
        <3>5. Anchor(a, R)'
              BY Zenon, <3>3, <3>4 DEF Anchor, Supported, VotersHold, LaterHold,
                                       SentHold, ChosenHold
        <3>6. /\ log'[n] \in Seq(Entry) /\ c \in 1 .. Len(log'[n])
              /\ log'[n][c].term = currentTerm'[n] /\ currentTerm'[n] \in Nat
              BY Zenon, <3>2, LogsNext, StepHistory DEF QuorumMatches
        <3>7. /\ a \in Seq(Entry) /\ Len(a) = c /\ \A j \in 1 .. c : a[j] = log'[n][j]
              /\ LastTerm(a) = currentTerm'[n]
              BY Zenon, <3>3, <3>6, PrefixFacts
        <3>8. Len(log'[n]) \in Nat /\ c \in Nat
              BY SMTT(15), <3>6, EntryTerms
        <3>9. LastTerm(a) <= currentTerm'[n] /\ c <= Len(a) /\ c <= Len(log'[n])
              BY <3>6, <3>7, <3>8
        <3>10. SameUpTo(log'[n], a, c)
               BY Zenon, <3>7, <3>9 DEF SameUpTo
        <3>   QED  BY Zenon, <3>1, <3>5, <3>9, <3>10
      <2>3. ASSUME NEW m \in msgs, Following(n, m)
            PROVE  \E a, Q : /\ Anchor(a, Q)' /\ LastTerm(a) <= currentTerm'[n]
                             /\ SameUpTo(log'[n], a, commitIndex'[n])
        <3>1. /\ Part(Carried(m), Whole(log'[n]))
              /\ commitIndex'[n] <= LastOf(Carried(m))
              /\ Covered(commitIndex'[n], m.term)
              BY Zenon, <1>0, <1>3, <2>1, <2>3, FollowerCommits
        <3>2. commitIndex'[n] \in Nat
              BY Zenon DEF Settled, TypeInv, DurableOK
        <3>   QED  BY Zenon, <1>0, <1>1, <2>1, <2>3, <3>1, <3>2, FollowedCommit
      <2>   QED  BY Zenon, <1>3, <2>1, <2>2, <2>3, CommitChanges
<1>   QED  BY Zenon, <1>2, <1>3

LEMMA SentBackedStep ==
    ASSUME NaturalsWellOrdered, QuorumsMeet, Settled, Settled', MatchInv,
           NEW n \in Node, Step(n), CommitInv, CommitsBacked'
    PROVE  SentBacked'
<1>0. OwnEntry /\ CommitsBacked /\ SentBacked
      BY Zenon DEF CommitInv
<1>1. ASSUME NEW i, NEW t, Covered(i, t)
      PROVE  Covered(i, t)'
      BY Zenon, <1>0, <1>1, AnchorStep DEF Covered
<1>2. SUFFICES ASSUME NEW x \in msgs'
               PROVE  /\ x.type = "AppendEntries" => Covered(x.commit, x.term)'
                      /\ x.type = "InstallSnapshot" => Covered(Len(x.snapshot), x.term)'
      BY Zenon DEF SentBacked
<1>3. CASE x \in msgs
      BY Zenon, <1>0, <1>1, <1>3 DEF SentBacked
<1>4. CASE x \notin msgs
      <2>1. SUFFICES ASSUME FromLeader(x)
                     PROVE  /\ x.type = "AppendEntries" => Covered(x.commit, x.term)'
                            /\ x.type = "InstallSnapshot" =>
                                   Covered(Len(x.snapshot), x.term)'
            BY Zenon DEF FromLeader
      <2>2. /\ Leading(n) \/ Proposing(n) \/ Winning(n)
            /\ LeaderMessage(n, log'[n], commitIndex'[n], x)
            BY Zenon, <1>4, <2>1, SentNew
      <2>3. x.term = currentTerm[n] /\ currentTerm'[n] = currentTerm[n]
            BY Zenon, <2>2 DEF LeaderMessage, Leading, Proposing, Winning, Appending
      <2>4. ASSUME x.type = "AppendEntries"
            PROVE  Covered(x.commit, x.term)'
        <3>1. x.commit = commitIndex'[n]
              BY Zenon, <2>2, <2>4 DEF LeaderMessage
        <3>   QED  BY Zenon, <2>3, <3>1 DEF Covered, CommitsBacked, SameUpTo
      <2>5. ASSUME x.type = "InstallSnapshot"
            PROVE  Covered(Len(x.snapshot), x.term)
        <3>1. Len(x.snapshot) = base[n]
              BY Zenon, <2>2, <2>5 DEF LeaderMessage
        <3>2. /\ base[n] \in Nat /\ commitIndex[n] \in Nat
              /\ base[n] <= commitIndex[n]
              BY Zenon, NodeDurable DEF Settled, TypeInv
        <3>3. SUFFICES ASSUME base[n] >= 1
                       PROVE  \E a, Q : /\ Anchor(a, Q) /\ LastTerm(a) <= x.term
                                        /\ base[n] <= Len(a)
              BY Zenon, <3>1 DEF Covered
        <3>4. commitIndex[n] >= 1
              BY <3>2, <3>3
        <3>5. PICK a, Q : /\ Anchor(a, Q) /\ LastTerm(a) <= currentTerm[n]
                          /\ commitIndex[n] <= Len(a)
              BY Zenon, <1>0, <3>4 DEF CommitsBacked, SameUpTo
        <3>6. Len(a) \in Nat
              BY Zenon, <3>5, EntryTerms DEF Anchor
        <3>7. base[n] <= Len(a)
              BY <3>2, <3>5, <3>6
        <3>   QED  BY Zenon, <2>3, <3>5, <3>7
      <2>   QED  BY Zenon, <1>1, <2>4, <2>5
<1>   QED  BY Zenon, <1>3, <1>4

-----------------------------------------------------------------------------
(***************************************************************************)
(* The invariant.                                                          *)
(***************************************************************************)

LEMMA InitCommit ==
    ASSUME Init
    PROVE  CommitInv
<1>1. /\ \A n \in Node : role[n] # "Leader" /\ ~ (commitIndex[n] >= 1)
      /\ msgs = {}
      BY DEF Init
<1>   QED  BY Zenon, <1>1 DEF CommitInv, AcksLed, SentParts, AcksHold, OwnEntry,
                              Pending, CommitsBacked, SentBacked

LEMMA NextCommit ==
    ASSUME NaturalsWellOrdered, QuorumsMeet, Settled, Settled', MatchInv, MatchInv',
           CommitInv, AppendsCoverCommit, NEW n \in Node, Step(n)
    PROVE  CommitInv'
<1>1. AcksLed' /\ SentParts' /\ OwnEntry'
      BY Zenon, AcksLedStep, SentPartsStep, OwnEntryStep DEF CommitInv
<1>2. AcksHold' /\ Pending'
      BY Zenon, AcksHoldStep, PendingStep
<1>3. CommitsBacked'
      BY Zenon, <1>2, CommitsBackedStep
<1>4. SentBacked'
      BY Zenon, <1>3, SentBackedStep
<1>   QED  BY Zenon, <1>1, <1>2, <1>3, <1>4 DEF CommitInv

LEMMA StutterCommit ==
    ASSUME CommitInv, UNCHANGED vars
    PROVE  CommitInv'
<1>1. UNCHANGED <<log, msgs, role, currentTerm, ballots, leaderships, progress,
                  commitIndex>>
      BY Zenon DEF vars, durableVars, roleVars, leaderVars, historyVars
<1>2. ASSUME NEW a, NEW Q
      PROVE  /\ Supported(a, Q)' <=> Supported(a, Q)
             /\ Anchor(a, Q)' <=> Anchor(a, Q)
      BY Zenon, <1>1 DEF Anchor, Supported, VotersHold, LaterHold, SentHold, ChosenHold
<1>3. ASSUME NEW k, NEW v, NEW i
      PROVE  /\ Acked(k, v, i)' <=> Acked(k, v, i)
             /\ Holds(k, v, i)' <=> Holds(k, v, i)
      BY Zenon, <1>1 DEF Acked, Holds
<1>4. AcksLed' /\ SentParts' /\ OwnEntry'
      BY Zenon, <1>1 DEF CommitInv, AcksLed, SentParts, OwnEntry, Leads
<1>5. AcksHold'
      BY Zenon, <1>1 DEF CommitInv, AcksHold, Holds
<1>6. Pending'
      <2>1. SUFFICES ASSUME NEW n \in Node, role'[n] = "Leader",
                            NEW k \in 1 .. Len(log'[n]),
                            log'[n][k].term = currentTerm'[n],
                            NEW Q \in SUBSET Node, IsQuorum(Q),
                            \A v \in Q : \/ currentTerm'[v] <= currentTerm'[n]
                                         \/ Acked(n, v, k)'
                     PROVE  Supported(SubSeq(log[n], 1, k), Q)'
            BY Zenon DEF Pending
      <2>2. /\ role[n] = "Leader" /\ k \in 1 .. Len(log[n])
            /\ log[n][k].term = currentTerm[n]
            /\ \A v \in Q : currentTerm[v] <= currentTerm[n] \/ Acked(n, v, k)
            BY Zenon, <1>1, <1>3, <2>1
      <2>3. Supported(SubSeq(log[n], 1, k), Q)
            BY Zenon, <2>1, <2>2 DEF CommitInv, Pending
      <2>   QED  BY Zenon, <1>1, <2>3 DEF Supported, VotersHold, LaterHold,
                                          SentHold, ChosenHold
<1>7. CommitsBacked' /\ SentBacked'
      BY Zenon, <1>1, <1>2 DEF CommitInv, CommitsBacked, SentBacked, Covered
<1>   QED  BY Zenon, <1>4, <1>5, <1>6, <1>7 DEF CommitInv

-----------------------------------------------------------------------------
(***************************************************************************)
(* What the invariant says of a state.                                     *)
(***************************************************************************)

LEMMA SameAgree ==
    ASSUME NEW l \in Seq(Entry), NEW k \in Seq(Entry), NEW c \in Nat,
           c >= 1 => SameUpTo(l, k, c)
    PROVE  Agree(l, k, c)
<1>1. CASE c >= 1
      BY Zenon, <1>1, AgreeEntries DEF SameUpTo
<1>2. CASE ~ (c >= 1)
      <2>1. Len(l) \in Nat /\ Len(k) \in Nat
            BY Zenon, EntryTerms
      <2>2. c <= Len(l) /\ c <= Len(k) /\ \A j \in 1 .. c : l[j] = k[j]
            BY <1>2, <2>1
      <2>   QED  BY Zenon, <2>2, AgreeEntries
<1>   QED  BY Zenon, <1>1, <1>2

\* The quorums behind two commit indexes share a voter, who holds both logs.
LEMMA CommitInvSafe ==
    ASSUME QuorumsMeet, Settled, CommitInv
    PROVE  StateMachineSafety
<1>1. SUFFICES ASSUME NEW n \in Node, NEW p \in Node
               PROVE  Agree(log[n], log[p], Smaller(commitIndex[n], commitIndex[p]))
      BY Zenon DEF StateMachineSafety
<1>2. /\ log[n] \in Seq(Entry) /\ log[p] \in Seq(Entry)
      /\ commitIndex[n] \in Nat /\ commitIndex[p] \in Nat
      BY Zenon, NodeDurable DEF Settled, TypeInv
<1> DEFINE c == Smaller(commitIndex[n], commitIndex[p])
<1>3. c \in Nat /\ c <= commitIndex[n] /\ c <= commitIndex[p]
      BY <1>2 DEF Smaller
<1>   HIDE DEF c
<1>4. ASSUME c >= 1
      PROVE  SameUpTo(log[n], log[p], c)
      <2>1. commitIndex[n] >= 1 /\ commitIndex[p] >= 1
            BY <1>2, <1>3, <1>4
      <2>2. PICK a, Q : Anchor(a, Q) /\ SameUpTo(log[n], a, commitIndex[n])
            BY Zenon, <2>1 DEF CommitInv, CommitsBacked
      <2>3. PICK b, R : Anchor(b, R) /\ SameUpTo(log[p], b, commitIndex[p])
            BY Zenon, <2>1 DEF CommitInv, CommitsBacked
      <2>4. PICK v \in Node : /\ a \in Seq(Entry) /\ b \in Seq(Entry)
                              /\ Extends(log[v], a) /\ Extends(log[v], b)
            BY Zenon, <2>2, <2>3 DEF Anchor, QuorumsMeet
      <2>5. log[v] \in Seq(Entry)
            BY Zenon, NodeDurable DEF Settled, TypeInv
      <2>6. SameUpTo(log[n], log[v], c)
        <3>1. SameUpTo(log[n], a, c)
              BY Zenon, <1>2, <1>3, <2>2, <2>4, SameLess
        <3>   QED  BY Zenon, <1>2, <1>3, <2>4, <2>5, <3>1, SameExtends
      <2>7. SameUpTo(log[p], log[v], c)
        <3>1. SameUpTo(log[p], b, c)
              BY Zenon, <1>2, <1>3, <2>3, <2>4, SameLess
        <3>   QED  BY Zenon, <1>2, <1>3, <2>4, <2>5, <3>1, SameExtends
      <2>   QED  BY Zenon, <2>6, <2>7, SameTransitive
<1>   QED  BY Zenon, <1>2, <1>3, <1>4, SameAgree DEF c

LEMMA AgreeSymmetric ==
    ASSUME NEW l, NEW k, NEW c, Agree(l, k, c)
    PROVE  Agree(k, l, c)
BY Zenon DEF Agree

LEMMA CommitInvComplete ==
    ASSUME QuorumsMeet, Settled, MatchInv, CommitInv
    PROVE  LeaderCompleteness
<1>1. SUFFICES ASSUME NEW n \in Node, NEW p \in Node, role[n] = "Leader",
                      currentTerm[p] <= currentTerm[n]
               PROVE  Agree(log[n], log[p], commitIndex[p])
      BY Zenon DEF LeaderCompleteness
<1>2. /\ log[n] \in Seq(Entry) /\ log[p] \in Seq(Entry) /\ commitIndex[p] \in Nat
      BY Zenon, NodeDurable DEF Settled, TypeInv
<1>3. commitIndex[p] >= 1 => SameUpTo(log[p], log[n], commitIndex[p])
      BY Zenon, <1>1, LeaderHoldsCommit DEF CommitInv
<1>   QED  BY Zenon, <1>2, <1>3, SameAgree, AgreeSymmetric

LEMMA CommitInvMatched ==
    ASSUME Settled, CommitInv
    PROVE  MatchedIsReplicated
<1>1. SUFFICES ASSUME NEW n \in Node, NEW p \in Node, role[n] = "Leader",
                      currentTerm[p] = currentTerm[n]
               PROVE  Agree(log[n], log[p], progress[n][p].match)
      BY Zenon DEF MatchedIsReplicated
<1>2. /\ log[n] \in Seq(Entry) /\ log[p] \in Seq(Entry)
      BY Zenon, NodeDurable DEF Settled, TypeInv
<1>3. progress[n][p].match \in Nat
      <2>1. progress \in [Node -> [Node -> ProgressRecord]]
            BY Zenon DEF Settled, TypeInv, VolatileOK
      <2>   QED  BY <2>1 DEF ProgressRecord
<1>4. progress[n][p].match >= 1 =>
          SameUpTo(log[p], log[n], progress[n][p].match)
      BY Zenon, <1>1 DEF CommitInv, AcksHold, Holds
<1>   QED  BY Zenon, <1>2, <1>3, <1>4, SameAgree, AgreeSymmetric

\* A leader never replaces what a node knows to be committed.
LEMMA NothingReplaced ==
    ASSUME NaturalsWellOrdered, Settled, CommitInv, NEW m \in msgs,
           m.type = "AppendEntries", m.term >= currentTerm[m.to],
           AcceptsAppend(log[m.to], base[m.to], m)
    PROVE  ~ ReplacesCommitted(m.to, m)
<1> DEFINE n == m.to
           C == ChangedPositions(log[n], base[n], m)
           f == Min(C)
           i == m.prev + f
<1>1. SUFFICES ASSUME C # {}, i <= commitIndex[n]
               PROVE  FALSE
      BY Zenon DEF ReplacesCommitted
<1>2. /\ n \in Node /\ m \in AppendEntries /\ FromLeader(m) /\ m.term \in Nat
      BY Zenon, Delivered, MessageKinds DEF Settled, FromLeader
<1>3. /\ log[n] \in Seq(Entry) /\ Len(log[n]) \in Nat /\ commitIndex[n] \in Nat
      /\ base[n] \in Nat /\ currentTerm[n] \in Nat
      /\ commitIndex[n] <= Len(log[n])
      BY Zenon, <1>2, NodeDurable DEF Settled, TypeInv
<1>4. /\ m.prev \in Nat /\ Len(m.entries) \in Nat
      /\ Carried(m).prev = m.prev /\ LastOf(Carried(m)) = m.prev + Len(m.entries)
      /\ EntryIn(Carried(m), i) = m.entries[i - m.prev]
      BY Zenon, <1>2, CarriedAppend
<1>5. C \subseteq Nat
      BY <1>4 DEF ChangedPositions
<1>6. f \in C
      BY Zenon, <1>1, <1>5, MinOfNaturals
<1>7. f \in 1 .. Len(m.entries) /\ TermAt(log[n], base[n], i) # m.entries[f].term
      BY Zenon, <1>6 DEF ChangedPositions
<1>8. base[n] <= m.prev
      BY Zenon DEF AcceptsAppend
<1>   HIDE DEF f, C, n
<1>9. f \in Nat /\ f >= 1 /\ f <= Len(m.entries)
      BY <1>4, <1>7
<1>10. /\ i \in Nat /\ i >= 1 /\ i - m.prev = f /\ i # m.prev
       /\ i \in m.prev .. m.prev + Len(m.entries) /\ commitIndex[n] >= 1
       /\ i \in 1 .. commitIndex[n]
       /\ ~ (i < base[n]) /\ ~ (i > Len(log[n])) /\ i # 0
       <2>1. i \in Nat /\ i >= 1 /\ i - m.prev = f /\ i # m.prev /\ i # 0
             BY <1>4, <1>9
       <2>2. i \in m.prev .. m.prev + Len(m.entries) /\ ~ (i < base[n])
             BY <1>3, <1>4, <1>8, <1>9
       <2>   HIDE DEF i
       <2>3. i \in 1 .. commitIndex[n] /\ commitIndex[n] >= 1 /\ ~ (i > Len(log[n]))
             BY <1>1, <1>3, <2>1
       <2>   QED  BY Zenon, <2>1, <2>2, <2>3
<1>11. TermAt(log[n], base[n], i) = log[n][i].term
       BY Zenon, <1>10 DEF TermAt
<1>   HIDE DEF i
<1>12. PICK a, Q : /\ Anchor(a, Q) /\ LastTerm(a) <= currentTerm[n]
                   /\ SameUpTo(log[n], a, commitIndex[n])
       BY Zenon, <1>2, <1>10 DEF CommitInv, CommitsBacked
<1>13. a \in Seq(Entry) /\ Len(a) >= 1 /\ SentHold(a)
       BY Zenon, <1>12 DEF Anchor, Supported
<1>14. LastTerm(a) \in Nat /\ Len(a) \in Nat
       BY Zenon, <1>13, LastTermFacts
<1>15. m.term >= LastTerm(a) /\ i <= Len(a)
       BY <1>1, <1>2, <1>3, <1>10, <1>12, <1>14 DEF n, SameUpTo
<1>16. Agrees(Carried(m), a)
       BY Zenon, <1>2, <1>13, <1>15 DEF SentHold
<1>17. i \in Known(Carried(m))
       BY Zenon, <1>4, <1>10 DEF Known
<1>18. TermIn(Carried(m), i) = TermIn(Whole(a), i)
       BY Zenon, <1>15, <1>16, <1>17 DEF Agrees
<1>19. TermIn(Carried(m), i) = m.entries[f].term
       BY Zenon, <1>4, <1>10 DEF TermIn, i
<1>20. i \in 1 .. Len(a)
       BY <1>10, <1>14, <1>15
<1>21. TermIn(Whole(a), i) = a[i].term
       BY Zenon, <1>13, <1>20, WholeFacts
<1>22. a[i] = log[n][i]
       BY Zenon, <1>10, <1>12 DEF SameUpTo
<1>   QED  BY Zenon, <1>7, <1>11, <1>18, <1>19, <1>21, <1>22 DEF i

\* So no step fences a node.
LEMMA FencedStep ==
    ASSUME NaturalsWellOrdered, Settled, CommitInv, NeverFenced, Next
    PROVE  NeverFenced'
<1>1. fenced \in [Node -> BOOLEAN] /\ \A k \in Node : ~ fenced[k]
      BY Zenon DEF Settled, TypeInv, ProcessOK, NeverFenced
<1>2. ASSUME UNCHANGED fenced
      PROVE  NeverFenced'
      BY Zenon, <1>1, <1>2 DEF NeverFenced
<1>3. ASSUME NEW n \in Node, Recover(n)
      PROVE  NeverFenced'
      <2>1. fenced' = [fenced EXCEPT ![n] = FALSE]
            BY Zenon, <1>3 DEF Recover
      <2>   QED  BY <1>1, <2>1 DEF NeverFenced
<1>4. ASSUME NEW n \in Node,
             \/ ElectionTick(n) \/ HeartbeatTick(n) \/ CheckQuorumTick(n)
             \/ ReadIndex(n) \/ Restart(n)
      PROVE  NeverFenced'
      BY Zenon, <1>2, <1>3, <1>4 DEF ElectionTick, HeartbeatTick,
         CheckQuorumTick, ReadIndex, Restart, processVars
<1>5. ASSUME NEW n \in Node, NEW c \in Command, Propose(n, c)
      PROVE  NeverFenced'
      BY Zenon, <1>2, <1>5 DEF Propose, processVars
<1>6. ASSUME NEW n \in Node, NEW i, SnapshotBuilt(n, i)
      PROVE  NeverFenced'
      BY Zenon, <1>2, <1>6 DEF SnapshotBuilt, processVars
<1>7. ASSUME NEW m \in msgs, OnAppendEntries(m)
      PROVE  NeverFenced'
      <2>1. m.type = "AppendEntries" /\ m.term >= currentTerm[m.to]
            BY Zenon, <1>7 DEF OnAppendEntries, Receives
      <2>2. AcceptsAppend(log[m.to], base[m.to], m) => ~ ReplacesCommitted(m.to, m)
            BY Zenon, <2>1, NothingReplaced
      <2>3. UNCHANGED fenced
            BY Zenon, <1>7, <2>2 DEF OnAppendEntries
      <2>   QED  BY Zenon, <1>2, <2>3
<1>8. ASSUME NEW m \in msgs,
             \/ OnPreVoteRequest(m) \/ OnPreVoteResponse(m) \/ OnVoteRequest(m)
             \/ OnVoteResponse(m) \/ OnStaleAppendEntries(m)
             \/ OnAppendResponse(m) \/ OnStaleInstallSnapshot(m)
             \/ OnInstallSnapshot(m) \/ OnSnapshotResponse(m) \/ Lose(m)
      PROVE  NeverFenced'
      <2>1. CASE OnPreVoteRequest(m) \/ OnPreVoteResponse(m) \/ OnVoteRequest(m)
            BY Zenon, <1>2, <2>1 DEF OnPreVoteRequest, OnPreVoteResponse,
               OnVoteRequest, StepDownOnNewerTerm, processVars
      <2>2. CASE OnVoteResponse(m) \/ OnAppendResponse(m)
            BY Zenon, <1>2, <2>2 DEF OnVoteResponse, OnAppendResponse,
               StepDownOnNewerTerm, processVars
      <2>3. CASE OnStaleAppendEntries(m) \/ OnStaleInstallSnapshot(m) \/ Lose(m)
            BY Zenon, <1>2, <2>3 DEF OnStaleAppendEntries,
               OnStaleInstallSnapshot, Lose, processVars
      <2>4. CASE OnInstallSnapshot(m) \/ OnSnapshotResponse(m)
            BY Zenon, <1>2, <2>4 DEF OnInstallSnapshot, OnSnapshotResponse,
               StepDownOnNewerTerm, processVars
      <2>   QED  BY Zenon, <1>8, <2>1, <2>2, <2>3, <2>4
<1>9. ASSUME NEW m \in msgs, RestartAfterTerm(m) \/ RestartAfterLog(m)
      PROVE  NeverFenced'
      <2>1. m.to \in Node
            BY Zenon, Delivered DEF Settled
      <2>   QED  BY Zenon, <1>3, <1>9, <2>1 DEF RestartAfterTerm, RestartAfterLog
<1>   QED  BY Zenon, <1>4, <1>5, <1>6, <1>7, <1>8, <1>9 DEF Next, Deliver

\* No step loses a committed entry, or takes a commit index back.
LEMMA CommittedStep ==
    ASSUME NaturalsWellOrdered, QuorumsMeet, Settled, Settled', MatchInv,
           CommitInv, NEW n \in Node, Step(n), NEW p \in Node
    PROVE  commitIndex'[p] >= commitIndex[p] /\ Agree(log[p], log'[p], commitIndex[p])
<1>1. /\ commitIndex[p] \in Nat /\ log[p] \in Seq(Entry) /\ log'[p] \in Seq(Entry)
      BY ZenonT(30), NodeDurable, LogsNext DEF Settled, TypeInv
<1>2. commitIndex'[p] >= commitIndex[p]
      <2>1. CASE commitIndex'[p] = commitIndex[p]
            BY <1>1, <2>1
      <2>2. CASE \E m \in msgs : p = n /\ Following(n, m)
        <3>1. PICK m \in msgs : p = n /\ Following(n, m)
              BY Zenon, <2>2
        <3>2. CASE TakesAppend(n, m)
          <4>1. /\ commitIndex'[n] \in {commitIndex[n],
                                        FollowerCommit(commitIndex[n], log'[n], m)}
                /\ m.commit \in Nat
                BY Zenon, <3>2 DEF TakesAppend, AppendEntries
          <4>2. Len(log'[n]) \in Nat
                BY Zenon, <1>1, <3>1, EntryTerms
          <4>   QED  BY <1>1, <3>1, <4>1, <4>2
                     DEF FollowerCommit, Larger, Smaller, LastIndex
        <3>3. CASE TakesSnapshot(n, m)
          <4>1. /\ m.snapshot \in Seq(Entry)
                /\ \/ commitIndex'[n] = commitIndex[n]
                   \/ /\ Len(m.snapshot) > commitIndex[n]
                      /\ commitIndex'[n] = Len(m.snapshot)
                BY Zenon, <3>3, CarriedSnapshot DEF TakesSnapshot
          <4>2. Len(m.snapshot) \in Nat
                BY Zenon, <4>1, EntryTerms
          <4>   QED  BY <1>1, <3>1, <4>1, <4>2
        <3>   QED  BY Zenon, <3>1, <3>2, <3>3 DEF Following
      <2>3. CASE p = n /\ Advances(n, log'[n], commitIndex'[n])
        <3>1. \/ commitIndex'[n] = commitIndex[n]
              \/ /\ commitIndex'[n] > commitIndex[n]
                 /\ commitIndex'[n] \in 1 .. Len(log'[n])
              BY Zenon, <2>3 DEF Advances
        <3>2. Len(log'[n]) \in Nat
              BY Zenon, <1>1, <2>3, EntryTerms
        <3>   QED  BY <1>1, <2>3, <3>1, <3>2
      <2>   QED  BY Zenon, <2>1, <2>2, <2>3 DEF Step, Quiet, Leading, Proposing,
                    Winning, Appending, Following, Others
<1>3. ASSUME commitIndex[p] >= 1
      PROVE  SameUpTo(log[p], log'[p], commitIndex[p])
      <2>1. PICK a, Q : /\ Anchor(a, Q) /\ LastTerm(a) <= currentTerm[p]
                        /\ SameUpTo(log[p], a, commitIndex[p])
            BY Zenon, <1>3 DEF CommitInv, CommitsBacked
      <2>2. SameUpTo(log'[p], a, commitIndex[p])
            BY Zenon, <1>3, <2>1, CommitKept
      <2>   QED  BY Zenon, <2>1, <2>2, SameTransitive
<1>   QED  BY Zenon, <1>1, <1>2, <1>3, SameAgree

\* A leader's message that is not cut at MAX_APPEND_ENTRIES reaches to the end
\* of its log, and so past its commit index.
LEMMA UncutStep ==
    ASSUME Settled, Settled', NEW n \in Node, Step(n), UncutAppends',
           AppendsCoverCommit
    PROVE  AppendsCoverCommit'
<1>1. SUFFICES ASSUME NEW x \in msgs', x.type = "AppendEntries", x \notin msgs
               PROVE  x.commit <= x.prev + Len(x.entries)
      BY Zenon DEF AppendsCoverCommit
<1>2. LeaderMessage(n, log'[n], commitIndex'[n], x)
      BY Zenon, <1>1, SentNew DEF FromLeader
<1>3. /\ x.commit = commitIndex'[n]
      /\ x.prev + Len(x.entries) = Len(log'[n])
      BY Zenon, <1>1, <1>2 DEF LeaderMessage, UncutAppends
<1>4. commitIndex'[n] <= Len(log'[n])
      BY Zenon DEF Settled, TypeInv, DurableOK, DurableStateRecoverable, LastIndex
<1>   QED  BY Zenon, <1>3, <1>4
=============================================================================
