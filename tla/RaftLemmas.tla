----------------------------- MODULE RaftLemmas -----------------------------
(***************************************************************************)
(* Lemmas about the operators the actions of RaftNode are built from: logs *)
(* and quorums, the messages they send, the commit indexes they leave      *)
(* behind, the groups of variables they change, and the pieces of logs     *)
(* that nodes hold and messages carry.  The one fact that takes induction, *)
(* that the naturals are well ordered, is a hypothesis of the lemmas that  *)
(* need it; RaftTheorems discharges it with the library's theorems, which  *)
(* slow the provers down wherever they are in scope.                       *)
(***************************************************************************)
EXTENDS RaftInvariants, TLAPS

\* Every nonempty set of naturals has a least element.
NaturalsWellOrdered ==
    \A S \in SUBSET Nat : S # {} => \E x \in S : \A y \in S : x <= y

-----------------------------------------------------------------------------
(***************************************************************************)
(* Least and greatest elements.                                            *)
(***************************************************************************)

\* A nonempty set of naturals has a least element, the one Min chooses.
LEMMA MinOfNaturals ==
    ASSUME NaturalsWellOrdered, NEW S, S \subseteq Nat, S # {}
    PROVE  /\ Min(S) \in S
           /\ \A y \in S : Min(S) <= y
<1>1. PICK x \in S : \A y \in S : x <= y
      BY DEF NaturalsWellOrdered
<1>   QED  BY Zenon, <1>1 DEF Min

\* A function on 1 .. k into the naturals is bounded: the least k without a
\* bound would have a predecessor with one.
LEMMA FiniteSequenceBounded ==
    ASSUME NaturalsWellOrdered, NEW k \in Nat, NEW f \in [1 .. k -> Nat]
    PROVE  \E u \in Nat : \A i \in 1 .. k : f[i] <= u
<1> DEFINE Bounded(g, j) == \E u \in Nat : \A i \in 1 .. j : g[i] <= u
           Bad == {j \in Nat : \E g \in [1 .. j -> Nat] : ~ Bounded(g, j)}
<1> HIDE DEF Bounded
<1>1. SUFFICES ASSUME ~ Bounded(f, k) PROVE FALSE
      BY DEF Bounded
<1>2. Bad \subseteq Nat /\ Bad # {}
      BY <1>1
<1>3. PICK j \in Bad : \A i \in Bad : j <= i
      BY Zenon, <1>2, MinOfNaturals
<1>4. PICK g \in [1 .. j -> Nat] : ~ Bounded(g, j)
      BY <1>3
<1>5. j # 0
      <2>1. SUFFICES ASSUME j = 0 PROVE Bounded(g, j)
            BY <1>4
      <2>2. \A i \in 1 .. j : g[i] <= 0
            BY <2>1
      <2>   QED  BY Zenon, <2>2 DEF Bounded
<1>6. j - 1 \in Nat /\ j - 1 \notin Bad
      <2>1. j \in Nat
            BY <1>2, <1>3
      <2>   HIDE DEF Bad
      <2>   QED  BY <1>3, <1>5, <2>1
<1> DEFINE h == [i \in 1 .. (j - 1) |-> g[i]]
<1>7. h \in [1 .. (j - 1) -> Nat]
      BY <1>2, <1>3
<1>8. PICK u \in Nat : \A i \in 1 .. (j - 1) : h[i] <= u
      BY Zenon, <1>6, <1>7 DEF Bounded
<1>9. \A i \in 1 .. j : g[i] <= u + g[j] /\ g[j] \in Nat
      <2>1. TAKE i \in 1 .. j
      <2>2. g[j] \in Nat /\ g[i] \in Nat
            BY <1>2, <1>3
      <2>3. CASE i = j
            BY <2>2, <2>3
      <2>4. CASE i # j
            <3>1. i \in 1 .. (j - 1)
                  BY <1>2, <1>3, <2>4
            <3>   QED  BY <1>8, <2>2, <3>1
      <2>   QED  BY <2>3, <2>4
<1>10. u + g[j] \in Nat /\ \A i \in 1 .. j : g[i] <= u + g[j]
      BY <1>2, <1>3, <1>5, <1>9
<1>   QED  BY Zenon, <1>4, <1>10 DEF Bounded

\* A nonempty bounded set of naturals has a greatest element, the one Max
\* chooses.
LEMMA MaxOfNaturals ==
    ASSUME NaturalsWellOrdered, NEW S, S \subseteq Nat, S # {},
           NEW u \in Nat, \A s \in S : s <= u
    PROVE  /\ Max(S) \in S
           /\ \A y \in S : y <= Max(S)
<1> DEFINE U == {w \in Nat : \A s \in S : s <= w}
<1>5. u \in U
      OBVIOUS
<1>6. PICK w \in U : \A v \in U : w <= v
      BY Zenon, <1>5, MinOfNaturals
<1>7. w \in S
      <2>1. SUFFICES ASSUME w \notin S PROVE FALSE
            OBVIOUS
      <2>2. \A s \in S : s <= w - 1
            BY <1>6, <2>1
      <2>3. w - 1 \in Nat
            <3>1. PICK s \in S : TRUE
                  BY Zenon
            <3>2. w \in Nat /\ s \in Nat /\ s <= w - 1
                  BY <1>6, <2>2
            <3>   QED  BY <3>2
      <2>   QED  BY <2>2, <2>3, <1>6
<1>8. \A y \in S : w >= y
      BY <1>6
<1>   QED  BY Zenon, <1>7, <1>8 DEF Max

-----------------------------------------------------------------------------
(***************************************************************************)
(* Quorums.                                                                *)
(***************************************************************************)

\* A function of the voters into the naturals is bounded: there are finitely
\* many voters.
LEMMA VotersBounded ==
    ASSUME NaturalsWellOrdered, NEW f \in [Node -> Nat]
    PROVE  \E u \in Nat : \A v \in Node : f[v] <= u
<1>1. ASSUME NEW V \in SUBSET Node, IsFiniteSet(V)
      PROVE  \E u \in Nat : \A v \in V : f[v] <= u
      <2>1. PICK s \in Seq(V) : \A v \in V : \E i \in 1 .. Len(s) : s[i] = v
            BY <1>1 DEF IsFiniteSet
      <2>2. /\ Len(s) \in Nat
            /\ [i \in 1 .. Len(s) |-> f[s[i]]] \in [1 .. Len(s) -> Nat]
            OBVIOUS
      <2>3. PICK u \in Nat :
                \A i \in 1 .. Len(s) : [j \in 1 .. Len(s) |-> f[s[j]]][i] <= u
            BY Zenon, <2>2, FiniteSequenceBounded
      <2>   QED  BY Zenon, <2>1, <2>3
<1>2. PICK a \in Nat : \A v \in Incoming : f[v] <= a
      BY <1>1, VotersAssumption DEF Node
<1>3. PICK b \in Nat : \A v \in Outgoing : f[v] <= b
      BY <1>1, VotersAssumption DEF Node
<1>4. a + b \in Nat /\ \A v \in Node : f[v] \in Nat /\ f[v] <= a + b
      BY <1>2, <1>3 DEF Node
<1>   QED  BY <1>4

\* quorum_index computes an index from the matched indexes, or 0.
LEMMA QuorumIndexType ==
    ASSUME NaturalsWellOrdered, NEW matched \in [Node -> Nat]
    PROVE  QuorumIndex(matched) \in Nat
<1> DEFINE values  == {matched[v] : v \in Node}
           reached == {i \in values : IsQuorum({v \in Node : matched[v] >= i})}
<1>1. PICK u \in Nat : \A v \in Node : matched[v] <= u
      BY VotersBounded
<1>2. reached \subseteq Nat /\ \A i \in reached : i <= u
      BY <1>1
<1>3. reached # {} => Max(reached) \in Nat
      <2>   HIDE DEF reached
      <2>   QED  BY Zenon, <1>2, MaxOfNaturals
<1>   QED  BY Zenon, <1>3 DEF QuorumIndex

-----------------------------------------------------------------------------
(***************************************************************************)
(* The log.                                                                *)
(***************************************************************************)

\* Logs as sequences: the elements, the concatenation, the extension and the
\* parts of a log.
LEMMA LogElements ==
    ASSUME NEW l \in Seq(Entry)
    PROVE  /\ Len(l) \in Nat /\ \A i \in 1 .. Len(l) : l[i] \in Entry
           /\ l # << >> => Len(l) \in 1 .. Len(l)
OBVIOUS

\* Concatenation.
LEMMA LogConcat ==
    ASSUME NEW p \in Seq(Entry), NEW q \in Seq(Entry)
    PROVE  /\ p \o q \in Seq(Entry) /\ Len(p \o q) = Len(p) + Len(q)
           /\ \A i \in 1 .. Len(p) + Len(q) :
                  (p \o q)[i] = IF i <= Len(p) THEN p[i] ELSE q[i - Len(p)]
OBVIOUS

\* Appending one entry.
LEMMA LogAppend ==
    ASSUME NEW l \in Seq(Entry), NEW e \in Entry
    PROVE  /\ Append(l, e) \in Seq(Entry) /\ Len(Append(l, e)) = Len(l) + 1
           /\ \A i \in 1 .. Len(l) : Append(l, e)[i] = l[i]
           /\ Append(l, e)[Len(l) + 1] = e
OBVIOUS

\* Consecutive entries.
LEMMA LogPart ==
    ASSUME NEW l, NEW i \in Int, NEW j \in Int, \A k \in i .. j : l[k] \in Entry
    PROVE  /\ SubSeq(l, i, j) \in Seq(Entry)
           /\ Len(SubSeq(l, i, j)) = IF i <= j THEN j - i + 1 ELSE 0
           /\ \A k \in 1 .. j - i + 1 : SubSeq(l, i, j)[k] = l[i + k - 1]
OBVIOUS

\* An entry of a log has a natural number as its term.
LEMMA EntryTerms ==
    ASSUME NEW l \in Seq(Entry)
    PROVE  Len(l) \in Nat /\ \A i \in 1 .. Len(l) : l[i].term \in Nat
<1>1. \A e \in Entry : e.term \in Nat
      BY DEF Entry
<1>   QED  BY <1>1, LogElements

\* term answers exactly for the boundary and the retained entries.
LEMMA TermAtType ==
    ASSUME NEW l \in Seq(Entry), NEW b \in Nat, NEW i \in Nat
    PROVE  /\ TermAt(l, b, i) \in Nat \cup {NoTerm}
           /\ TermAt(l, b, i) # NoTerm <=> b <= i /\ i <= Len(l)
BY EntryTerms DEF TermAt, NoTerm

\* Above the boundary, TermAt is the term of the entry.
LEMMA TermAtEntry ==
    ASSUME NEW l \in Seq(Entry), NEW b \in Nat, NEW i \in 1 .. Len(l), b <= i
    PROVE  TermAt(l, b, i) = l[i].term
BY EntryTerms DEF TermAt

\* last_term is a term, 0 for the empty log.
LEMMA LastTermType ==
    ASSUME NEW l \in Seq(Entry)
    PROVE  LastTerm(l) \in Nat
BY LogElements, EntryTerms DEF LastTerm

\* entries_from returns entries.
LEMMA EntriesFromType ==
    ASSUME NEW l \in Seq(Entry), NEW i \in Nat \ {0}, NEW limit \in Nat
    PROVE  EntriesFrom(l, i, limit) \in Seq(Entry)
<1> DEFINE last == Smaller(Len(l), i + limit - 1)
<1>1. Len(l) \in Nat /\ last \in Int /\ last <= Len(l)
      BY LogElements DEF Smaller
<1>2. \A j \in i .. last : l[j] \in Entry
      BY <1>1, LogElements
<1>   QED  BY <1>1, <1>2, LogPart DEF EntriesFrom

\* A prefix of a log, such as the content of a snapshot.
LEMMA PrefixProperties ==
    ASSUME NEW l \in Seq(Entry), NEW k \in 0 .. Len(l)
    PROVE  /\ SubSeq(l, 1, k) \in Seq(Entry)
           /\ Len(SubSeq(l, 1, k)) = k
           /\ \A i \in 1 .. k : SubSeq(l, 1, k)[i] = l[i]
<1>1. Len(l) \in Nat /\ k \in Nat /\ \A i \in 1 .. k : l[i] \in Entry
      BY LogElements
<1>   QED  BY <1>1, LogPart

\* first_index_of_term walks down from an index the log answers for.
LEMMA FirstIndexOfTermType ==
    ASSUME NaturalsWellOrdered, NEW l \in Seq(Entry), NEW b \in Nat,
           NEW i \in Nat, b <= i
    PROVE  FirstIndexOfTerm(l, b, i) \in Nat
<1> DEFINE S == {j \in b .. i :
                    \A k \in j .. i : TermAt(l, b, k) = TermAt(l, b, i)}
<1>1. i \in S /\ S \subseteq Nat
      OBVIOUS
<1>2. Min(S) \in Nat
      BY Zenon, <1>1, MinOfNaturals
<1>   QED  BY <1>2 DEF FirstIndexOfTerm

\* last_index_of_term returns an index of the log or None.
LEMMA LastIndexOfTermType ==
    ASSUME NaturalsWellOrdered, NEW l \in Seq(Entry), NEW b \in Nat, NEW term
    PROVE  LastIndexOfTerm(l, b, term) \in Nat \cup {NoTerm}
<1> DEFINE holding == {j \in b .. Len(l) : TermAt(l, b, j) = term}
<1>1. Len(l) \in Nat
      BY LogElements
<1>2. holding \subseteq Nat /\ \A j \in holding : j <= Len(l)
      BY <1>1
<1>3. holding # {} => Max(holding) \in Nat
      <2>   HIDE DEF holding
      <2>   QED  BY Zenon, <1>1, <1>2, MaxOfNaturals
<1>   QED  BY <1>3 DEF LastIndexOfTerm

-----------------------------------------------------------------------------
(***************************************************************************)
(* Messages.                                                               *)
(***************************************************************************)
LEMMA MessageKinds ==
    ASSUME NEW m \in Message
    PROVE  /\ m.type \in {"PreVoteRequest", "RequestVote"} => m \in VoteRequest
           /\ m.type = "PreVoteResponse" => m \in PreVoteResponse
           /\ m.type = "RequestVoteResponse" => m \in RequestVoteResponse
           /\ m.type = "AppendEntries" => m \in AppendEntries
           /\ m.type = "AppendEntriesResponse" => m \in AppendEntriesResponse
           /\ m.type = "InstallSnapshot" => m \in InstallSnapshot
           /\ m.type = "InstallSnapshotResponse" =>
                  m \in InstallSnapshotResponse
BY Zenon DEF Message, VoteRequest, PreVoteResponse, RequestVoteResponse,
       AppendEntries, AppendEntriesResponse, InstallSnapshot,
       InstallSnapshotResponse

\* A well-formed message travels between voters and carries a term.
LEMMA MessageEnds ==
    ASSUME NEW m \in Message
    PROVE  m.from \in Node /\ m.to \in Node /\ m.term \in Nat
BY Zenon DEF Message, VoteRequest, PreVoteResponse, RequestVoteResponse,
       AppendEntries, AppendEntriesResponse, InstallSnapshot,
       InstallSnapshotResponse

\* Handling a message leaves only well-formed messages in flight if it sends
\* only well-formed ones.
LEMMA ExchangeOK ==
    ASSUME MessagesOK, NEW m, NEW sent, Exchange(m, sent),
           \A x \in sent : WellFormed(x)
    PROVE  MessagesOK'
BY Zenon DEF Exchange, MessagesOK

\* What a broadcast, outside any delivery, adds to the network.
LEMMA SentOK ==
    ASSUME MessagesOK, NEW sent, msgs' = msgs \cup sent,
           \A x \in sent : WellFormed(x)
    PROVE  MessagesOK'
BY Zenon DEF MessagesOK

\* What the durable state of one node satisfies.
LEMMA NodeDurable ==
    ASSUME DurableOK, NEW n \in Node
    PROVE  /\ currentTerm[n] \in Nat /\ votedFor[n] \in Node \cup {NoNode}
           /\ commitIndex[n] \in Nat /\ base[n] \in Nat
           /\ log[n] \in Seq(Entry) /\ Len(log[n]) \in Nat
           /\ base[n] <= commitIndex[n] /\ commitIndex[n] <= Len(log[n])
           /\ base[n] <= Len(log[n])
           /\ Sorted(log[n]) /\ NoFutureTerm(log[n], currentTerm[n])
<1>1. /\ currentTerm[n] \in Nat /\ votedFor[n] \in Node \cup {NoNode}
      /\ commitIndex[n] \in Nat /\ base[n] \in Nat /\ log[n] \in Seq(Entry)
      BY Zenon DEF DurableOK
<1>2. Len(log[n]) \in Nat
      BY Zenon, <1>1, EntryTerms
<1>3. /\ base[n] <= commitIndex[n] /\ commitIndex[n] <= Len(log[n])
      /\ Sorted(log[n]) /\ NoFutureTerm(log[n], currentTerm[n])
      BY Zenon DEF DurableOK, DurableStateRecoverable, LastIndex
<1>   QED  BY <1>1, <1>2, <1>3

\* A prefix of the log is in order and its terms are no later than the node's.
LEMMA SnapshotContent ==
    ASSUME DurableOK, NEW n \in Node
    PROVE  LET s == SubSeq(log[n], 1, base[n])
           IN  /\ s \in Seq(Entry)
               /\ Sorted(s) /\ NoFutureTerm(s, currentTerm[n])
<1> DEFINE s == SubSeq(log[n], 1, base[n])
<1>1. /\ log[n] \in Seq(Entry) /\ base[n] \in 0 .. Len(log[n])
      /\ Len(log[n]) \in Nat
      /\ Sorted(log[n]) /\ NoFutureTerm(log[n], currentTerm[n])
      BY NodeDurable
<1>2. /\ s \in Seq(Entry) /\ Len(s) = base[n]
      /\ \A i \in 1 .. base[n] : s[i] = log[n][i]
      BY Zenon, <1>1, PrefixProperties
<1>   HIDE DEF s
<1>3. Sorted(s)
      <2>1. SUFFICES ASSUME NEW i \in 2 .. Len(s)
                     PROVE  s[i - 1].term <= s[i].term
            BY Zenon DEF Sorted
      <2>2. /\ i \in 1 .. base[n] /\ i - 1 \in 1 .. base[n]
            /\ i \in 2 .. Len(log[n])
            BY <1>1, <1>2
      <2>3. s[i] = log[n][i] /\ s[i - 1] = log[n][i - 1]
            BY Zenon, <1>2, <2>2
      <2>4. log[n][i - 1].term <= log[n][i].term
            BY Zenon, <1>1, <2>2 DEF Sorted
      <2>   QED  BY Zenon, <2>3, <2>4
<1>4. NoFutureTerm(s, currentTerm[n])
      BY <1>1, <1>2 DEF NoFutureTerm
<1>   QED  BY Zenon, <1>2, <1>3, <1>4 DEF s

\* send_append builds a well-formed message whatever log it is given, as long
\* as the log reaches the snapshot boundary.
LEMMA SendAppendOK ==
    ASSUME DurableOK, NEW n \in Node, NEW p \in Node, p # n,
           NEW l \in Seq(Entry), base[n] <= Len(l), NEW commit \in Nat,
           NEW pr \in ProgressRecord, pr.next >= 1, NEW context \in Context
    PROVE  WellFormed(SendAppend(n, p, l, commit, pr, context))
<1>0. /\ currentTerm[n] \in Nat /\ base[n] \in Nat /\ Len(l) \in Nat
      /\ pr.next \in Nat /\ pr.offset \in Nat
      /\ Chunks \in Nat /\ MAX_APPEND_ENTRIES \in Nat
      BY Zenon, EntryTerms, ParametersAssumption DEF DurableOK, ProgressRecord
<1>1. CASE pr.next <= base[n]
      <2> DEFINE c == SnapshotChunk(n, p, pr)
                 s == SubSeq(log[n], 1, base[n])
      <2>1. s \in Seq(Entry) /\ Sorted(s) /\ NoFutureTerm(s, currentTerm[n])
            BY Zenon, SnapshotContent
      <2>   HIDE DEF s
      <2>2. /\ c.snapshot = s /\ c.term = currentTerm[n]
            /\ c.from = n /\ c.to = p
            BY Zenon DEF SnapshotChunk, s
      <2>3. c \in InstallSnapshot
            BY Zenon, <1>0, <2>1 DEF SnapshotChunk, InstallSnapshot, Smaller, s
      <2>   HIDE DEF c
      <2>4. c \in Message
            BY Zenon, <2>3 DEF Message
      <2>5. WellFormed(c)
            BY Zenon, <2>1, <2>2, <2>4 DEF WellFormed
      <2>   QED  BY Zenon, <1>1, <2>5 DEF SendAppend, c
<1>2. CASE ~ (pr.next <= base[n])
      <2> DEFINE next == Smaller(pr.next, LastIndex(l) + 1)
                 a == [type |-> "AppendEntries", from |-> n, to |-> p,
                       term |-> currentTerm[n],
                       prev |-> next - 1,
                       prevTerm |-> TermAt(l, base[n], next - 1),
                       entries |-> EntriesFrom(l, next, MAX_APPEND_ENTRIES),
                       commit |-> commit,
                       context |-> context]
      <2>1. /\ next \in Nat \ {0} /\ next - 1 \in Nat
            /\ base[n] <= next - 1 /\ next - 1 <= Len(l)
            BY <1>0, <1>2 DEF Smaller, LastIndex
      <2>   HIDE DEF next
      <2>2. TermAt(l, base[n], next - 1) \in Nat
            BY Zenon, <1>0, <2>1, TermAtType
      <2>3. EntriesFrom(l, next, MAX_APPEND_ENTRIES) \in Seq(Entry)
            BY Zenon, <1>0, <2>1, EntriesFromType
      <2>4. a \in AppendEntries
            BY Zenon, <1>0, <2>1, <2>2, <2>3 DEF AppendEntries
      <2>5. a.type = "AppendEntries" /\ a.from = n /\ a.to = p
            BY Zenon
      <2>6. SendAppend(n, p, l, commit, pr, context) = a
            BY Zenon, <1>2 DEF SendAppend, next
      <2>   HIDE DEF a
      <2>7. a \in Message
            BY Zenon, <2>4 DEF Message
      <2>   QED  BY Zenon, <2>5, <2>6, <2>7 DEF WellFormed
<1>   QED  BY Zenon, <1>1, <1>2

\* Everything broadcast_append sends is well-formed.
LEMMA BroadcastOK ==
    ASSUME DurableOK, NEW n \in Node,
           NEW l \in Seq(Entry), base[n] <= Len(l), NEW commit \in Nat,
           NEW prog \in [Node -> ProgressRecord],
           \A p \in Node : prog[p].next >= 1, NEW context \in Context
    PROVE  \A x \in BroadcastAppend(n, l, commit, prog, context) : WellFormed(x)
<1>1. \A p \in Peers(n) :
          WellFormed(SendAppend(n, p, l, commit, prog[p], context))
      <2>1. TAKE p \in Peers(n)
      <2>2. p \in Node /\ p # n /\ prog[p] \in ProgressRecord
            BY Zenon DEF Peers
      <2>   QED  BY Zenon, <2>2, SendAppendOK
<1>   QED  BY Zenon, <1>1 DEF BroadcastAppend

\* A leader's commit index never moves back nor past the end of its log.
LEMMA AdvanceOK ==
    ASSUME NaturalsWellOrdered,
           DurableOK, NEW n \in Node, NEW l \in Seq(Entry),
           commitIndex[n] <= Len(l), NEW prog \in [Node -> ProgressRecord]
    PROVE  LET commit == AdvanceLeaderCommit(n, l, prog)
           IN  /\ commit \in Nat
               /\ commitIndex[n] <= commit /\ commit <= Len(l)
<1> DEFINE matched == [v \in Node |-> prog[v].match]
           index == QuorumIndex(matched)
<1>1. matched \in [Node -> Nat]
      BY Zenon DEF ProgressRecord
<1>   HIDE DEF matched
<1>2. index \in Nat
      BY Zenon, <1>1, QuorumIndexType
<1>3. /\ commitIndex[n] \in Nat /\ base[n] \in Nat /\ currentTerm[n] \in Nat
      /\ Len(l) \in Nat
      BY Zenon, EntryTerms DEF DurableOK
<1>4. TermAt(l, base[n], index) = currentTerm[n] => index <= Len(l)
      BY <1>2, <1>3, TermAtType DEF NoTerm
<1>   HIDE DEF index
<1>   QED  BY <1>2, <1>3, <1>4 DEF AdvanceLeaderCommit, index, matched

-----------------------------------------------------------------------------
(***************************************************************************)
(* Logs.                                                                   *)
(***************************************************************************)

\* Two logs in order make one if the terms do not fall where they meet.
LEMMA ConcatOK ==
    ASSUME NEW p \in Seq(Entry), NEW q \in Seq(Entry), Sorted(p), Sorted(q),
           Len(p) >= 1 /\ Len(q) >= 1 => p[Len(p)].term <= q[1].term,
           NEW t \in Nat, NoFutureTerm(p, t), NoFutureTerm(q, t)
    PROVE  /\ p \o q \in Seq(Entry) /\ Len(p \o q) = Len(p) + Len(q)
           /\ Sorted(p \o q) /\ NoFutureTerm(p \o q, t)
<1> DEFINE c == p \o q
<1>1. Len(p) \in Nat /\ Len(q) \in Nat
      BY Zenon, EntryTerms
<1>2. /\ c \in Seq(Entry) /\ Len(c) = Len(p) + Len(q)
      /\ \A i \in 1 .. Len(p) + Len(q) :
             c[i] = IF i <= Len(p) THEN p[i] ELSE q[i - Len(p)]
      BY Zenon, LogConcat
<1>   HIDE DEF c
<1>3. Sorted(c)
      <2>1. SUFFICES ASSUME NEW i \in 2 .. Len(c)
                     PROVE  c[i - 1].term <= c[i].term
            BY Zenon DEF Sorted
      <2>2. i \in 1 .. Len(p) + Len(q) /\ i - 1 \in 1 .. Len(p) + Len(q)
            BY <1>1, <1>2
      <2>3. CASE i <= Len(p)
            <3>1. i \in 2 .. Len(p) /\ i - 1 <= Len(p)
                  BY <1>1, <1>2, <2>3
            <3>2. c[i] = p[i] /\ c[i - 1] = p[i - 1]
                  BY Zenon, <1>2, <2>2, <2>3, <3>1
            <3>   QED  BY Zenon, <3>1, <3>2 DEF Sorted
      <2>4. CASE i = Len(p) + 1
            <3>1. c[i] = q[i - Len(p)] /\ c[i - 1] = p[i - 1]
                  BY <1>1, <1>2, <2>2, <2>4
            <3>2. i - Len(p) = 1 /\ i - 1 = Len(p) /\ Len(p) >= 1 /\ Len(q) >= 1
                  BY <1>1, <1>2, <2>4
            <3>   QED  BY Zenon, <3>1, <3>2
      <2>5. CASE i > Len(p) + 1
            <3>1. /\ i - Len(p) \in 2 .. Len(q)
                  /\ (i - 1) - Len(p) = (i - Len(p)) - 1
                  /\ ~ (i <= Len(p)) /\ ~ (i - 1 <= Len(p))
                  BY <1>1, <1>2, <2>5
            <3>2. c[i] = q[i - Len(p)]
                  BY Zenon, <1>2, <2>2, <3>1
            <3>3. c[i - 1] = q[(i - Len(p)) - 1]
                  BY Zenon, <1>2, <2>2, <3>1
            <3>   QED  BY Zenon, <3>1, <3>2, <3>3 DEF Sorted
      <2>   QED  BY <1>1, <2>2, <2>3, <2>4, <2>5
<1>4. NoFutureTerm(c, t)
      <2>1. SUFFICES ASSUME NEW i \in 1 .. Len(c)
                     PROVE  c[i].term <= t
            BY Zenon DEF NoFutureTerm
      <2>2. CASE i <= Len(p)
            <3>1. i \in 1 .. Len(p) /\ c[i] = p[i]
                  BY <1>1, <1>2, <2>2
            <3>   QED  BY Zenon, <3>1 DEF NoFutureTerm
      <2>3. CASE i > Len(p)
            <3>1. i - Len(p) \in 1 .. Len(q) /\ c[i] = q[i - Len(p)]
                  BY <1>1, <1>2, <2>3
            <3>   QED  BY Zenon, <3>1 DEF NoFutureTerm
      <2>   QED  BY <1>1, <1>2, <2>2, <2>3
<1>   QED  BY Zenon, <1>2, <1>3, <1>4 DEF c

\* A part of a log in order is in order.
LEMMA SubSeqOK ==
    ASSUME NEW l \in Seq(Entry), NEW i \in Nat \ {0}, NEW j \in 0 .. Len(l),
           i <= j + 1, Sorted(l), NEW t \in Nat, NoFutureTerm(l, t)
    PROVE  LET s == SubSeq(l, i, j)
           IN  /\ s \in Seq(Entry) /\ Len(s) = j + 1 - i
               /\ \A x \in 1 .. j + 1 - i : s[x] = l[i + x - 1]
               /\ Sorted(s) /\ NoFutureTerm(s, t)
<1> DEFINE s == SubSeq(l, i, j)
<1>1. Len(l) \in Nat /\ \A x \in i .. j : l[x] \in Entry
      BY EntryTerms, LogElements
<1>2. /\ s \in Seq(Entry) /\ Len(s) = j + 1 - i
      /\ \A x \in 1 .. j + 1 - i : s[x] = l[i + x - 1]
      <2>1. j \in Nat /\ j - i + 1 = j + 1 - i
            BY <1>1
      <2>2. /\ s \in Seq(Entry)
            /\ Len(s) = IF i <= j THEN j - i + 1 ELSE 0
            /\ \A x \in 1 .. j - i + 1 : s[x] = l[i + x - 1]
            BY <1>1, <2>1, LogPart
      <2>   HIDE DEF s
      <2>   QED  BY <1>1, <2>1, <2>2
<1>   HIDE DEF s
<1>3. Sorted(s)
      <2>1. SUFFICES ASSUME NEW x \in 2 .. Len(s)
                     PROVE  s[x - 1].term <= s[x].term
            BY Zenon DEF Sorted
      <2>2. /\ x \in 1 .. j + 1 - i /\ x - 1 \in 1 .. j + 1 - i
            /\ i + x - 1 \in 2 .. Len(l) /\ i + (x - 1) - 1 = (i + x - 1) - 1
            BY <1>1, <1>2
      <2>3. s[x] = l[i + x - 1] /\ s[x - 1] = l[(i + x - 1) - 1]
            BY Zenon, <1>2, <2>2
      <2>   QED  BY Zenon, <2>2, <2>3 DEF Sorted
<1>4. NoFutureTerm(s, t)
      <2>1. SUFFICES ASSUME NEW x \in 1 .. Len(s)
                     PROVE  s[x].term <= t
            BY Zenon DEF NoFutureTerm
      <2>2. x \in 1 .. j + 1 - i /\ i + x - 1 \in 1 .. Len(l)
            BY <1>1, <1>2
      <2>3. s[x] = l[i + x - 1]
            BY Zenon, <1>2, <2>2
      <2>   QED  BY Zenon, <2>2, <2>3 DEF NoFutureTerm
<1>   QED  BY Zenon, <1>2, <1>3, <1>4 DEF s

\* The first changed position, if any, and what lies before it.
LEMMA FirstChange ==
    ASSUME NaturalsWellOrdered,
           NEW l \in Seq(Entry), NEW b \in Nat, NEW m \in AppendEntries,
           AcceptsAppend(l, b, m), ChangedPositions(l, b, m) # {}
    PROVE  LET k == Min(ChangedPositions(l, b, m))
           IN  /\ k \in 1 .. Len(m.entries)
               /\ m.prev + k - 1 \in 0 .. Len(l)
               /\ m.prev + k - 1 >= 1 =>
                      l[m.prev + k - 1].term <= m.entries[k].term
<1> DEFINE C == ChangedPositions(l, b, m)
           k == Min(C)
<1>1. /\ m.prev \in Nat /\ m.prevTerm \in Nat /\ m.entries \in Seq(Entry)
      /\ m.term \in Nat
      BY Zenon DEF AppendEntries
<1>2. /\ Len(m.entries) \in Nat /\ Len(l) \in Nat
      /\ \A i \in 1 .. Len(m.entries) : m.entries[i].term \in Nat
      /\ \A i \in 1 .. Len(l) : l[i].term \in Nat
      BY Zenon, <1>1, EntryTerms
<1>3. /\ b <= m.prev /\ m.prev <= Len(l)
      /\ m.prev >= 1 => l[m.prev].term = m.prevTerm
      <2>1. b <= m.prev /\ TermAt(l, b, m.prev) = m.prevTerm
            BY Zenon DEF AcceptsAppend
      <2>2. TermAt(l, b, m.prev) # NoTerm
            BY <1>1, <2>1 DEF NoTerm
      <2>3. m.prev <= Len(l)
            BY Zenon, <1>1, <2>2, TermAtType
      <2>4. m.prev >= 1 => m.prev \in 1 .. Len(l)
            BY <1>1, <1>2, <2>3
      <2>   QED  BY Zenon, <2>1, <2>3, <2>4, TermAtEntry
<1>4. \A i \in 1 .. Len(m.entries) : i \notin C =>
          /\ m.prev + i <= Len(l)
          /\ l[m.prev + i].term = m.entries[i].term
      <2>1. TAKE i \in 1 .. Len(m.entries)
      <2>2. HAVE i \notin C
      <2>3. TermAt(l, b, m.prev + i) = m.entries[i].term
            BY Zenon, <2>2 DEF ChangedPositions
      <2>4. m.prev + i \in Nat /\ m.prev + i >= 1
            BY <1>1, <1>2
      <2>5. TermAt(l, b, m.prev + i) # NoTerm
            BY <1>2, <2>3 DEF NoTerm
      <2>6. b <= m.prev + i /\ m.prev + i <= Len(l)
            BY Zenon, <2>4, <2>5, TermAtType
      <2>7. m.prev + i \in 1 .. Len(l)
            BY <1>2, <2>4, <2>6
      <2>8. TermAt(l, b, m.prev + i) = l[m.prev + i].term
            BY Zenon, <2>6, <2>7, TermAtEntry
      <2>   QED  BY Zenon, <2>3, <2>6, <2>8
<1>5. C \subseteq 1 .. Len(m.entries)
      BY Zenon DEF ChangedPositions
<1>6. k \in C /\ \A i \in C : k <= i
      <2>1. C \subseteq Nat
            BY <1>2, <1>5
      <2>   QED  BY Zenon, <2>1, MinOfNaturals
<1>   HIDE DEF C, k
<1>7. k \in 1 .. Len(m.entries)
      BY Zenon, <1>5, <1>6
<1>8. CASE k = 1
      <2>1. m.entries[1].term >= m.prevTerm
            BY Zenon, <1>7, <1>8 DEF AcceptsAppend, ValidEntrySequence
      <2>   QED  BY <1>1, <1>2, <1>3, <1>7, <1>8, <2>1 DEF k, C
<1>9. CASE k # 1
      <2>1. k - 1 \in 1 .. Len(m.entries) /\ k - 1 \notin C
            BY <1>2, <1>6, <1>7, <1>9
      <2>2. /\ m.prev + (k - 1) <= Len(l)
            /\ l[m.prev + (k - 1)].term = m.entries[k - 1].term
            BY Zenon, <1>4, <2>1
      <2>3. m.entries[k].term >= m.entries[k - 1].term
            BY Zenon, <1>7, <1>9 DEF AcceptsAppend, ValidEntrySequence
      <2>4. m.prev + (k - 1) = m.prev + k - 1
            BY Zenon, <1>1, <1>2, <1>7
      <2>   QED  BY <1>1, <1>2, <1>7, <2>1, <2>2, <2>3, <2>4 DEF k, C
<1>   QED  BY Zenon, <1>8, <1>9

\* The entries an accepted message carries are in order and of its term or
\* earlier: the test of valid_entry_sequence.
LEMMA AcceptedEntries ==
    ASSUME NEW l, NEW b, NEW m \in AppendEntries, AcceptsAppend(l, b, m)
    PROVE  /\ m.prev \in Nat /\ m.entries \in Seq(Entry) /\ m.term \in Nat
           /\ Sorted(m.entries) /\ NoFutureTerm(m.entries, m.term)
<1>1. m.prev \in Nat /\ m.entries \in Seq(Entry) /\ m.term \in Nat
      BY Zenon DEF AppendEntries
<1>2. ValidEntrySequence(m)
      BY Zenon DEF AcceptsAppend
<1>3. Sorted(m.entries)
      <2>1. SUFFICES ASSUME NEW i \in 2 .. Len(m.entries)
                     PROVE  m.entries[i - 1].term <= m.entries[i].term
            BY Zenon DEF Sorted
      <2>2. /\ i \in 1 .. Len(m.entries) /\ i # 1
            /\ m.entries[i].term \in Nat /\ i - 1 \in 1 .. Len(m.entries)
            BY <1>1, EntryTerms
      <2>3. m.entries[i].term >= m.entries[i - 1].term
            BY Zenon, <1>2, <2>2 DEF ValidEntrySequence
      <2>4. m.entries[i - 1].term \in Nat
            BY Zenon, <1>1, <2>2, EntryTerms
      <2>   QED  BY Zenon, <2>2, <2>3, <2>4
<1>4. NoFutureTerm(m.entries, m.term)
      BY Zenon, <1>2 DEF ValidEntrySequence, NoFutureTerm
<1>   QED  BY Zenon, <1>1, <1>3, <1>4

\* A log without future terms has none in any later term.
LEMMA LaterTerm ==
    ASSUME NEW l \in Seq(Entry), NEW t \in Nat, NEW u \in Nat, t <= u,
           NoFutureTerm(l, t)
    PROVE  NoFutureTerm(l, u)
BY EntryTerms DEF NoFutureTerm

\* The lengths of a prefix ending before a + f and of a suffix from f on.
LEMMA LengthAround ==
    ASSUME NEW a \in Nat, NEW f \in Nat, NEW e \in Nat
    PROVE  (a + f - 1) + (e + 1 - f) = a + e
OBVIOUS

\* on_append_entries leaves a log that recover accepts and that still holds
\* every committed position.
LEMMA MergedLogOK ==
    ASSUME NaturalsWellOrdered,
           NEW l \in Seq(Entry), NEW b \in Nat, NEW m \in AppendEntries,
           AcceptsAppend(l, b, m), Sorted(l),
           NEW t \in Nat, NoFutureTerm(l, t), m.term <= t,
           NEW c \in Nat, c <= Len(l),
           LET changed == ChangedPositions(l, b, m)
           IN  ~ (changed # {} /\ m.prev + Min(changed) <= c)
    PROVE  LET k == MergedLog(l, b, m)
           IN  /\ k \in Seq(Entry) /\ c <= Len(k)
               /\ Sorted(k) /\ NoFutureTerm(k, t)
<1> DEFINE changed == ChangedPositions(l, b, m)
           f == Min(changed)
           p == SubSeq(l, 1, m.prev + f - 1)
           q == SubSeq(m.entries, f, Len(m.entries))
<1>1. CASE changed = {}
      BY Zenon, <1>1 DEF MergedLog
<1>2. CASE changed # {}
      <2>1. /\ f \in 1 .. Len(m.entries)
            /\ m.prev + f - 1 \in 0 .. Len(l)
            /\ m.prev + f - 1 >= 1 =>
                   l[m.prev + f - 1].term <= m.entries[f].term
            BY Zenon, <1>2, FirstChange
      <2>2. ~ (m.prev + f <= c)
            BY Zenon, <1>2
      <2>4. /\ m.prev \in Nat /\ m.entries \in Seq(Entry) /\ m.term \in Nat
            /\ Sorted(m.entries) /\ NoFutureTerm(m.entries, t)
            /\ Len(m.entries) \in Nat /\ Len(l) \in Nat
            BY Zenon, AcceptedEntries, LaterTerm, EntryTerms
      <2>3. MergedLog(l, b, m) = p \o q
            <3>1. MergedLog(l, b, m) = TruncateAndAppend(l, m.prev + f, q)
                  BY Zenon, <1>2 DEF MergedLog
            <3>   HIDE DEF f, q
            <3>2. (m.prev + f) - 1 = m.prev + f - 1
                  BY <2>1, <2>4
            <3>   QED  BY Zenon, <3>1, <3>2 DEF TruncateAndAppend
      <2>   HIDE DEF changed, f
      <2>5. /\ p \in Seq(Entry) /\ Len(p) = m.prev + f - 1
            /\ \A x \in 1 .. m.prev + f - 1 : p[x] = l[x]
            /\ Sorted(p) /\ NoFutureTerm(p, t)
            <3>1. /\ p \in Seq(Entry) /\ Len(p) = (m.prev + f - 1) + 1 - 1
                  /\ \A x \in 1 .. (m.prev + f - 1) + 1 - 1 :
                         p[x] = l[1 + x - 1]
                  /\ Sorted(p) /\ NoFutureTerm(p, t)
                  BY <2>1, <2>4, SubSeqOK
            <3>2. (m.prev + f - 1) + 1 - 1 = m.prev + f - 1
                  BY <2>1, <2>4
            <3>3. \A x \in 1 .. m.prev + f - 1 : 1 + x - 1 = x
                  BY <2>1, <2>4
            <3>   QED  BY Zenon, <3>1, <3>2, <3>3
      <2>6. /\ q \in Seq(Entry) /\ Len(q) = Len(m.entries) + 1 - f
            /\ \A x \in 1 .. Len(m.entries) + 1 - f :
                   q[x] = m.entries[f + x - 1]
            /\ Sorted(q) /\ NoFutureTerm(q, t)
            <3>1. /\ f \in Nat \ {0} /\ f <= Len(m.entries) + 1
                  /\ Len(m.entries) \in 0 .. Len(m.entries)
                  BY <2>1, <2>4
            <3>   QED  BY Zenon, <2>4, <3>1, SubSeqOK
      <2>   HIDE DEF p, q
      <2>7. Len(p) >= 1 /\ Len(q) >= 1 => p[Len(p)].term <= q[1].term
            <3>1. q[1] = m.entries[f]
                  <4>1. 1 \in 1 .. Len(m.entries) + 1 - f /\ f + 1 - 1 = f
                        BY <2>1, <2>4
                  <4>   QED  BY Zenon, <2>6, <4>1
            <3>2. ASSUME Len(p) >= 1
                  PROVE  p[Len(p)] = l[m.prev + f - 1]
                  <4>1. m.prev + f - 1 \in 1 .. m.prev + f - 1
                        BY <2>1, <2>4, <2>5, <3>2
                  <4>   QED  BY Zenon, <2>5, <4>1
            <3>   QED  BY Zenon, <2>1, <2>5, <3>1, <3>2
      <2>8. /\ p \o q \in Seq(Entry) /\ Len(p \o q) = Len(p) + Len(q)
            /\ Sorted(p \o q) /\ NoFutureTerm(p \o q, t)
            BY Zenon, <2>5, <2>6, <2>7, ConcatOK
      <2>9. c <= Len(p) + Len(q)
            <3>1. /\ m.prev \in Nat /\ Len(m.entries) \in Nat
                  /\ f \in 1 .. Len(m.entries)
                  BY Zenon, <2>1, <2>4
            <3>2. ASSUME NEW prev \in Nat, NEW len \in Nat, NEW k \in 1 .. len,
                         ~ (prev + k <= c)
                  PROVE  c <= (prev + k - 1) + (len + 1 - k)
                  BY <3>2
            <3>3. c <= (m.prev + f - 1) + (Len(m.entries) + 1 - f)
                  BY Zenon, <2>2, <3>1, <3>2
            <3>   QED  BY Zenon, <2>5, <2>6, <3>3
      <2>   QED  BY Zenon, <2>3, <2>8, <2>9
<1>   QED  BY Zenon, <1>1, <1>2

-----------------------------------------------------------------------------
(***************************************************************************)
(* How the handlers change one group of variables.                         *)
(***************************************************************************)

\* VolatileOK depends on the volatile variables only.
LEMMA VolatileSame ==
    ASSUME VolatileOK, UNCHANGED <<roleVars, leaderVars>>
    PROVE  VolatileOK'
BY Zenon DEF VolatileOK, roleVars, leaderVars

\* The progress of a node that does not lead has its type.
LEMMA NoProgressOK == NoProgress \in ProgressRecord
BY Zenon DEF NoProgress, ProgressRecord

\* Becoming a follower leaves the volatile state well-formed.
LEMMA StepDownOK ==
    ASSUME VolatileOK, NEW n \in Node, NEW leader \in Node \cup {NoNode},
           StepDown(n, leader)
    PROVE  VolatileOK'
<1>1. /\ role' \in [Node -> Role] /\ leaderId' \in [Node -> Node \cup {NoNode}]
      /\ campaignTerm' \in [Node -> Nat \cup {NoTerm}]
      /\ votes' \in [Node -> SUBSET Node]
      /\ recentActive' \in [Node -> SUBSET Node]
      BY Zenon DEF VolatileOK, StepDown, Role
<1>2. progress' \in [Node -> [Node -> ProgressRecord]]
      <2>1. [p \in Node |-> NoProgress] \in [Node -> ProgressRecord]
            BY Zenon, NoProgressOK
      <2>   QED  BY Zenon, <2>1 DEF VolatileOK, StepDown
<1>3. pendingReads' \in [Node -> SUBSET PendingRead]
      BY Zenon DEF VolatileOK, StepDown
<1>4. ASSUME NEW k \in Node, role'[k] = "Leader", NEW p \in Node
      PROVE  progress'[k][p].next >= 1
      <2>1. k # n
            BY Zenon, <1>4 DEF StepDown, VolatileOK
      <2>2. role'[k] = role[k] /\ progress'[k] = progress[k]
            BY Zenon, <2>1 DEF StepDown, VolatileOK
      <2>   QED  BY Zenon, <1>4, <2>2 DEF VolatileOK
<1>   QED  BY Zenon, <1>1, <1>2, <1>3, <1>4 DEF VolatileOK

\* A leader that stays one updates the progress of its peers.
LEMMA LeaderStepOK ==
    ASSUME VolatileOK, NEW n \in Node, UNCHANGED roleVars,
           NEW prog \in [Node -> ProgressRecord],
           \A p \in Node : prog[p].next >= 1,
           progress' = [progress EXCEPT ![n] = prog],
           recentActive' \in [Node -> SUBSET Node],
           pendingReads' \in [Node -> SUBSET PendingRead]
    PROVE  VolatileOK'
<1>1. progress' \in [Node -> [Node -> ProgressRecord]]
      BY Zenon DEF VolatileOK
<1>2. ASSUME NEW k \in Node, role'[k] = "Leader", NEW p \in Node
      PROVE  progress'[k][p].next >= 1
      <2>1. CASE k = n
            BY Zenon, <2>1 DEF VolatileOK
      <2>2. CASE k # n
            BY Zenon, <1>2, <2>2 DEF VolatileOK, roleVars
      <2>   QED  BY Zenon, <2>1, <2>2
<1>   QED  BY Zenon, <1>1, <1>2 DEF VolatileOK, roleVars

\* A term may grow at any time: the log stays within it.
LEMMA TermGrowsOK ==
    ASSUME DurableOK, currentTerm' \in [Node -> Nat],
           votedFor' \in [Node -> Node \cup {NoNode}],
           \A k \in Node : currentTerm[k] <= currentTerm'[k],
           UNCHANGED <<commitIndex, log, base>>
    PROVE  DurableOK'
<1>1. ASSUME NEW k \in Node
      PROVE  NoFutureTerm(log'[k], currentTerm'[k])
      <2>1. /\ log[k] \in Seq(Entry) /\ NoFutureTerm(log[k], currentTerm[k])
            /\ currentTerm[k] \in Nat /\ currentTerm'[k] \in Nat
            BY Zenon, NodeDurable
      <2>   QED  BY Zenon, <2>1, LaterTerm
<1>   QED  BY Zenon, <1>1 DEF DurableOK, DurableStateRecoverable

\* A later term, and no vote in it, keeps the durable state recoverable.
LEMMA AdoptTermOK ==
    ASSUME DurableOK, NEW n \in Node, NEW term \in Nat, AdoptTerm(n, term)
    PROVE  /\ currentTerm' \in [Node -> Nat]
           /\ votedFor' \in [Node -> Node \cup {NoNode}]
           /\ \A k \in Node : currentTerm[k] <= currentTerm'[k]
           /\ \A k \in Node : k # n => currentTerm'[k] = currentTerm[k]
           /\ currentTerm'[n] = Larger(currentTerm[n], term)
           /\ term <= currentTerm'[n]
<1>1. \A k \in Node : currentTerm[k] \in Nat
      BY Zenon DEF DurableOK
<1>2. Larger(currentTerm[n], term) \in Nat
      BY Zenon, <1>1 DEF Larger
<1>3. /\ currentTerm' \in [Node -> Nat]
      /\ \A k \in Node : k # n => currentTerm'[k] = currentTerm[k]
      /\ currentTerm'[n] = Larger(currentTerm[n], term)
      BY Zenon, <1>2 DEF DurableOK, AdoptTerm
<1>4. votedFor' \in [Node -> Node \cup {NoNode}]
      BY Zenon DEF DurableOK, AdoptTerm
<1>5. currentTerm[n] <= currentTerm'[n] /\ term <= currentTerm'[n]
      BY <1>1, <1>3 DEF Larger
<1>   QED  BY <1>1, <1>3, <1>4, <1>5

\* One node changes its durable state.
LEMMA DurableStepOK ==
    ASSUME DurableOK, NEW n \in Node,
           currentTerm' \in [Node -> Nat],
           votedFor' \in [Node -> Node \cup {NoNode}],
           commitIndex' \in [Node -> Nat],
           log' \in [Node -> Seq(Entry)],
           base' \in [Node -> Nat],
           \A k \in Node : k # n =>
               /\ currentTerm'[k] = currentTerm[k] /\ log'[k] = log[k]
               /\ commitIndex'[k] = commitIndex[k] /\ base'[k] = base[k],
           base'[n] <= commitIndex'[n], commitIndex'[n] <= Len(log'[n]),
           Sorted(log'[n]), NoFutureTerm(log'[n], currentTerm'[n])
    PROVE  DurableOK'
<1>1. ASSUME NEW k \in Node
      PROVE  /\ base'[k] <= commitIndex'[k]
             /\ commitIndex'[k] <= Len(log'[k])
             /\ Sorted(log'[k]) /\ NoFutureTerm(log'[k], currentTerm'[k])
      <2>1. CASE k = n
            BY Zenon, <2>1
      <2>2. CASE k # n
            BY Zenon, <2>2, NodeDurable
      <2>   QED  BY Zenon, <2>1, <2>2
<1>   QED  BY Zenon, <1>1 DEF DurableOK, DurableStateRecoverable, LastIndex

\* The parts of the invariant that only read unchanged variables hold on.
LEMMA Unchanged ==
    ASSUME TypeInv
    PROVE  /\ UNCHANGED durableVars => DurableOK'
           /\ UNCHANGED processVars => ProcessOK'
           /\ UNCHANGED historyVars => HistoryOK'
           /\ UNCHANGED <<roleVars, leaderVars>> => VolatileOK'
           /\ UNCHANGED msgs => MessagesOK'
<1>1. UNCHANGED durableVars => DurableOK'
      BY Zenon DEF TypeInv, DurableOK, DurableStateRecoverable, durableVars
<1>2. UNCHANGED processVars => ProcessOK'
      BY Zenon DEF TypeInv, ProcessOK, processVars
<1>3. UNCHANGED historyVars => HistoryOK'
      BY Zenon DEF TypeInv, HistoryOK, historyVars
<1>4. UNCHANGED <<roleVars, leaderVars>> => VolatileOK'
      BY Zenon, VolatileSame DEF TypeInv
<1>5. UNCHANGED msgs => MessagesOK'
      BY Zenon DEF TypeInv, MessagesOK
<1>   QED  BY Zenon, <1>1, <1>2, <1>3, <1>4, <1>5

\* What the volatile state of one node satisfies.
LEMMA NodeVolatile ==
    ASSUME VolatileOK, NEW n \in Node
    PROVE  /\ role[n] \in Role /\ leaderId[n] \in Node \cup {NoNode}
           /\ votes[n] \subseteq Node /\ recentActive[n] \subseteq Node
           /\ pendingReads[n] \subseteq PendingRead
           /\ progress[n] \in [Node -> ProgressRecord]
           /\ role[n] = "Leader" => \A p \in Node : progress[n][p].next >= 1
BY Zenon DEF VolatileOK

\* What a leader broadcasts from its own log.
LEMMA LeaderBroadcast ==
    ASSUME TypeInv, NEW n \in Node, role[n] = "Leader", NEW context \in Context
    PROVE  \A x \in BroadcastAppend(n, log[n], commitIndex[n], progress[n],
                                    context) : WellFormed(x)
<1>1. /\ DurableOK /\ log[n] \in Seq(Entry) /\ base[n] <= Len(log[n])
      /\ commitIndex[n] \in Nat
      BY Zenon, NodeDurable DEF TypeInv
<1>2. /\ progress[n] \in [Node -> ProgressRecord]
      /\ \A p \in Node : progress[n][p].next >= 1
      BY Zenon, NodeVolatile DEF TypeInv
<1>   QED  BY Zenon, <1>1, <1>2, BroadcastOK

\* A restarted node is a follower with nothing but its durable state.
LEMMA RecoverOK ==
    ASSUME TypeInv, NEW n \in Node, Recover(n)
    PROVE  VolatileOK' /\ ProcessOK' /\ HistoryOK'
<1>1. VolatileOK'
      BY Zenon, StepDownOK DEF Recover, TypeInv
<1>2. NoTransfer \in [snapshot : Seq(Entry), next : Nat]
      BY DEF NoTransfer
<1>3. ProcessOK'
      BY Zenon, <1>2 DEF Recover, TypeInv, ProcessOK
<1>   QED  BY Zenon, <1>1, <1>3, Unchanged DEF Recover

\* A node changes its log and its commit index within its term.
LEMMA LogStepOK ==
    ASSUME DurableOK, NEW n \in Node, NEW l \in Seq(Entry), NEW commit \in Nat,
           base[n] <= commit, commit <= Len(l),
           Sorted(l), NoFutureTerm(l, currentTerm[n]),
           log' = [log EXCEPT ![n] = l],
           commitIndex' = [commitIndex EXCEPT ![n] = commit],
           UNCHANGED <<currentTerm, votedFor, base>>
    PROVE  DurableOK'
<1>1. /\ log' \in [Node -> Seq(Entry)] /\ log'[n] = l
      /\ \A k \in Node : k # n => log'[k] = log[k]
      BY Zenon DEF DurableOK
<1>2. /\ commitIndex' \in [Node -> Nat] /\ commitIndex'[n] = commit
      /\ \A k \in Node : k # n => commitIndex'[k] = commitIndex[k]
      BY Zenon DEF DurableOK
<1>3. /\ currentTerm' \in [Node -> Nat]
      /\ votedFor' \in [Node -> Node \cup {NoNode}]
      /\ base' \in [Node -> Nat]
      BY Zenon DEF DurableOK
<1>   QED  BY Zenon, <1>1, <1>2, <1>3, DurableStepOK

\* The facts every handler of a message starts from.
LEMMA Delivered ==
    ASSUME TypeInv, NEW m \in msgs
    PROVE  /\ m \in Message /\ m.from # m.to
           /\ m.from \in Node /\ m.to \in Node /\ m.term \in Nat
           /\ DurableOK /\ VolatileOK /\ ProcessOK /\ HistoryOK /\ MessagesOK
<1>1. m \in Message /\ m.from # m.to
      BY Zenon DEF TypeInv, MessagesOK, WellFormed
<1>   QED  BY Zenon, <1>1, MessageEnds DEF TypeInv

\* The end of whatever a node was doing, at the word of a later term.
LEMMA StepDownOnNewerTermOK ==
    ASSUME TypeInv, NEW m \in msgs, StepDownOnNewerTerm(m)
    PROVE  TypeInv'
<1>1. DurableOK'
      BY Zenon, Delivered, AdoptTermOK, TermGrowsOK
         DEF StepDownOnNewerTerm, BecomeFollower
<1>2. VolatileOK'
      BY Zenon, Delivered, StepDownOK DEF StepDownOnNewerTerm, BecomeFollower
<1>3. MessagesOK'
      BY Delivered, ExchangeOK DEF StepDownOnNewerTerm
<1>4. ProcessOK' /\ HistoryOK'
      BY Zenon, Unchanged DEF StepDownOnNewerTerm
<1>   QED  BY Zenon, <1>1, <1>2, <1>3, <1>4 DEF TypeInv

-----------------------------------------------------------------------------
(***************************************************************************)
(* Pieces of logs: when two fragments can come from the same history       *)
(* (Coherent), and that everything node.rs does to a log keeps them so.    *)
(***************************************************************************)

\* What a fragment is made of.
LEMMA FragmentFacts ==
    ASSUME NEW f \in Fragment
    PROVE  /\ f.prev \in Nat /\ f.prevTerm \in Nat /\ LastOf(f) \in Nat
           /\ f.prev <= LastOf(f)
           /\ In(f) = f.prev + 1 .. LastOf(f) /\ Known(f) = f.prev .. LastOf(f)
           /\ In(f) \subseteq Known(f)
           /\ \A i \in In(f) : /\ i \in Nat /\ i >= 1 /\ EntryIn(f, i) \in Entry
                               /\ TermIn(f, i) = EntryIn(f, i).term
           /\ \A i \in Known(f) : i \in Nat /\ TermIn(f, i) \in Nat
           /\ TermIn(f, f.prev) = f.prevTerm
<1>1. f.prev \in Nat /\ f.prevTerm \in Nat /\ f.entries \in Seq(Entry)
      BY Zenon DEF Fragment
<1>2. Len(f.entries) \in Nat
      BY Zenon, <1>1, EntryTerms
<1>3. LastOf(f) \in Nat /\ f.prev <= LastOf(f)
      BY <1>1, <1>2 DEF LastOf
<1>4. In(f) \subseteq Known(f) /\ \A i \in Known(f) : i \in Nat
      BY <1>1, <1>3 DEF In, Known
<1>5. ASSUME NEW i \in In(f)
      PROVE  /\ i \in Nat /\ i >= 1 /\ i # f.prev /\ EntryIn(f, i) \in Entry
             /\ EntryIn(f, i).term \in Nat
      <2>1. /\ i \in Nat /\ i >= 1 /\ i # f.prev
            /\ i - f.prev \in 1 .. Len(f.entries)
            BY <1>1, <1>2 DEF In, LastOf
      <2>2. f.entries[i - f.prev] \in Entry /\ f.entries[i - f.prev].term \in Nat
            BY Zenon, <1>1, <2>1, LogElements, EntryTerms
      <2>   QED  BY Zenon, <2>1, <2>2 DEF EntryIn
<1>6. ASSUME NEW i \in Known(f)
      PROVE  TermIn(f, i) \in Nat
      <2>1. i = f.prev \/ i \in In(f)
            BY <1>1, <1>3 DEF In, Known
      <2>   QED  BY Zenon, <1>1, <1>5, <2>1 DEF TermIn
<1>   QED  BY Zenon, <1>1, <1>3, <1>4, <1>5, <1>6 DEF TermIn, In, Known

\* A log as a fragment: index 0 has term 0.
LEMMA WholeFacts ==
    ASSUME NEW l \in Seq(Entry)
    PROVE  LET f == Whole(l)
           IN  /\ f \in Fragment
               /\ In(f) = 1 .. Len(l) /\ Known(f) = 0 .. Len(l)
               /\ f.prev = 0 /\ LastOf(f) = Len(l) /\ Len(l) \in Nat
               /\ \A i \in 1 .. Len(l) : /\ EntryIn(f, i) = l[i]
                                         /\ TermIn(f, i) = l[i].term
               /\ TermIn(f, 0) = 0
<1> DEFINE f == Whole(l)
<1>1. f.prev = 0 /\ f.prevTerm = 0 /\ f.entries = l /\ Len(l) \in Nat
      BY Zenon, EntryTerms DEF Whole
<1>2. f \in Fragment
      BY Zenon DEF Whole, Fragment
<1>   HIDE DEF f
<1>3. LastOf(f) = Len(l)
      BY <1>1 DEF LastOf
<1>4. In(f) = 1 .. Len(l) /\ Known(f) = 0 .. Len(l)
      BY <1>1, <1>3 DEF In, Known
<1>5. \A i \in 1 .. Len(l) : i # 0 /\ i - 0 = i
      BY <1>1
<1>6. \A i \in 1 .. Len(l) : EntryIn(f, i) = l[i] /\ TermIn(f, i) = l[i].term
      BY Zenon, <1>1, <1>5 DEF EntryIn, TermIn
<1>7. TermIn(f, 0) = 0
      BY Zenon, <1>1 DEF TermIn
<1>   QED  BY Zenon, <1>1, <1>2, <1>3, <1>4, <1>6, <1>7 DEF f

\* Every fragment is a piece of itself, and a piece of a piece is a piece.
LEMMA PartReflexive ==
    ASSUME NEW f
    PROVE  Part(f, f)
BY Zenon DEF Part

LEMMA PartTransitive ==
    ASSUME NEW f, NEW g, NEW h, Part(f, g), Part(g, h)
    PROVE  Part(f, h)
BY Zenon DEF Part

\* A piece is coherent with whatever the fragment it is taken from is.
LEMMA PartCoherent ==
    ASSUME NEW f \in Fragment, NEW g \in Fragment, NEW h \in Fragment,
           Part(f, g)
    PROVE  /\ Coherent(g, h) => Coherent(f, h)
           /\ Coherent(h, g) => Coherent(h, f)
<1>1. /\ In(f) \subseteq Known(f) /\ In(f) \subseteq In(g)
      /\ Known(f) \subseteq Known(g)
      /\ \A i \in In(f) : EntryIn(f, i) = EntryIn(g, i)
      /\ \A i \in Known(f) : TermIn(f, i) = TermIn(g, i)
      BY Zenon, FragmentFacts DEF Part
<1>2. ASSUME Coherent(g, h), NEW k \in In(f), NEW j \in In(h), k <= j,
             TermIn(f, k) = TermIn(h, j)
      PROVE  /\ \A i \in In(f) :
                    i \in In(h) /\ i <= k => EntryIn(f, i) = EntryIn(h, i)
             /\ \A i \in Known(f) :
                    i \in Known(h) /\ i <= k => TermIn(f, i) = TermIn(h, i)
             /\ \A i \in Known(h) :
                    k <= i /\ i <= j => TermIn(h, i) = TermIn(h, j)
      <2>1. k \in In(g) /\ TermIn(g, k) = TermIn(h, j)
            BY Zenon, <1>1, <1>2
      <2>2. /\ \A i \in In(g) :
                   i \in In(h) /\ i <= k => EntryIn(g, i) = EntryIn(h, i)
            /\ \A i \in Known(g) :
                   i \in Known(h) /\ i <= k => TermIn(g, i) = TermIn(h, i)
            /\ \A i \in Known(h) :
                   k <= i /\ i <= j => TermIn(h, i) = TermIn(h, j)
            BY Zenon, <1>2, <2>1 DEF Coherent
      <2>   QED  BY Zenon, <1>1, <2>2
<1>3. ASSUME Coherent(h, g), NEW k \in In(h), NEW j \in In(f), k <= j,
             TermIn(h, k) = TermIn(f, j)
      PROVE  /\ \A i \in In(h) :
                    i \in In(f) /\ i <= k => EntryIn(h, i) = EntryIn(f, i)
             /\ \A i \in Known(h) :
                    i \in Known(f) /\ i <= k => TermIn(h, i) = TermIn(f, i)
             /\ \A i \in Known(f) :
                    k <= i /\ i <= j => TermIn(f, i) = TermIn(f, j)
      <2>1. j \in In(g) /\ TermIn(h, k) = TermIn(g, j) /\ j \in Known(f)
            BY Zenon, <1>1, <1>3
      <2>2. /\ \A i \in In(h) :
                   i \in In(g) /\ i <= k => EntryIn(h, i) = EntryIn(g, i)
            /\ \A i \in Known(h) :
                   i \in Known(g) /\ i <= k => TermIn(h, i) = TermIn(g, i)
            /\ \A i \in Known(g) :
                   k <= i /\ i <= j => TermIn(g, i) = TermIn(g, j)
            BY Zenon, <1>3, <2>1 DEF Coherent
      <2>   QED  BY Zenon, <1>1, <2>1, <2>2
<1>   QED  BY ZenonT(30), <1>2, <1>3 DEF Coherent
-----------------------------------------------------------------------------
(***************************************************************************)
(* Whole logs.                                                             *)
(***************************************************************************)

\* Along a sorted log no later entry has an earlier term: the first one that
\* had would follow one that has not.
LEMMA SortedMonotone ==
    ASSUME NaturalsWellOrdered, NEW l \in Seq(Entry), Sorted(l)
    PROVE  \A i, j \in 1 .. Len(l) : i <= j => l[i].term <= l[j].term
<1>1. /\ Len(l) \in Nat /\ \A i \in 1 .. Len(l) : l[i].term \in Nat
      BY Zenon, EntryTerms
<1>2. SUFFICES ASSUME NEW i \in 1 .. Len(l)
               PROVE  \A j \in 1 .. Len(l) : i <= j => l[i].term <= l[j].term
      BY Zenon
<1> DEFINE Bad == {j \in 1 .. Len(l) : i <= j /\ ~ (l[i].term <= l[j].term)}
<1>3. SUFFICES ASSUME Bad # {} PROVE FALSE
      BY Zenon
<1>4. Bad \subseteq Nat
      BY <1>1
<1>5. PICK j \in Bad : \A x \in Bad : j <= x
      BY Zenon, <1>3, <1>4 DEF NaturalsWellOrdered
<1>6. j \in 1 .. Len(l) /\ i <= j /\ ~ (l[i].term <= l[j].term)
      BY Zenon, <1>5
<1>7. j # i
      BY <1>1, <1>6
<1>8. /\ j \in 2 .. Len(l) /\ j - 1 \in 1 .. Len(l) /\ i <= j - 1
      /\ ~ (j <= j - 1)
      BY <1>1, <1>6, <1>7
<1>9. l[i].term <= l[j - 1].term
      BY Zenon, <1>5, <1>8
<1>10. l[j - 1].term <= l[j].term
      BY Zenon, <1>8 DEF Sorted
<1>   QED  BY <1>1, <1>6, <1>8, <1>9, <1>10

\* A sorted log is coherent with itself.
LEMMA SortedCoherent ==
    ASSUME NaturalsWellOrdered, NEW l \in Seq(Entry), Sorted(l)
    PROVE  Coherent(Whole(l), Whole(l))
<1> DEFINE f == Whole(l)
<1>1. /\ In(f) = 1 .. Len(l) /\ Known(f) = 0 .. Len(l) /\ Len(l) \in Nat
      /\ \A i \in 1 .. Len(l) : TermIn(f, i) = l[i].term
      /\ \A i \in 1 .. Len(l) : l[i].term \in Nat
      BY Zenon, WholeFacts, EntryTerms
<1>   HIDE DEF f
<1>2. ASSUME NEW k \in In(f), NEW j \in In(f), k <= j, TermIn(f, k) = TermIn(f, j),
             NEW i \in Known(f), k <= i, i <= j
      PROVE  TermIn(f, i) = TermIn(f, j)
      <2>1. /\ i \in 1 .. Len(l) /\ k \in 1 .. Len(l) /\ j \in 1 .. Len(l)
            BY <1>1, <1>2
      <2>2. l[k].term <= l[i].term /\ l[i].term <= l[j].term
            BY Zenon, <1>2, <2>1, SortedMonotone
      <2>3. /\ l[k].term \in Nat /\ l[i].term \in Nat /\ l[k].term = l[j].term
            /\ l[j].term \in Nat
            BY Zenon, <1>1, <1>2, <2>1
      <2>4. l[i].term = l[j].term
            BY <2>2, <2>3
      <2>   QED  BY Zenon, <1>1, <2>1, <2>4
<1>3. Coherent(f, f)
      BY Zenon, <1>2 DEF Coherent
<1>   QED  BY Zenon, <1>3 DEF f

\* The entry a leader appends is of a term of which every other fragment holds
\* only entries that the leader holds as well.
LEMMA AppendCoherent ==
    ASSUME NaturalsWellOrdered, NEW l \in Seq(Entry), NEW e \in Entry,
           Sorted(Append(l, e)), NEW g \in Fragment,
           Match(Whole(l), g),
           \A i \in In(g) : TermIn(g, i) = e.term =>
               i \in In(Whole(l)) /\ TermIn(Whole(l), i) = e.term
    PROVE  Match(Whole(Append(l, e)), g)
<1> DEFINE L == Whole(l)
           h == Whole(Append(l, e))
           last == Len(l) + 1
<1>1. /\ Append(l, e) \in Seq(Entry) /\ Len(Append(l, e)) = last
      /\ \A i \in 1 .. Len(l) : Append(l, e)[i] = l[i]
      /\ Append(l, e)[last] = e /\ e.term \in Nat
      BY LogAppend DEF Entry
<1>2. /\ L \in Fragment /\ In(L) = 1 .. Len(l) /\ Known(L) = 0 .. Len(l)
      /\ Len(l) \in Nat /\ TermIn(L, 0) = 0
      /\ \A i \in 1 .. Len(l) : EntryIn(L, i) = l[i] /\ TermIn(L, i) = l[i].term
      BY Zenon, WholeFacts
<1>3. /\ h \in Fragment /\ In(h) = 1 .. last /\ Known(h) = 0 .. last
      /\ TermIn(h, 0) = 0
      /\ \A i \in 1 .. last : /\ EntryIn(h, i) = Append(l, e)[i]
                              /\ TermIn(h, i) = Append(l, e)[i].term
      BY Zenon, <1>1, WholeFacts
<1>4. Coherent(h, h)
      BY Zenon, <1>1, SortedCoherent
<1>   HIDE DEF L, h
<1>5. /\ In(L) \subseteq In(h) /\ Known(L) \subseteq Known(h)
      /\ last \in In(h) /\ last \in Known(h) /\ last \notin In(L)
      /\ \A i \in In(h) : i \in Nat /\ (i \in In(L) \/ i = last)
      /\ \A i \in Known(h) : i \in Nat /\ (i \in Known(L) \/ i = last)
      /\ \A i \in In(h) : i <= last
      BY <1>2, <1>3
<1>6. /\ \A i \in In(L) : EntryIn(h, i) = EntryIn(L, i)
      /\ \A i \in Known(L) : TermIn(h, i) = TermIn(L, i)
      /\ TermIn(h, last) = e.term
      <2>1. \A i \in 1 .. Len(l) : /\ EntryIn(h, i) = EntryIn(L, i)
                                   /\ TermIn(h, i) = TermIn(L, i)
            <3>1. \A i \in 1 .. Len(l) : i \in 1 .. last
                  BY <1>2
            <3>   QED  BY Zenon, <1>1, <1>2, <1>3, <3>1
      <2>2. last \in 1 .. last
            BY <1>2
      <2>3. \A i \in Known(L) : i = 0 \/ i \in 1 .. Len(l)
            BY <1>2
      <2>   QED  BY Zenon, <1>1, <1>2, <1>3, <2>1, <2>2, <2>3
<1>7. \A i \in In(g) : i \in Nat
      BY Zenon, FragmentFacts
<1>8. Coherent(L, g) /\ Coherent(g, L)
      BY Zenon DEF Match, L
<1>9. \A i \in In(g) : TermIn(g, i) = e.term =>
          i \in In(L) /\ TermIn(L, i) = e.term
      BY Zenon DEF L
<1>10. ASSUME NEW k \in In(h), NEW j \in In(g), k <= j, TermIn(h, k) = TermIn(g, j)
      PROVE  /\ \A i \in In(h) :
                    i \in In(g) /\ i <= k => EntryIn(h, i) = EntryIn(g, i)
             /\ \A i \in Known(h) :
                    i \in Known(g) /\ i <= k => TermIn(h, i) = TermIn(g, i)
             /\ \A i \in Known(g) :
                    k <= i /\ i <= j => TermIn(g, i) = TermIn(g, j)
      <2>1. k # last
            <3>1. SUFFICES ASSUME k = last PROVE FALSE
                  BY Zenon
            <3>2. j \in In(L)
                  BY Zenon, <1>6, <1>9, <1>10, <3>1
            <3>   QED  BY <1>2, <1>7, <1>10, <3>1, <3>2
      <2>2. k \in In(L) /\ k \in Nat /\ k < last
            BY <1>2, <1>5, <2>1
      <2>3. TermIn(L, k) = TermIn(g, j)
            <3>1. k \in Known(L)
                  BY <1>2, <2>2
            <3>   QED  BY Zenon, <1>6, <1>10, <3>1
      <2>4. /\ \A i \in In(L) :
                   i \in In(g) /\ i <= k => EntryIn(L, i) = EntryIn(g, i)
            /\ \A i \in Known(L) :
                   i \in Known(g) /\ i <= k => TermIn(L, i) = TermIn(g, i)
            /\ \A i \in Known(g) :
                   k <= i /\ i <= j => TermIn(g, i) = TermIn(g, j)
            BY Zenon, <1>8, <1>10, <2>2, <2>3 DEF Coherent
      <2>5. ~ (last <= k)
            BY <1>2, <2>2
      <2>   QED  BY Zenon, <1>5, <1>6, <2>4, <2>5
<1>11. ASSUME NEW k \in In(g), NEW j \in In(h), k <= j, TermIn(g, k) = TermIn(h, j)
      PROVE  /\ \A i \in In(g) :
                    i \in In(h) /\ i <= k => EntryIn(g, i) = EntryIn(h, i)
             /\ \A i \in Known(g) :
                    i \in Known(h) /\ i <= k => TermIn(g, i) = TermIn(h, i)
             /\ \A i \in Known(h) :
                    k <= i /\ i <= j => TermIn(h, i) = TermIn(h, j)
      <2>1. k \in In(L) /\ TermIn(L, k) = TermIn(h, j)
            <3>1. CASE j = last
                  BY Zenon, <1>6, <1>9, <1>11, <3>1
            <3>2. CASE j # last
                  <4>1. j \in In(L) /\ j \in Known(L) /\ k \in Known(L)
                        /\ k \in In(L)
                        <5>1. k >= 1 /\ k \in Nat
                              BY Zenon, FragmentFacts
                        <5>   QED  BY <1>2, <1>5, <1>11, <3>2, <5>1
                  <4>2. TermIn(g, k) = TermIn(L, j)
                        BY Zenon, <1>6, <1>11, <4>1
                  <4>3. k \in Known(g)
                        BY Zenon, FragmentFacts
                  <4>4. k <= k
                        BY <1>7
                  <4>   QED  BY Zenon, <1>6, <1>8, <1>11, <4>1, <4>2, <4>3, <4>4
                                DEF Coherent
            <3>   QED  BY Zenon, <3>1, <3>2
      <2>2. k <= k /\ k \in In(h) /\ TermIn(h, k) = TermIn(h, j)
            /\ ~ (last <= k)
            BY <1>2, <1>5, <1>6, <2>1
      <2>3. /\ \A i \in In(g) :
                   i \in In(L) /\ i <= k => EntryIn(g, i) = EntryIn(L, i)
            /\ \A i \in Known(g) :
                   i \in Known(L) /\ i <= k => TermIn(g, i) = TermIn(L, i)
            BY Zenon, <1>8, <1>11, <2>1, <2>2 DEF Coherent
      <2>4. \A i \in Known(h) :
                k <= i /\ i <= j => TermIn(h, i) = TermIn(h, j)
            BY Zenon, <1>4, <1>11, <2>2 DEF Coherent
      <2>   QED  BY Zenon, <1>5, <1>6, <2>2, <2>3, <2>4
<1>12. Coherent(h, g) /\ Coherent(g, h)
      BY Zenon, <1>10, <1>11 DEF Coherent
<1>   QED  BY Zenon, <1>12 DEF Match, h

\* k is the log l up to where M starts, followed by what M carries.
Joined(k, l, M) ==
    /\ Part(M, Whole(k)) /\ Len(k) = LastOf(M)
    /\ M.prev \in Known(Whole(l))
    /\ TermIn(Whole(l), M.prev) = TermIn(M, M.prev)
    /\ \A i \in 1 .. M.prev : i <= Len(k) /\ k[i] = l[i]

\* Some entry of M is not in l, or is there with another term.
Conflicts(l, M) ==
    \E i \in In(M) : ~ (i \in 1 .. Len(l) /\ l[i].term = TermIn(M, i))

\* k is what a follower of log l makes of M.
Took(k, l, M) == k = l \/ (Joined(k, l, M) /\ Conflicts(l, M))

\* Index by index, h is L up to p and M from there.
Pieced(h, L, M, p) ==
    /\ p \in Nat /\ p \in Known(L) /\ p \in Known(M) /\ p \in Known(h)
    /\ p >= 1 => p \in In(L) /\ p \in In(h)
    /\ TermIn(L, p) = TermIn(M, p)
    /\ \A i \in In(h) : i <= p => /\ i \in In(L)
                                  /\ EntryIn(h, i) = EntryIn(L, i)
    /\ \A i \in Known(h) : i <= p => /\ i \in Known(L)
                                     /\ TermIn(h, i) = TermIn(L, i)
    /\ \A i \in In(h) : p < i => /\ i \in In(M)
                                 /\ EntryIn(h, i) = EntryIn(M, i)
    /\ \A i \in Known(h) : p <= i => /\ i \in Known(M)
                                     /\ TermIn(h, i) = TermIn(M, i)

LEMMA JoinedFacts ==
    ASSUME NEW k \in Seq(Entry), NEW l \in Seq(Entry), NEW M \in Fragment,
           Joined(k, l, M)
    PROVE  Pieced(Whole(k), Whole(l), M, M.prev)
<1> DEFINE h == Whole(k)
           L == Whole(l)
           p == M.prev
<1>1. /\ p \in Nat /\ LastOf(M) \in Nat /\ p <= LastOf(M)
      /\ In(M) = p + 1 .. LastOf(M) /\ Known(M) = p .. LastOf(M)
      BY Zenon, FragmentFacts
<1>2. /\ In(h) = 1 .. Len(k) /\ Known(h) = 0 .. Len(k) /\ Len(k) \in Nat
      /\ \A i \in 1 .. Len(k) : EntryIn(h, i) = k[i] /\ TermIn(h, i) = k[i].term
      /\ TermIn(h, 0) = 0
      BY Zenon, WholeFacts
<1>3. /\ In(L) = 1 .. Len(l) /\ Known(L) = 0 .. Len(l) /\ Len(l) \in Nat
      /\ \A i \in 1 .. Len(l) : EntryIn(L, i) = l[i] /\ TermIn(L, i) = l[i].term
      /\ TermIn(L, 0) = 0
      BY Zenon, WholeFacts
<1>   HIDE DEF h, L, p
<1>4. /\ Part(M, h) /\ Len(k) = LastOf(M) /\ p \in Known(L)
      /\ TermIn(L, p) = TermIn(M, p)
      /\ \A i \in 1 .. p : i <= Len(k) /\ k[i] = l[i]
      BY Zenon DEF Joined, h, L, p
<1>5. ASSUME NEW i \in In(h), i <= p
      PROVE  i \in In(L) /\ EntryIn(h, i) = EntryIn(L, i)
             /\ TermIn(h, i) = TermIn(L, i)
      <2>1. i \in 1 .. p /\ i \in 1 .. Len(k) /\ i \in 1 .. Len(l)
            BY <1>1, <1>2, <1>3, <1>4, <1>5
      <2>   QED  BY Zenon, <1>2, <1>3, <1>4, <2>1
<1>6. ASSUME NEW i \in Known(h), i <= p
      PROVE  i \in Known(L) /\ TermIn(h, i) = TermIn(L, i)
      <2>1. i = 0 \/ i \in In(h)
            BY <1>2
      <2>2. i \in Known(L)
            BY <1>1, <1>2, <1>3, <1>4, <1>6
      <2>   QED  BY Zenon, <1>2, <1>3, <1>5, <1>6, <2>1, <2>2
<1>7. ASSUME NEW i \in In(h), p < i
      PROVE  i \in In(M) /\ EntryIn(h, i) = EntryIn(M, i)
      <2>1. i \in In(M)
            BY <1>1, <1>2, <1>4, <1>7
      <2>   QED  BY Zenon, <1>4, <2>1 DEF Part
<1>8. ASSUME NEW i \in Known(h), p <= i
      PROVE  i \in Known(M) /\ TermIn(h, i) = TermIn(M, i)
      <2>1. i \in Known(M)
            BY <1>1, <1>2, <1>4, <1>8
      <2>   QED  BY Zenon, <1>4, <2>1 DEF Part
<1>9. /\ p \in Known(M) /\ p \in Known(h)
      /\ p >= 1 => p \in In(L) /\ p \in In(h)
      BY <1>1, <1>2, <1>3, <1>4
<1>10. Pieced(h, L, M, p)
      BY Zenon, <1>1, <1>4, <1>5, <1>6, <1>7, <1>8, <1>9 DEF Pieced
<1>   QED  BY Zenon, <1>10 DEF h, L, p

\* Joining fragments that match, and match a third, makes one that does.
LEMMA JoinedCoherent ==
    ASSUME NEW k \in Seq(Entry), NEW l \in Seq(Entry), NEW M \in Fragment,
           Joined(k, l, M), NEW g \in Fragment,
           Match(Whole(l), g), Match(M, g)
    PROVE  Match(Whole(k), g)
<1> DEFINE h == Whole(k)
           L == Whole(l)
           p == M.prev
<1>0. Pieced(h, L, M, p)
      BY Zenon, JoinedFacts
<1>2. /\ In(h) = 1 .. Len(k) /\ Known(h) = 0 .. Len(k) /\ Len(k) \in Nat
      BY Zenon, WholeFacts
<1>3. /\ g.prev \in Nat /\ LastOf(g) \in Nat
      /\ In(g) = g.prev + 1 .. LastOf(g) /\ Known(g) = g.prev .. LastOf(g)
      BY Zenon, FragmentFacts
<1>4. Coherent(L, g)
      BY Zenon DEF Match
<1>10. Coherent(g, L)
      BY Zenon DEF Match
<1>11. Coherent(M, g)
      BY Zenon DEF Match
<1>12. Coherent(g, M)
      BY Zenon DEF Match
<1>   HIDE DEF h, L, p
<1>1. /\ p \in Nat /\ p \in Known(L) /\ p \in Known(M) /\ p \in Known(h)
      /\ p >= 1 => p \in In(L) /\ p \in In(h)
      /\ TermIn(L, p) = TermIn(M, p)
      /\ \A i \in In(h) : i <= p => /\ i \in In(L)
                                    /\ EntryIn(h, i) = EntryIn(L, i)
      /\ \A i \in Known(h) : i <= p => /\ i \in Known(L)
                                       /\ TermIn(h, i) = TermIn(L, i)
      /\ \A i \in In(h) : p < i => /\ i \in In(M)
                                   /\ EntryIn(h, i) = EntryIn(M, i)
      /\ \A i \in Known(h) : p <= i => /\ i \in Known(M)
                                       /\ TermIn(h, i) = TermIn(M, i)
      BY Zenon, <1>0 DEF Pieced
<1>5. /\ \A i \in In(h) : i \in Nat /\ i >= 1 /\ i \in Known(h)
      /\ \A i \in Known(h) : i \in Nat
      /\ \A i \in In(g) : i \in Nat /\ i >= 1 /\ i \in Known(g)
      /\ \A i \in Known(g) : i \in Nat
      BY <1>2, <1>3
\* Below p, if g knows p with the term of M.
<1>6. ASSUME p \in Known(g) => TermIn(M, p) = TermIn(g, p),
             NEW x \in Known(g), p < x, NEW i \in Known(g), i \in Known(h), i <= p
      PROVE  /\ TermIn(h, i) = TermIn(g, i)
             /\ i \in In(h) /\ i \in In(g) => EntryIn(h, i) = EntryIn(g, i)
      <2>0. p \in Known(g) /\ i \in Nat
            BY <1>1, <1>3, <1>5, <1>6
      <2>1. TermIn(L, p) = TermIn(g, p)
            BY Zenon, <1>1, <1>6, <2>0
      <2>2. CASE p \in In(L) /\ p \in In(g)
            <3>1. p <= p
                  BY <1>1
            <3>2. /\ \A y \in In(L) : y \in In(g) /\ y <= p =>
                         EntryIn(L, y) = EntryIn(g, y)
                  /\ \A y \in Known(L) : y \in Known(g) /\ y <= p =>
                         TermIn(L, y) = TermIn(g, y)
                  BY Zenon, <1>4, <2>1, <2>2, <3>1 DEF Coherent
            <3>   QED  BY Zenon, <1>1, <1>6, <3>2
      <2>3. CASE ~ (p \in In(L) /\ p \in In(g))
            <3>1. i = p /\ (i \notin In(h) \/ i \notin In(g))
                  BY <1>1, <1>2, <1>3, <1>5, <1>6, <2>0, <2>3
            <3>   QED  BY Zenon, <1>1, <1>6, <2>0, <3>1
      <2>   QED  BY Zenon, <2>2, <2>3
<1>7. ASSUME NEW x \in In(h), NEW y \in In(g), x <= y, TermIn(h, x) = TermIn(g, y)
      PROVE  /\ \A i \in In(h) :
                    i \in In(g) /\ i <= x => EntryIn(h, i) = EntryIn(g, i)
             /\ \A i \in Known(h) :
                    i \in Known(g) /\ i <= x => TermIn(h, i) = TermIn(g, i)
             /\ \A i \in Known(g) :
                    x <= i /\ i <= y => TermIn(g, i) = TermIn(g, y)
      <2>1. CASE x <= p
            <3>1. x \in In(L) /\ TermIn(L, x) = TermIn(g, y)
                  BY Zenon, <1>1, <1>5, <1>7, <2>1
            <3>2. /\ \A i \in In(L) :
                         i \in In(g) /\ i <= x => EntryIn(L, i) = EntryIn(g, i)
                  /\ \A i \in Known(L) :
                         i \in Known(g) /\ i <= x => TermIn(L, i) = TermIn(g, i)
                  /\ \A i \in Known(g) :
                         x <= i /\ i <= y => TermIn(g, i) = TermIn(g, y)
                  BY Zenon, <1>4, <1>7, <3>1 DEF Coherent
            <3>3. \A i \in Known(h) : i <= x => i <= p
                  BY <1>1, <1>5, <2>1
            <3>   QED  BY Zenon, <1>1, <1>5, <3>2, <3>3
      <2>2. CASE ~ (x <= p)
            <3>1. p < x /\ p <= x
                  BY <1>1, <1>5, <2>2
            <3>2. x \in In(M) /\ TermIn(M, x) = TermIn(g, y)
                  BY Zenon, <1>1, <1>5, <1>7, <3>1
            <3>3. /\ \A i \in In(M) :
                         i \in In(g) /\ i <= x => EntryIn(M, i) = EntryIn(g, i)
                  /\ \A i \in Known(M) :
                         i \in Known(g) /\ i <= x => TermIn(M, i) = TermIn(g, i)
                  /\ \A i \in Known(g) :
                         x <= i /\ i <= y => TermIn(g, i) = TermIn(g, y)
                  BY Zenon, <1>11, <1>7, <3>2 DEF Coherent
            <3>4. p \in Known(g) => TermIn(M, p) = TermIn(g, p)
                  BY Zenon, <1>1, <3>1, <3>3
            <3>5. y \in Known(g) /\ p < y
                  BY <1>1, <1>5, <1>7, <3>1
            <3>6. \A i \in Known(h) : i <= p \/ (p < i /\ p <= i)
                  BY <1>1, <1>5
            <3>   QED  BY Zenon, <1>1, <1>5, <1>6, <3>3, <3>4, <3>5, <3>6
      <2>   QED  BY Zenon, <2>1, <2>2
<1>8. ASSUME NEW x \in In(g), NEW y \in In(h), x <= y, TermIn(g, x) = TermIn(h, y)
      PROVE  /\ \A i \in In(g) :
                    i \in In(h) /\ i <= x => EntryIn(g, i) = EntryIn(h, i)
             /\ \A i \in Known(g) :
                    i \in Known(h) /\ i <= x => TermIn(g, i) = TermIn(h, i)
             /\ \A i \in Known(h) :
                    x <= i /\ i <= y => TermIn(h, i) = TermIn(h, y)
      <2>1. CASE y <= p
            <3>1. y \in In(L) /\ TermIn(g, x) = TermIn(L, y)
                  /\ TermIn(h, y) = TermIn(L, y)
                  BY Zenon, <1>1, <1>5, <1>8, <2>1
            <3>2. /\ \A i \in In(g) :
                         i \in In(L) /\ i <= x => EntryIn(g, i) = EntryIn(L, i)
                  /\ \A i \in Known(g) :
                         i \in Known(L) /\ i <= x => TermIn(g, i) = TermIn(L, i)
                  /\ \A i \in Known(L) :
                         x <= i /\ i <= y => TermIn(L, i) = TermIn(L, y)
                  BY Zenon, <1>10, <1>8, <3>1 DEF Coherent
            <3>3. /\ \A i \in Known(h) : i <= x => i <= p
                  /\ \A i \in Known(h) : i <= y => i <= p
                  BY <1>1, <1>5, <1>8, <2>1
            <3>   QED  BY Zenon, <1>1, <1>5, <3>1, <3>2, <3>3
      <2>2. CASE ~ (y <= p) /\ ~ (x <= p)
            <3>1. p < y /\ p <= y /\ p < x /\ p <= x
                  BY <1>1, <1>5, <2>2
            <3>2. y \in In(M) /\ TermIn(g, x) = TermIn(M, y)
                  /\ TermIn(h, y) = TermIn(M, y)
                  BY Zenon, <1>1, <1>5, <1>8, <3>1
            <3>3. /\ \A i \in In(g) :
                         i \in In(M) /\ i <= x => EntryIn(g, i) = EntryIn(M, i)
                  /\ \A i \in Known(g) :
                         i \in Known(M) /\ i <= x => TermIn(g, i) = TermIn(M, i)
                  /\ \A i \in Known(M) :
                         x <= i /\ i <= y => TermIn(M, i) = TermIn(M, y)
                  BY Zenon, <1>12, <1>8, <3>2 DEF Coherent
            <3>4. p \in Known(g) => TermIn(M, p) = TermIn(g, p)
                  BY Zenon, <1>1, <3>1, <3>3
            <3>5. x \in Known(g)
                  BY Zenon, <1>5
            <3>6. /\ \A i \in Known(h) : i <= p \/ (p < i /\ p <= i)
                  /\ \A i \in Known(h) : x <= i => p <= i
                  BY <1>1, <1>5, <3>1
            <3>   QED  BY Zenon, <1>1, <1>5, <1>6, <3>1, <3>2, <3>3, <3>4, <3>5,
                          <3>6
      <2>3. CASE ~ (y <= p) /\ x <= p
            <3>1. p < y /\ p <= y /\ p >= 1
                  BY <1>1, <1>5, <2>3
            <3>2. y \in In(M) /\ TermIn(g, x) = TermIn(M, y)
                  /\ TermIn(h, y) = TermIn(M, y)
                  BY Zenon, <1>1, <1>5, <1>8, <3>1
            <3>3. \A i \in Known(M) :
                      x <= i /\ i <= y => TermIn(M, i) = TermIn(M, y)
                  BY Zenon, <1>12, <1>8, <3>2 DEF Coherent
            <3>4. TermIn(g, x) = TermIn(L, p) /\ p \in In(L)
                  BY Zenon, <1>1, <2>3, <3>1, <3>2, <3>3
            <3>5. /\ \A i \in In(g) :
                         i \in In(L) /\ i <= x => EntryIn(g, i) = EntryIn(L, i)
                  /\ \A i \in Known(g) :
                         i \in Known(L) /\ i <= x => TermIn(g, i) = TermIn(L, i)
                  /\ \A i \in Known(L) :
                         x <= i /\ i <= p => TermIn(L, i) = TermIn(L, p)
                  BY Zenon, <1>10, <2>3, <3>4 DEF Coherent
            <3>6. /\ \A i \in Known(h) : i <= x => i <= p
                  /\ \A i \in Known(h) : i <= p \/ p <= i
                  BY <1>1, <1>5, <2>3
            <3>7. TermIn(L, p) = TermIn(h, y)
                  BY Zenon, <3>2, <3>4
            <3>   QED  BY Zenon, <1>1, <1>5, <3>2, <3>3, <3>5, <3>6, <3>7
      <2>   QED  BY Zenon, <2>1, <2>2, <2>3
<1>9. Coherent(h, g) /\ Coherent(g, h)
      BY Zenon, <1>7, <1>8 DEF Coherent
<1>   QED  BY Zenon, <1>9 DEF Match, h

-----------------------------------------------------------------------------
(***************************************************************************)
(* What on_append_entries and finish_snapshot_install make of a log.       *)
(***************************************************************************)

\* The fragments two kinds of messages carry.
LEMMA CarriedAppend ==
    ASSUME NEW m \in AppendEntries
    PROVE  LET M == Carried(m)
           IN  /\ M \in Fragment
               /\ M.prev = m.prev /\ M.prevTerm = m.prevTerm
               /\ M.entries = m.entries
               /\ m.prev \in Nat /\ m.prevTerm \in Nat
               /\ m.entries \in Seq(Entry) /\ Len(m.entries) \in Nat
               /\ LastOf(M) = m.prev + Len(m.entries)
               /\ \A i : EntryIn(M, i) = m.entries[i - m.prev]
<1>1. /\ m.type = "AppendEntries" /\ m.prev \in Nat /\ m.prevTerm \in Nat
      /\ m.entries \in Seq(Entry)
      BY Zenon DEF AppendEntries
<1>2. Len(m.entries) \in Nat
      BY Zenon, <1>1, EntryTerms
<1>3. "AppendEntries" # "InstallSnapshot"
      OBVIOUS
<1>4. Carried(m) = [prev |-> m.prev, prevTerm |-> m.prevTerm,
                    entries |-> m.entries]
      BY Zenon, <1>1, <1>3 DEF Carried
<1> DEFINE M == Carried(m)
<1>5. M.prev = m.prev /\ M.prevTerm = m.prevTerm /\ M.entries = m.entries
      BY <1>4
<1>6. M \in Fragment
      BY <1>1, <1>4 DEF Fragment
<1>   HIDE DEF M
<1>7. /\ LastOf(M) = m.prev + Len(m.entries)
      /\ \A i : EntryIn(M, i) = m.entries[i - m.prev]
      BY Zenon, <1>5 DEF LastOf, EntryIn
<1>   QED  BY Zenon, <1>1, <1>2, <1>5, <1>6, <1>7 DEF M

LEMMA CarriedSnapshot ==
    ASSUME NEW m \in InstallSnapshot
    PROVE  Carried(m) = Whole(m.snapshot) /\ m.snapshot \in Seq(Entry)
BY Zenon DEF InstallSnapshot, Carried

\* An accepted message fits the log: its previous entry is there, and so is
\* every entry at a position that does not change.
LEMMA AcceptedFits ==
    ASSUME NEW l \in Seq(Entry), NEW b \in Nat, NEW m \in AppendEntries,
           AcceptsAppend(l, b, m)
    PROVE  /\ m.prev \in 0 .. Len(l)
           /\ TermIn(Whole(l), m.prev) = m.prevTerm
           /\ \A i \in 1 .. Len(m.entries) : i \notin ChangedPositions(l, b, m) =>
                  /\ m.prev + i \in 1 .. Len(l)
                  /\ l[m.prev + i].term = m.entries[i].term
<1>1. /\ m.prev \in Nat /\ m.prevTerm \in Nat /\ m.entries \in Seq(Entry)
      /\ Len(m.entries) \in Nat /\ Len(l) \in Nat
      /\ \A i \in 1 .. Len(m.entries) : m.entries[i].term \in Nat
      BY Zenon, EntryTerms DEF AppendEntries
<1>2. b <= m.prev /\ TermAt(l, b, m.prev) = m.prevTerm
      BY Zenon DEF AcceptsAppend
<1>3. TermAt(l, b, m.prev) # NoTerm
      BY <1>1, <1>2 DEF NoTerm
<1>4. m.prev \in 0 .. Len(l)
      BY <1>1, <1>3, TermAtType
<1>5. TermIn(Whole(l), m.prev) = m.prevTerm
      <2>1. CASE m.prev = 0
            <3>1. TermAt(l, b, 0) = 0
                  BY <1>1, <1>2, <1>4, <2>1 DEF TermAt
            <3>   QED  BY Zenon, <1>2, <2>1, <3>1, WholeFacts
      <2>2. CASE m.prev # 0
            <3>1. m.prev \in 1 .. Len(l)
                  BY <1>1, <1>4, <2>2
            <3>   QED  BY Zenon, <1>2, <3>1, TermAtEntry, WholeFacts
      <2>   QED  BY Zenon, <2>1, <2>2
<1>6. ASSUME NEW i \in 1 .. Len(m.entries), i \notin ChangedPositions(l, b, m)
      PROVE  /\ m.prev + i \in 1 .. Len(l)
             /\ l[m.prev + i].term = m.entries[i].term
      <2>1. TermAt(l, b, m.prev + i) = m.entries[i].term
            BY Zenon, <1>6 DEF ChangedPositions
      <2>2. m.prev + i \in Nat /\ m.prev + i >= 1
            BY <1>1
      <2>3. TermAt(l, b, m.prev + i) # NoTerm
            BY <1>1, <2>1 DEF NoTerm
      <2>4. b <= m.prev + i /\ m.prev + i <= Len(l)
            BY Zenon, <2>2, <2>3, TermAtType
      <2>5. m.prev + i \in 1 .. Len(l)
            BY <1>1, <2>2, <2>4
      <2>   QED  BY Zenon, <2>1, <2>4, <2>5, TermAtEntry
<1>   QED  BY Zenon, <1>4, <1>5, <1>6

\* The merged log, entry by entry.
LEMMA MergedEntries ==
    ASSUME NaturalsWellOrdered, NEW l \in Seq(Entry), NEW b \in Nat,
           NEW m \in AppendEntries, AcceptsAppend(l, b, m),
           ChangedPositions(l, b, m) # {}
    PROVE  LET k == MergedLog(l, b, m)
               f == Min(ChangedPositions(l, b, m))
           IN  /\ k \in Seq(Entry) /\ Len(k) = m.prev + Len(m.entries)
               /\ f \in 1 .. Len(m.entries)
               /\ \A i \in 1 .. f : i # f => i \notin ChangedPositions(l, b, m)
               /\ m.prev + f - 1 \in 0 .. Len(l)
               /\ \A i \in 1 .. Len(k) :
                      k[i] = IF i < m.prev + f THEN l[i] ELSE m.entries[i - m.prev]
<1> DEFINE C == ChangedPositions(l, b, m)
           f == Min(C)
           p == SubSeq(l, 1, m.prev + f - 1)
           q == SubSeq(m.entries, f, Len(m.entries))
           k == MergedLog(l, b, m)
<1>1. /\ m.prev \in Nat /\ m.entries \in Seq(Entry)
      /\ Len(m.entries) \in Nat /\ Len(l) \in Nat
      BY Zenon, CarriedAppend, EntryTerms
<1>2. /\ f \in 1 .. Len(m.entries)
      /\ m.prev + f - 1 \in 0 .. Len(l)
      BY Zenon, FirstChange
<1>3. \A i \in 1 .. f : i # f => i \notin C
      <2>1. C \subseteq 1 .. Len(m.entries)
            BY Zenon DEF ChangedPositions
      <2>2. C \subseteq Nat /\ C # {}
            BY <1>1, <2>1
      <2>   HIDE DEF C
      <2>3. \A i \in C : f <= i
            BY Zenon, <2>2, MinOfNaturals
      <2>   HIDE DEF f
      <2>4. \A i \in 1 .. f : i # f => ~ (f <= i)
            BY <1>1, <1>2
      <2>   QED  BY Zenon, <2>3, <2>4
<1>4. k = p \o q
      <2>1. k = TruncateAndAppend(l, m.prev + f, q)
            BY Zenon DEF MergedLog
      <2>   HIDE DEF f, q, k
      <2>2. (m.prev + f) - 1 = m.prev + f - 1
            BY <1>1, <1>2
      <2>   QED  BY Zenon, <2>1, <2>2 DEF TruncateAndAppend
<1>   HIDE DEF C, f, k
<1>5. /\ p \in Seq(Entry) /\ Len(p) = m.prev + f - 1
      /\ \A x \in 1 .. m.prev + f - 1 : p[x] = l[x]
      BY Zenon, <1>2, PrefixProperties
<1>6. /\ q \in Seq(Entry) /\ Len(q) = Len(m.entries) - f + 1
      /\ \A x \in 1 .. Len(m.entries) - f + 1 : q[x] = m.entries[f + x - 1]
      <2>1. /\ f \in Int /\ Len(m.entries) \in Int /\ f <= Len(m.entries)
            /\ \A x \in f .. Len(m.entries) : x \in 1 .. Len(m.entries)
            BY <1>1, <1>2
      <2>2. \A x \in f .. Len(m.entries) : m.entries[x] \in Entry
            BY Zenon, <1>1, <2>1, LogElements
      <2>   QED  BY Zenon, <2>1, <2>2, LogPart
<1>   HIDE DEF p, q
<1>7. /\ k \in Seq(Entry) /\ Len(k) = Len(p) + Len(q)
      /\ \A i \in 1 .. Len(p) + Len(q) :
             k[i] = IF i <= Len(p) THEN p[i] ELSE q[i - Len(p)]
      BY Zenon, <1>4, <1>5, <1>6, LogConcat
<1>8. Len(k) = m.prev + Len(m.entries)
      <2>1. ASSUME NEW a \in Nat, NEW e \in Nat, NEW g \in 1 .. e
            PROVE  (a + g - 1) + (e - g + 1) = a + e
            OBVIOUS
      <2>2. (m.prev + f - 1) + (Len(m.entries) - f + 1) = m.prev + Len(m.entries)
            BY Zenon, <1>1, <1>2, <2>1
      <2>3. /\ Len(k) = Len(p) + Len(q) /\ Len(p) = m.prev + f - 1
            /\ Len(q) = Len(m.entries) - f + 1
            BY Zenon, <1>5, <1>6, <1>7
      <2>   QED  BY Zenon, <2>2, <2>3
<1>9. ASSUME NEW i \in 1 .. Len(k)
      PROVE  k[i] = IF i < m.prev + f THEN l[i] ELSE m.entries[i - m.prev]
      <2>1. CASE i < m.prev + f
            <3>1. i \in 1 .. m.prev + f - 1 /\ i <= Len(p)
                  BY <1>1, <1>2, <1>5, <1>8, <2>1
            <3>   QED  BY Zenon, <1>5, <1>7, <2>1, <3>1
      <2>2. CASE ~ (i < m.prev + f)
            <3> DEFINE x == i - Len(p)
            <3>0. ASSUME NEW a \in Nat, NEW e \in Nat, NEW g \in 1 .. e,
                         NEW j \in 1 .. a + e, ~ (j < a + g)
                  PROVE  /\ ~ (j <= a + g - 1)
                         /\ j - (a + g - 1) \in 1 .. e - g + 1
                         /\ g + (j - (a + g - 1)) - 1 = j - a
                  BY <3>0
            <3>1. /\ ~ (i <= Len(p)) /\ x \in 1 .. Len(m.entries) - f + 1
                  /\ f + x - 1 = i - m.prev
                  <4>1. i \in 1 .. m.prev + Len(m.entries)
                        BY Zenon, <1>8
                  <4>2. /\ ~ (i <= m.prev + f - 1)
                        /\ i - (m.prev + f - 1) \in 1 .. Len(m.entries) - f + 1
                        /\ f + (i - (m.prev + f - 1)) - 1 = i - m.prev
                        BY Zenon, <1>1, <1>2, <2>2, <3>0, <4>1
                  <4>3. Len(p) = m.prev + f - 1
                        BY Zenon, <1>5
                  <4>   QED  BY Zenon, <4>2, <4>3
            <3>   HIDE DEF x
            <3>2. q[x] = m.entries[i - m.prev]
                  BY Zenon, <1>6, <3>1
            <3>   QED  BY Zenon, <1>7, <2>2, <3>1, <3>2 DEF x
      <2>   QED  BY Zenon, <2>1, <2>2
<1>   QED  BY Zenon, <1>2, <1>3, <1>7, <1>8, <1>9 DEF C, f, k

\* on_append_entries leaves the log as it is, with the message already in it,
\* or joins the message to what it keeps of the log.
LEMMA MergedShape ==
    ASSUME NaturalsWellOrdered, NEW l \in Seq(Entry), NEW b \in Nat,
           NEW m \in AppendEntries, AcceptsAppend(l, b, m),
           Coherent(Carried(m), Whole(l))
    PROVE  LET k == MergedLog(l, b, m)
           IN  /\ k \in Seq(Entry) /\ Took(k, l, Carried(m))
               /\ Part(Carried(m), Whole(k))
<1> DEFINE C == ChangedPositions(l, b, m)
           M == Carried(m)
           L == Whole(l)
<1>1. /\ M \in Fragment /\ M.prev = m.prev /\ M.prevTerm = m.prevTerm
      /\ m.prev \in Nat /\ m.entries \in Seq(Entry) /\ Len(m.entries) \in Nat
      /\ LastOf(M) = m.prev + Len(m.entries)
      /\ \A i : EntryIn(M, i) = m.entries[i - m.prev]
      BY Zenon, CarriedAppend
<1>2. /\ In(M) = M.prev + 1 .. LastOf(M) /\ Known(M) = M.prev .. LastOf(M)
      /\ \A i \in In(M) : TermIn(M, i) = EntryIn(M, i).term
      /\ TermIn(M, M.prev) = M.prevTerm
      BY Zenon, <1>1, FragmentFacts
<1>3. /\ In(L) = 1 .. Len(l) /\ Known(L) = 0 .. Len(l) /\ Len(l) \in Nat
      /\ \A i \in 1 .. Len(l) : EntryIn(L, i) = l[i] /\ TermIn(L, i) = l[i].term
      /\ TermIn(L, 0) = 0
      BY Zenon, WholeFacts
<1>4. /\ m.prev \in 0 .. Len(l)
      /\ TermIn(L, m.prev) = m.prevTerm
      /\ \A i \in 1 .. Len(m.entries) : i \notin C =>
             /\ m.prev + i \in 1 .. Len(l)
             /\ l[m.prev + i].term = m.entries[i].term
      BY Zenon, AcceptedFits
<1>5. Coherent(M, L)
      OBVIOUS
<1>   HIDE DEF C, M, L
\* An unchanged position holds the very entry of the message.
<1>6. ASSUME NEW i \in In(M), i - m.prev \notin C
      PROVE  i \in 1 .. Len(l) /\ EntryIn(M, i) = l[i]
      <2>1. /\ i \in Nat /\ i - m.prev \in 1 .. Len(m.entries)
            /\ m.prev + (i - m.prev) = i /\ i <= i
            BY <1>1, <1>2
      <2>2. i \in 1 .. Len(l) /\ l[i].term = EntryIn(M, i).term
            BY Zenon, <1>1, <1>4, <1>6, <2>1
      <2>3. i \in In(L) /\ TermIn(M, i) = TermIn(L, i)
            BY Zenon, <1>2, <1>3, <1>6, <2>2
      <2>   QED  BY Zenon, <1>3, <1>5, <2>1, <2>2, <2>3 DEF Coherent
<1>7. CASE C = {}
      <2>1. MergedLog(l, b, m) = l
            BY Zenon, <1>7 DEF MergedLog, C
      <2>2. In(M) \subseteq In(L) /\ \A i \in In(M) : EntryIn(M, i) = EntryIn(L, i)
            BY Zenon, <1>3, <1>6, <1>7
      <2>3. Known(M) \subseteq Known(L)
            <3>1. ASSUME NEW i \in Known(M) PROVE i = m.prev \/ i \in In(M)
                  BY <1>1, <1>2
            <3>2. In(L) \subseteq Known(L) /\ m.prev \in Known(L)
                  BY <1>3, <1>4
            <3>   QED  BY Zenon, <2>2, <3>1, <3>2
      <2>4. ASSUME NEW i \in Known(M)
            PROVE  TermIn(M, i) = TermIn(L, i)
            <3>1. i = m.prev \/ i \in In(M)
                  BY <1>1, <1>2
            <3>2. CASE i = m.prev
                  BY Zenon, <1>1, <1>2, <1>4, <3>2
            <3>3. CASE i \in In(M)
                  BY Zenon, <1>2, <1>3, <2>2, <3>3
            <3>   QED  BY Zenon, <3>1, <3>2, <3>3
      <2>5. Part(M, L)
            BY Zenon, <2>2, <2>3, <2>4 DEF Part
      <2>   QED  BY Zenon, <2>1, <2>5 DEF M, L, Took
<1>8. CASE C # {}
      <2> DEFINE k == MergedLog(l, b, m)
                 f == Min(C)
                 h == Whole(k)
      <2>1. /\ k \in Seq(Entry) /\ Len(k) = m.prev + Len(m.entries)
            /\ f \in 1 .. Len(m.entries)
            /\ \A i \in 1 .. f : i # f => i \notin C
            /\ m.prev + f - 1 \in 0 .. Len(l)
            /\ \A i \in 1 .. Len(k) :
                   k[i] = IF i < m.prev + f THEN l[i] ELSE m.entries[i - m.prev]
            BY Zenon, <1>8, MergedEntries DEF C
      <2>   HIDE DEF k, f
      <2>2. /\ In(h) = 1 .. Len(k) /\ Known(h) = 0 .. Len(k)
            /\ \A i \in 1 .. Len(k) : EntryIn(h, i) = k[i] /\ TermIn(h, i) = k[i].term
            /\ TermIn(h, 0) = 0
            BY Zenon, <2>1, WholeFacts
      <2>   HIDE DEF h
      <2>3. ASSUME NEW i \in In(M)
            PROVE  i \in In(h) /\ EntryIn(M, i) = EntryIn(h, i)
                   /\ TermIn(M, i) = TermIn(h, i)
            <3>1. i \in 1 .. Len(k)
                  BY <1>1, <1>2, <2>1
            <3>2. CASE i < m.prev + f
                  <4>0. ASSUME NEW a \in Nat, NEW g \in Nat, NEW j \in Nat,
                               a + 1 <= j, j < a + g
                        PROVE  j - a \in 1 .. g /\ j - a # g
                        BY <4>0
                  <4>3. m.prev + 1 <= i /\ i \in Nat
                        BY <1>1, <1>2
                  <4>4. f \in Nat
                        BY <1>1, <2>1
                  <4>1. i - m.prev \in 1 .. f /\ i - m.prev # f
                        BY Zenon, <1>1, <3>2, <4>0, <4>3, <4>4
                  <4>2. EntryIn(M, i) = l[i]
                        BY Zenon, <1>6, <2>1, <4>1
                  <4>   QED  BY Zenon, <1>2, <2>1, <2>2, <3>1, <3>2, <4>2
            <3>3. CASE ~ (i < m.prev + f)
                  BY Zenon, <1>1, <1>2, <2>1, <2>2, <3>1, <3>3
            <3>   QED  BY Zenon, <3>2, <3>3
      <2>4. ASSUME NEW i \in 1 .. m.prev
            PROVE  i <= Len(k) /\ k[i] = l[i]
            <3>1. i \in 1 .. Len(k) /\ i <= Len(k) /\ i < m.prev + f
                  BY <1>1, <2>1
            <3>   QED  BY Zenon, <2>1, <3>1
      <2>5. m.prev \in Known(h) /\ TermIn(h, m.prev) = m.prevTerm
            <3>1. m.prev \in Known(h)
                  BY <1>1, <2>1, <2>2
            <3>2. CASE m.prev = 0
                  BY Zenon, <1>3, <1>4, <2>2, <3>1, <3>2
            <3>3. CASE m.prev # 0
                  <4>1. /\ m.prev \in 1 .. m.prev /\ m.prev \in 1 .. Len(l)
                        /\ m.prev \in 1 .. Len(k)
                        BY <1>1, <1>3, <1>4, <2>1, <3>3
                  <4>   QED  BY ZenonT(30), <1>3, <1>4, <2>2, <2>4, <3>1, <4>1
            <3>   QED  BY Zenon, <3>2, <3>3
      <2>6. ASSUME NEW i \in Known(M)
            PROVE  i \in Known(h) /\ TermIn(M, i) = TermIn(h, i)
            <3>1. i = m.prev \/ i \in In(M)
                  BY <1>1, <1>2
            <3>2. In(h) \subseteq Known(h)
                  BY <2>2
            <3>   QED  BY Zenon, <1>1, <1>2, <2>3, <2>5, <3>1, <3>2
      <2>7. Part(M, h)
            BY Zenon, <2>3, <2>6 DEF Part
      <2>8. m.prev \in Known(L)
            BY <1>3, <1>4
      <2>9. Joined(k, l, M)
            BY Zenon, <1>1, <1>2, <1>4, <2>1, <2>4, <2>7, <2>8 DEF Joined, h, L
      <2>10. Conflicts(l, M)
            <3>1. PICK c \in 1 .. Len(m.entries) :
                           TermAt(l, b, m.prev + c) # m.entries[c].term
                  BY Zenon, <1>8 DEF C, ChangedPositions
            <3>2. /\ m.prev + c \in In(M) /\ b <= m.prev + c
                  /\ (m.prev + c) - m.prev = c
                  BY <1>1, <1>2 DEF AcceptsAppend
            <3>3. TermIn(M, m.prev + c) = m.entries[c].term
                  BY Zenon, <1>1, <1>2, <3>2
            <3>   QED  BY Zenon, <3>1, <3>2, <3>3, TermAtEntry DEF Conflicts
      <2>   QED  BY Zenon, <2>1, <2>7, <2>9, <2>10 DEF k, h, M, Took
<1>   QED  BY Zenon, <1>7, <1>8

\* Logs of one length with the same entries are one log.
LEMMA LogEqual ==
    ASSUME NEW l \in Seq(Entry), NEW k \in Seq(Entry), Len(k) = Len(l),
           \A i \in 1 .. Len(l) : k[i] = l[i]
    PROVE  k = l
OBVIOUS

\* An installed snapshot replaces the log or is already part of it.
LEMMA InstalledShape ==
    ASSUME NEW l \in Seq(Entry), NEW b \in Nat, NEW s \in Seq(Entry),
           Len(s) >= 1, b <= Len(s), Coherent(Whole(s), Whole(l))
    PROVE  LET k == InstalledLog(l, b, s)
           IN  /\ k \in Seq(Entry) /\ Took(k, l, Whole(s))
               /\ Part(Whole(s), Whole(k))
<1> DEFINE S == Whole(s)
           L == Whole(l)
           q == SubSeq(l, Len(s) + 1, Len(l))
<1>1. CASE TermAt(l, b, Len(s)) # LastTerm(s)
      <2>1. InstalledLog(l, b, s) = s
            BY Zenon, <1>1 DEF InstalledLog
      <2>2. /\ Len(s) \in Nat /\ Len(l) \in Nat /\ s # << >>
            /\ Len(s) \in 1 .. Len(s) /\ 0 \in 0 .. Len(l) /\ 1 .. 0 = {}
            BY EntryTerms
      <2>3. /\ In(S) = 1 .. Len(s) /\ LastOf(S) = Len(s) /\ S.prev = 0
            /\ \A i \in 1 .. Len(s) : TermIn(S, i) = s[i].term
            /\ TermIn(S, 0) = 0 /\ TermIn(L, 0) = 0 /\ Known(L) = 0 .. Len(l)
            BY Zenon, WholeFacts
      <2>4. LastTerm(s) = s[Len(s)].term
            BY Zenon, <2>2 DEF LastTerm
      <2>5. Conflicts(l, S)
            <3>1. Len(s) \in In(S) /\ TermIn(S, Len(s)) = LastTerm(s)
                  BY Zenon, <2>2, <2>3, <2>4
            <3>2. Len(s) \in 1 .. Len(l) => l[Len(s)].term # LastTerm(s)
                  BY Zenon, <1>1, TermAtEntry
            <3>   QED  BY Zenon, <3>1, <3>2 DEF Conflicts
      <2>6. Joined(s, l, S)
            BY Zenon, <2>2, <2>3, PartReflexive DEF Joined
      <2>   QED  BY Zenon, <2>1, <2>5, <2>6, PartReflexive DEF Took
<1>2. CASE TermAt(l, b, Len(s)) = LastTerm(s)
      <2>1. /\ Len(s) \in Nat /\ Len(l) \in Nat /\ s # << >>
            /\ Len(s) \in 1 .. Len(s) /\ s[Len(s)].term \in Nat
            BY EntryTerms
      <2>2. LastTerm(s) = s[Len(s)].term
            BY Zenon, <2>1 DEF LastTerm
      <2>3. TermAt(l, b, Len(s)) # NoTerm
            BY <1>2, <2>1, <2>2 DEF NoTerm
      <2>4. b <= Len(s) /\ Len(s) <= Len(l)
            BY Zenon, <2>1, <2>3, TermAtType
      <2>5. Len(s) \in 1 .. Len(l)
            BY <2>1, <2>4
      <2>6. l[Len(s)].term = s[Len(s)].term
            BY Zenon, <1>2, <2>2, <2>4, <2>5, TermAtEntry
      <2>7. /\ In(S) = 1 .. Len(s) /\ Known(S) = 0 .. Len(s)
            /\ \A i \in 1 .. Len(s) : EntryIn(S, i) = s[i] /\ TermIn(S, i) = s[i].term
            BY Zenon, WholeFacts
      <2>8. /\ In(L) = 1 .. Len(l) /\ Known(L) = 0 .. Len(l)
            /\ \A i \in 1 .. Len(l) : EntryIn(L, i) = l[i] /\ TermIn(L, i) = l[i].term
            BY Zenon, WholeFacts
      <2>9. Coherent(S, L)
            OBVIOUS
      <2>   HIDE DEF S, L
      <2>10. /\ \A i \in In(S) :
                    i \in In(L) /\ i <= Len(s) => EntryIn(S, i) = EntryIn(L, i)
             /\ \A i \in Known(S) :
                    i \in Known(L) /\ i <= Len(s) => TermIn(S, i) = TermIn(L, i)
            <3>1. /\ Len(s) \in In(S) /\ Len(s) \in In(L) /\ Len(s) <= Len(s)
                  BY <2>1, <2>5, <2>7, <2>8
            <3>2. TermIn(S, Len(s)) = TermIn(L, Len(s))
                  BY Zenon, <2>1, <2>5, <2>6, <2>7, <2>8
            <3>   QED  BY Zenon, <2>9, <3>1, <3>2 DEF Coherent
      <2>11. In(S) \subseteq In(L) /\ Known(S) \subseteq Known(L)
            BY <2>1, <2>4, <2>7, <2>8
      <2>12. \A i \in Known(S) : i <= Len(s) /\ (i \in In(S) => i <= Len(s))
            BY <2>1, <2>7
      <2>13. Part(S, L)
            <3>1. \A i \in In(S) : i \in Known(S)
                  BY <2>1, <2>7
            <3>   QED  BY Zenon, <2>10, <2>11, <2>12, <3>1 DEF Part
      <2>14. /\ q \in Seq(Entry) /\ Len(q) = Len(l) - Len(s)
             /\ \A x \in 1 .. Len(l) - Len(s) : q[x] = l[Len(s) + x]
            <3>1. \A x \in Len(s) + 1 .. Len(l) : x \in 1 .. Len(l)
                  BY <2>1
            <3>2. \A x \in Len(s) + 1 .. Len(l) : l[x] \in Entry
                  BY Zenon, <3>1, LogElements
            <3>3. Len(s) + 1 \in Int /\ Len(l) \in Int
                  BY <2>1
            <3>4. /\ q \in Seq(Entry)
                  /\ Len(q) = IF Len(s) + 1 <= Len(l)
                              THEN Len(l) - (Len(s) + 1) + 1 ELSE 0
                  /\ \A x \in 1 .. Len(l) - (Len(s) + 1) + 1 :
                         q[x] = l[(Len(s) + 1) + x - 1]
                  BY Zenon, <3>2, <3>3, LogPart
            <3>   HIDE DEF q
            <3>5. /\ Len(l) - (Len(s) + 1) + 1 = Len(l) - Len(s)
                  /\ ~ (Len(s) + 1 <= Len(l)) => Len(l) - Len(s) = 0
                  /\ \A x \in 1 .. Len(l) - Len(s) : (Len(s) + 1) + x - 1 = Len(s) + x
                  BY <2>1, <2>4
            <3>   QED  BY Zenon, <3>4, <3>5
      <2>   HIDE DEF q
      <2> DEFINE k == s \o q
      <2>15. /\ k \in Seq(Entry) /\ Len(k) = Len(s) + Len(q)
             /\ \A i \in 1 .. Len(s) + Len(q) :
                    k[i] = IF i <= Len(s) THEN s[i] ELSE q[i - Len(s)]
            BY Zenon, <2>14, LogConcat
      <2>   HIDE DEF k
      <2>16. Len(k) = Len(l)
            BY <2>1, <2>14, <2>15
      <2>17. ASSUME NEW i \in 1 .. Len(l)
             PROVE  k[i] = l[i]
            <3>0. i \in 1 .. Len(s) + Len(q)
                  BY Zenon, <2>15, <2>16
            <3>1. CASE i <= Len(s)
                  <4>1. i \in In(S) /\ i \in Known(S) /\ i \in 1 .. Len(s)
                        BY <2>1, <2>7, <3>1
                  <4>2. EntryIn(S, i) = EntryIn(L, i)
                        BY Zenon, <2>13, <4>1 DEF Part
                  <4>   QED  BY Zenon, <2>7, <2>8, <2>15, <3>0, <3>1, <4>1, <4>2
            <3>2. CASE ~ (i <= Len(s))
                  <4>1. i - Len(s) \in 1 .. Len(l) - Len(s) /\ Len(s) + (i - Len(s)) = i
                        BY <2>1, <3>2
                  <4>   QED  BY Zenon, <2>14, <2>15, <3>0, <3>2, <4>1
            <3>   QED  BY Zenon, <3>1, <3>2
      <2>18. k = l
            BY Zenon, <2>15, <2>16, <2>17, LogEqual
      <2>19. InstalledLog(l, b, s) = l
            BY Zenon, <1>2, <2>18 DEF InstalledLog, k, q
      <2>   QED  BY Zenon, <2>13, <2>19 DEF S, L, Took
<1>   QED  BY Zenon, <1>1, <1>2

-----------------------------------------------------------------------------
(***************************************************************************)
(* What send_append takes from a leader's log.                             *)
(***************************************************************************)

\* A prefix of a log is a piece of it.
LEMMA PrefixPart ==
    ASSUME NEW l \in Seq(Entry), NEW s \in Seq(Entry), Len(s) <= Len(l),
           \A i \in 1 .. Len(s) : s[i] = l[i]
    PROVE  Part(Whole(s), Whole(l))
<1> DEFINE S == Whole(s)
           L == Whole(l)
<1>1. /\ In(S) = 1 .. Len(s) /\ Known(S) = 0 .. Len(s) /\ Len(s) \in Nat
      /\ \A i \in 1 .. Len(s) : EntryIn(S, i) = s[i] /\ TermIn(S, i) = s[i].term
      /\ TermIn(S, 0) = 0
      BY Zenon, WholeFacts
<1>2. /\ In(L) = 1 .. Len(l) /\ Known(L) = 0 .. Len(l) /\ Len(l) \in Nat
      /\ \A i \in 1 .. Len(l) : EntryIn(L, i) = l[i] /\ TermIn(L, i) = l[i].term
      /\ TermIn(L, 0) = 0
      BY Zenon, WholeFacts
<1>   HIDE DEF S, L
<1>3. /\ In(S) \subseteq In(L) /\ Known(S) \subseteq Known(L)
      /\ \A i \in Known(S) : i = 0 \/ i \in In(S)
      BY <1>1, <1>2
<1>4. \A i \in In(S) : EntryIn(S, i) = EntryIn(L, i) /\ TermIn(S, i) = TermIn(L, i)
      BY Zenon, <1>1, <1>2, <1>3
<1>5. \A i \in Known(S) : TermIn(S, i) = TermIn(L, i)
      BY Zenon, <1>1, <1>2, <1>3, <1>4
<1>   QED  BY Zenon, <1>3, <1>4, <1>5 DEF Part, S, L

\* Consecutive entries with the term before them are a piece of the log.
LEMMA SlicePart ==
    ASSUME NEW l \in Seq(Entry), NEW f \in Fragment, LastOf(f) <= Len(l),
           TermIn(Whole(l), f.prev) = f.prevTerm,
           \A i \in In(f) : EntryIn(f, i) = l[i]
    PROVE  Part(f, Whole(l))
<1> DEFINE L == Whole(l)
<1>1. /\ In(L) = 1 .. Len(l) /\ Known(L) = 0 .. Len(l) /\ Len(l) \in Nat
      /\ \A i \in 1 .. Len(l) : EntryIn(L, i) = l[i] /\ TermIn(L, i) = l[i].term
      BY Zenon, WholeFacts
<1>2. /\ f.prev \in Nat /\ LastOf(f) \in Nat
      /\ In(f) = f.prev + 1 .. LastOf(f) /\ Known(f) = f.prev .. LastOf(f)
      /\ \A i \in In(f) : TermIn(f, i) = EntryIn(f, i).term
      /\ TermIn(f, f.prev) = f.prevTerm
      BY Zenon, FragmentFacts
<1>   HIDE DEF L
<1>3. /\ In(f) \subseteq In(L) /\ Known(f) \subseteq Known(L)
      /\ \A i \in Known(f) : i = f.prev \/ i \in In(f)
      BY <1>1, <1>2
<1>4. \A i \in In(f) : EntryIn(f, i) = EntryIn(L, i) /\ TermIn(f, i) = TermIn(L, i)
      BY Zenon, <1>1, <1>2, <1>3
<1>5. \A i \in Known(f) : TermIn(f, i) = TermIn(L, i)
      BY Zenon, <1>2, <1>3, <1>4 DEF L
<1>   QED  BY Zenon, <1>3, <1>4, <1>5 DEF Part, L

\* send_append takes a piece of the log, up to its end unless it is cut short.
LEMMA SendAppendPart ==
    ASSUME DurableOK, NEW n \in Node, NEW p, NEW l \in Seq(Entry),
           base[n] <= Len(l), \A i \in 1 .. base[n] : l[i] = log[n][i],
           NEW c, NEW pr \in ProgressRecord, pr.next >= 1, NEW context
    PROVE  LeaderMessage(n, l, c, SendAppend(n, p, l, c, pr, context))
<1>0. /\ base[n] \in Nat /\ Len(l) \in Nat /\ pr.next \in Nat
      /\ MAX_APPEND_ENTRIES \in Nat \ {0}
      /\ log[n] \in Seq(Entry) /\ base[n] \in 0 .. Len(log[n])
      <2>1. /\ base[n] \in Nat /\ log[n] \in Seq(Entry) /\ Len(log[n]) \in Nat
            /\ base[n] <= Len(log[n]) /\ pr.next \in Nat
            BY Zenon, NodeDurable DEF ProgressRecord
      <2>   QED  BY <2>1, EntryTerms, ParametersAssumption
<1>1. CASE pr.next <= base[n]
      <2> DEFINE x == SnapshotChunk(n, p, pr)
                 s == SubSeq(log[n], 1, base[n])
      <2>1. /\ s \in Seq(Entry) /\ Len(s) = base[n]
            /\ \A i \in 1 .. base[n] : s[i] = log[n][i]
            BY Zenon, <1>0, PrefixProperties
      <2>   HIDE DEF s
      <2>2. /\ x.type = "InstallSnapshot" /\ x.from = n
            /\ x.term = currentTerm[n] /\ x.snapshot = s
            BY Zenon DEF SnapshotChunk, s
      <2>   HIDE DEF x
      <2>3. Part(Whole(s), Whole(l))
            BY Zenon, <2>1, PrefixPart
      <2>4. Carried(x) = Whole(s) /\ x.type # "AppendEntries"
            BY <2>2 DEF Carried
      <2>5. LeaderMessage(n, l, c, x)
            BY Zenon, <2>1, <2>2, <2>3, <2>4 DEF LeaderMessage
      <2>   QED  BY Zenon, <1>1, <2>5 DEF SendAppend, x
<1>2. CASE ~ (pr.next <= base[n])
      <2> DEFINE x == SendAppend(n, p, l, c, pr, context)
                 next == Smaller(pr.next, LastIndex(l) + 1)
                 last == Smaller(Len(l), next + MAX_APPEND_ENTRIES - 1)
                 e == EntriesFrom(l, next, MAX_APPEND_ENTRIES)
      <2>1. /\ x.type = "AppendEntries" /\ x.from = n /\ x.term = currentTerm[n]
            /\ x.prev = next - 1 /\ x.prevTerm = TermAt(l, base[n], next - 1)
            /\ x.entries = e /\ x.commit = c
            BY Zenon, <1>2 DEF SendAppend
      <2>2. /\ next \in Nat \ {0} /\ next - 1 \in 0 .. Len(l)
            /\ base[n] <= next - 1 /\ next <= Len(l) + 1
            BY <1>0, <1>2 DEF Smaller, LastIndex
      <2>   HIDE DEF x, next
      <2>3. /\ last \in Nat /\ last <= Len(l) /\ next - 1 <= last
            /\ last # Len(l) => last = next + MAX_APPEND_ENTRIES - 1
            BY <1>0, <2>2 DEF Smaller
      <2>4. e = SubSeq(l, next, last)
            BY Zenon DEF EntriesFrom
      <2>   HIDE DEF last, e
      <2>5. /\ e \in Seq(Entry) /\ Len(e) = last - next + 1
            /\ \A k \in 1 .. last - next + 1 : e[k] = l[next + k - 1]
            <3>1. \A k \in next .. last : k \in 1 .. Len(l)
                  BY <1>0, <2>2, <2>3
            <3>2. \A k \in next .. last : l[k] \in Entry
                  BY Zenon, <3>1, LogElements
            <3>3. next \in Int /\ last \in Int
                  BY <2>2, <2>3
            <3>4. /\ e \in Seq(Entry)
                  /\ Len(e) = IF next <= last THEN last - next + 1 ELSE 0
                  /\ \A k \in 1 .. last - next + 1 : e[k] = l[next + k - 1]
                  BY <2>4, <3>2, <3>3, LogPart
            <3>5. ~ (next <= last) => last - next + 1 = 0
                  BY <2>2, <2>3
            <3>   QED  BY Zenon, <3>4, <3>5
      <2> DEFINE f == Carried(x)
      <2>6. /\ f.prev = next - 1 /\ f.entries = e
            /\ f.prevTerm = TermAt(l, base[n], next - 1)
            BY <2>1 DEF Carried
      <2>7. TermIn(Whole(l), next - 1) = TermAt(l, base[n], next - 1)
            <3>1. CASE next - 1 = 0
                  <4>1. TermAt(l, base[n], 0) = 0
                        BY <1>0, <2>2, <3>1 DEF TermAt
                  <4>   QED  BY Zenon, <3>1, <4>1, WholeFacts
            <3>2. CASE next - 1 # 0
                  <4>1. next - 1 \in 1 .. Len(l)
                        BY <1>0, <2>2, <3>2
                  <4>   QED  BY ZenonT(30), <1>0, <2>2, <4>1, TermAtEntry, WholeFacts
            <3>   QED  BY Zenon, <3>1, <3>2
      <2>8. f \in Fragment
            <3>1. next - 1 \in Nat /\ next - 1 \in 0 .. Len(l)
                  BY <1>0, <2>2
            <3>2. TermAt(l, base[n], next - 1) \in Nat
                  <4>1. TermAt(l, base[n], next - 1) # NoTerm
                        BY <1>0, <2>2, <3>1, TermAtType
                  <4>   QED  BY Zenon, <1>0, <3>1, <4>1, TermAtType
            <3>3. f = [prev |-> x.prev, prevTerm |-> x.prevTerm,
                       entries |-> x.entries]
                  BY <2>1 DEF Carried
            <3>4. /\ x.prev \in Nat /\ x.prevTerm \in Nat
                  /\ x.entries \in Seq(Entry)
                  BY Zenon, <2>1, <2>5, <3>1, <3>2
            <3>   QED  BY <3>3, <3>4 DEF Fragment
      <2>   HIDE DEF f
      <2>9. LastOf(f) = last
            BY <2>2, <2>3, <2>5, <2>6 DEF LastOf
      <2>10. ASSUME NEW i \in In(f)
             PROVE  EntryIn(f, i) = l[i]
            <3>0. In(f) = f.prev + 1 .. LastOf(f)
                  BY Zenon, <2>8, FragmentFacts
            <3>1. /\ i - (next - 1) \in 1 .. last - next + 1
                  /\ next + (i - (next - 1)) - 1 = i
                  BY <2>2, <2>3, <2>6, <2>9, <3>0
            <3>   QED  BY Zenon, <2>5, <2>6, <3>1 DEF EntryIn
      <2>11. Part(f, Whole(l))
            BY Zenon, <2>3, <2>6, <2>7, <2>8, <2>9, <2>10, SlicePart
      <2>12. Len(x.entries) < MAX_APPEND_ENTRIES => x.prev + Len(x.entries) = Len(l)
            <3>1. /\ x.prev = next - 1 /\ Len(x.entries) = last - next + 1
                  BY Zenon, <2>1, <2>5
            <3>   QED  BY <1>0, <2>2, <2>3, <3>1
      <2>13. x.type # "InstallSnapshot"
            BY <2>1
      <2>14. LeaderMessage(n, l, c, x)
            BY Zenon, <2>1, <2>11, <2>12, <2>13 DEF LeaderMessage, f
      <2>   QED  BY Zenon, <2>14 DEF x
<1>   QED  BY Zenon, <1>1, <1>2

\* Everything broadcast_append sends does the same.
LEMMA BroadcastPart ==
    ASSUME DurableOK, NEW n \in Node, NEW l \in Seq(Entry),
           base[n] <= Len(l), \A i \in 1 .. base[n] : l[i] = log[n][i],
           NEW c, NEW prog \in [Node -> ProgressRecord],
           \A p \in Node : prog[p].next >= 1, NEW context
    PROVE  \A x \in BroadcastAppend(n, l, c, prog, context) :
               LeaderMessage(n, l, c, x)
<1>1. \A p \in Peers(n) :
          LeaderMessage(n, l, c, SendAppend(n, p, l, c, prog[p], context))
      <2>1. TAKE p \in Peers(n)
      <2>2. p \in Node /\ prog[p] \in ProgressRecord
            BY Zenon DEF Peers
      <2>   QED  BY Zenon, <2>2, SendAppendPart
<1>   QED  BY Zenon, <1>1 DEF BroadcastAppend
=============================================================================
