------------------------- MODULE RaftMatchingProofs -------------------------
(***************************************************************************)
(* Logs match: where two logs hold an entry of the same term at the same   *)
(* index, they agree up to it.  The invariant speaks of every fragment of  *)
(* a log that exists anywhere, on a disk or in a message, and ties the     *)
(* entries of a term to the one leader of that term.                       *)
(***************************************************************************)
EXTENDS RaftLemmas

-----------------------------------------------------------------------------
(***************************************************************************)
(* The fragments of a state, and of the next one.                          *)
(***************************************************************************)

\* A message of a leader carries a fragment.
LEMMA LeaderMessageKinds ==
    ASSUME TypeInv, NEW m \in msgs, FromLeader(m)
    PROVE  /\ m \in AppendEntries \/ m \in InstallSnapshot
           /\ Carried(m) \in Fragment
<1>1. m \in AppendEntries \/ m \in InstallSnapshot
      BY Zenon, Delivered, MessageKinds DEF FromLeader
<1>2. CASE m \in AppendEntries
      BY Zenon, <1>2, CarriedAppend
<1>3. CASE m \in InstallSnapshot
      BY Zenon, <1>3, CarriedSnapshot, WholeFacts
<1>   QED  BY Zenon, <1>1, <1>2, <1>3

FragmentsOK ==
    /\ Fragments \subseteq Fragment
    /\ \A n \in Node : Whole(log[n]) \in Fragments
    /\ \A m \in msgs : FromLeader(m) => Carried(m) \in Fragments

LEMMA FragmentsTyped == TypeInv => FragmentsOK
<1>1. ASSUME TypeInv
      PROVE  FragmentsOK
      <2>1. \A n \in Node : Whole(log[n]) \in Fragment
            BY Zenon, <1>1, NodeDurable, WholeFacts DEF TypeInv
      <2>2. \A m \in msgs : FromLeader(m) => Carried(m) \in Fragment
            BY Zenon, <1>1, LeaderMessageKinds
      <2>   QED  BY Zenon, <2>1, <2>2 DEF Fragments, FragmentsOK
<1>   QED  BY Zenon, <1>1

\* So they are in the next state.
LEMMA FragmentsTypedNext == TypeInv' => FragmentsOK'
BY FragmentsTyped, PTL

LEMMA FragmentsType ==
    ASSUME TypeInv
    PROVE  /\ Fragments \subseteq Fragment
           /\ \A n \in Node : Whole(log[n]) \in Fragments
           /\ \A m \in msgs : FromLeader(m) => Carried(m) \in Fragments
BY Zenon, FragmentsTyped DEF FragmentsOK

LEMMA FragmentsTypeNext ==
    ASSUME TypeInv'
    PROVE  /\ Fragments' \subseteq Fragment
           /\ \A n \in Node : Whole(log'[n]) \in Fragments'
           /\ \A m \in msgs' : FromLeader(m) => Carried(m) \in Fragments'
BY Zenon, FragmentsTypedNext DEF FragmentsOK

\* What a step adds comes from the log that it leaves at n.
LEMMA FragmentsStep ==
    ASSUME NEW n \in Node,
           \/ Quiet(n) \/ Leading(n) \/ Appending(n)
           \/ \E m \in msgs : Following(n, m)
    PROVE  \A f \in Fragments' : f \in Fragments \/ Part(f, Whole(log'[n]))
<1>1. \A k \in Node : k # n => log'[k] = log[k]
      BY Zenon DEF Quiet, Leading, Appending, Following, Others
<1>2. \A x \in msgs' : \/ x \in msgs \/ ~ FromLeader(x)
                       \/ Part(Carried(x), Whole(log'[n]))
      <2>1. \A x \in msgs' :
                \/ x \in msgs \/ Plain(x) \/ Asking(n, x)
                \/ (\E c : LeaderMessage(n, log'[n], c, x))
                \/ (\E m : Acking(n, m, x))
            BY Zenon DEF Quiet, Leading, Appending, Following
      <2>2. \A x : Asking(n, x) => ~ FromLeader(x)
            BY DEF Asking, FromLeader
      <2>   QED  BY Zenon, <2>1, <2>2 DEF Plain, Acking, LeaderMessage
<1>3. TAKE f \in Fragments'
<1>4. CASE \E k \in Node : f = Whole(log'[k])
      <2>1. PICK k \in Node : f = Whole(log'[k])
            BY Zenon, <1>4
      <2>2. CASE k = n
            BY Zenon, <2>1, <2>2, PartReflexive
      <2>3. CASE k # n
            BY Zenon, <1>1, <2>1, <2>3 DEF Fragments
      <2>   QED  BY Zenon, <2>2, <2>3
<1>5. CASE \E x \in msgs' : FromLeader(x) /\ f = Carried(x)
      BY Zenon, <1>2, <1>5 DEF Fragments
<1>   QED  BY Zenon, <1>4, <1>5 DEF Fragments

\* The log that n is left with comes from fragments that exist, and ends in an
\* entry of the term that n leads if it is new.
LEMMA CoherenceStep ==
    ASSUME TypeInv, TypeInv', Coherence, NEW n \in Node,
           Coherent(Whole(log'[n]), Whole(log'[n])),
           \A g \in Fragments : Match(Whole(log'[n]), g),
           \A f \in Fragments' : f \in Fragments \/ Part(f, Whole(log'[n]))
    PROVE  Coherence'
<1> DEFINE h == Whole(log'[n])
<1>1. h \in Fragment /\ Fragments \subseteq Fragment /\ Fragments' \subseteq Fragment
      <2>1. h \in Fragments' /\ Fragments' \subseteq Fragment
            BY Zenon, FragmentsTypeNext
      <2>   QED  BY Zenon, <2>1, FragmentsType
<1>   HIDE DEF h
<1>2. SUFFICES ASSUME NEW f \in Fragments', NEW g \in Fragments'
               PROVE  Coherent(f, g)
      BY Zenon DEF Coherence
<1>3. f \in Fragment /\ g \in Fragment
      BY Zenon, <1>1
<1>4. CASE f \in Fragments /\ g \in Fragments
      BY Zenon, <1>4 DEF Coherence
<1>5. CASE f \in Fragments /\ Part(g, h)
      <2>1. Coherent(f, h)
            BY Zenon, <1>5 DEF Match, h
      <2>   QED  BY Zenon, <1>1, <1>3, <1>5, <2>1, PartCoherent
<1>6. CASE Part(f, h) /\ g \in Fragments
      <2>1. Coherent(h, g)
            BY Zenon, <1>6 DEF Match, h
      <2>   QED  BY Zenon, <1>1, <1>3, <1>6, <2>1, PartCoherent
<1>7. CASE Part(f, h) /\ Part(g, h)
      <2>1. Coherent(h, h)
            BY Zenon DEF h
      <2>2. Coherent(f, h)
            BY Zenon, <1>1, <1>3, <1>7, <2>1, PartCoherent
      <2>   QED  BY Zenon, <1>1, <1>3, <1>7, <2>2, PartCoherent
<1>   QED  BY Zenon, <1>4, <1>5, <1>6, <1>7 DEF h

\* What on_append_entries and on_install_snapshot make of a log.
LEMMA FollowingLog ==
    ASSUME NaturalsWellOrdered, TypeInv, Coherence, NEW n \in Node,
           NEW m \in msgs, Following(n, m)
    PROVE  /\ log'[n] \in Seq(Entry)
           /\ Took(log'[n], log[n], Carried(m))
           /\ \/ Part(Carried(m), Whole(log'[n]))
              \/ /\ m \in InstallSnapshot /\ log'[n] = log[n]
                 /\ Len(m.snapshot) <= commitIndex[n]
                 /\ commitIndex'[n] = commitIndex[n]
<1>1. /\ log[n] \in Seq(Entry) /\ base[n] \in Nat /\ commitIndex[n] \in Nat
      BY Zenon, NodeDurable DEF TypeInv
<1>2. Coherent(Carried(m), Whole(log[n]))
      BY Zenon, FragmentsType DEF Coherence, Following
<1>3. CASE TakesAppend(n, m)
      <2> DEFINE k == MergedLog(log[n], base[n], m)
      <2>1. /\ m \in AppendEntries /\ AcceptsAppend(log[n], base[n], m)
            /\ log'[n] = k
            BY Zenon, <1>3 DEF TakesAppend
      <2>2. /\ k \in Seq(Entry) /\ Took(k, log[n], Carried(m))
            /\ Part(Carried(m), Whole(k))
            BY Zenon, <1>1, <1>2, <2>1, MergedShape
      <2>   HIDE DEF k
      <2>   QED  BY Zenon, <2>1, <2>2
<1>4. CASE /\ m \in InstallSnapshot /\ Len(m.snapshot) <= commitIndex[n]
           /\ log'[n] = log[n] /\ commitIndex'[n] = commitIndex[n]
      BY Zenon, <1>1, <1>4 DEF Took
<1>5. CASE /\ m \in InstallSnapshot /\ Len(m.snapshot) > commitIndex[n]
           /\ log'[n] = InstalledLog(log[n], base[n], m.snapshot)
      <2> DEFINE k == InstalledLog(log[n], base[n], m.snapshot)
      <2>1. Carried(m) = Whole(m.snapshot) /\ m.snapshot \in Seq(Entry)
            BY Zenon, <1>5, CarriedSnapshot
      <2>2. Len(m.snapshot) >= 1 /\ base[n] <= Len(m.snapshot)
        <3>1. Len(m.snapshot) \in Nat /\ base[n] <= commitIndex[n]
              BY Zenon, <2>1, EntryTerms, NodeDurable DEF TypeInv
        <3>   QED  BY <1>1, <1>5, <3>1
      <2>3. /\ k \in Seq(Entry) /\ Took(k, log[n], Whole(m.snapshot))
            /\ Part(Whole(m.snapshot), Whole(k))
            BY Zenon, <1>1, <1>2, <2>1, <2>2, InstalledShape
      <2>   HIDE DEF k
      <2>4. log'[n] = k
            BY Zenon, <1>5 DEF k
      <2>   QED  BY Zenon, <2>1, <2>3, <2>4
<1>   QED  BY Zenon, <1>3, <1>4, <1>5 DEF Following, TakesSnapshot

\* The log of a follower agrees with whatever exists, and holds nothing new.
LEMMA FollowingHeld ==
    ASSUME NaturalsWellOrdered, TypeInv, Coherence, NEW n \in Node,
           NEW m \in msgs, Following(n, m)
    PROVE  /\ \A g \in Fragments : Match(Whole(log'[n]), g)
           /\ \A i \in In(Whole(log'[n])) : \E f \in Fragments :
                  i \in In(f) /\ EntryIn(f, i) = EntryIn(Whole(log'[n]), i)
<1> DEFINE k == log'[n]
           l == log[n]
           M == Carried(m)
<1>1. /\ k \in Seq(Entry)
      /\ k = l \/ Joined(k, l, M)
      BY Zenon, FollowingLog DEF Took
<1>2. /\ M \in Fragments /\ Whole(l) \in Fragments /\ Fragments \subseteq Fragment
      /\ M \in Fragment /\ l \in Seq(Entry)
      BY Zenon, FragmentsType, NodeDurable DEF Following, TypeInv
<1>   HIDE DEF k, l, M
<1>3. ASSUME NEW g \in Fragments
      PROVE  Match(Whole(l), g) /\ Match(M, g)
      BY Zenon, <1>2 DEF Coherence, Match
<1>4. CASE k = l
      BY Zenon, <1>2, <1>3, <1>4 DEF k
<1>5. CASE Joined(k, l, M)
      <2>1. \A g \in Fragments : Match(Whole(k), g)
            BY Zenon, <1>1, <1>2, <1>3, <1>5, JoinedCoherent
      <2>2. Pieced(Whole(k), Whole(l), M, M.prev)
            BY Zenon, <1>1, <1>2, <1>5, JoinedFacts
      <2>3. ASSUME NEW i \in In(Whole(k))
            PROVE  \E f \in Fragments :
                       i \in In(f) /\ EntryIn(f, i) = EntryIn(Whole(k), i)
            <3>1. i \in Nat /\ M.prev \in Nat
                  BY Zenon, <1>1, <1>2, <2>3, WholeFacts, FragmentFacts
            <3>2. i <= M.prev \/ M.prev < i
                  BY <3>1
            <3>   QED  BY Zenon, <1>2, <2>2, <2>3, <3>2 DEF Pieced
      <2>   QED  BY Zenon, <2>1, <2>3 DEF k
<1>   QED  BY Zenon, <1>1, <1>4, <1>5

\* Before a candidate wins, nothing of its term exists.
LEMMA WinningFresh ==
    ASSUME Settled', MatchInv, NEW n \in Node, Winning(n), NEW g \in Fragments,
           NEW i \in In(g)
    PROVE  TermIn(g, i) # currentTerm[n]
<1>1. SUFFICES ASSUME TermIn(g, i) = currentTerm[n]
               PROVE  FALSE
      BY Zenon
<1>2. PICK p \in Node : Leads(p, currentTerm[n])
      BY Zenon, <1>1 DEF MatchInv, EntriesLed
<1>3. Leads(p, currentTerm[n])' /\ Leads(n, currentTerm[n])'
      <2>1. /\ leaderships' = leaderships \cup
                   {[node |-> n, term |-> currentTerm[n]]}
            /\ currentTerm'[n] = currentTerm[n]
            BY Zenon DEF Winning, Appending
      <2>   QED  BY Zenon, <1>2, <2>1 DEF Leads
<1>4. p = n
      <2>1. [node |-> p, term |-> currentTerm'[n]] \in leaderships'
            BY Zenon, <1>3 DEF Leads
      <2>2. [node |-> n, term |-> currentTerm'[n]] \in leaderships'
            BY Zenon, <1>3 DEF Leads
      <2>   QED  BY <2>1, <2>2 DEF Settled, ElectionSafety
<1>5. ~ Leads(n, currentTerm[n])
      BY Zenon DEF MatchInv, CandidateNew, Winning
<1>   QED  BY Zenon, <1>2, <1>4, <1>5

\* Before a node appends, nothing of its term exists that it does not hold.
LEMMA AppendingOwn ==
    ASSUME Settled, Settled', MatchInv, NEW n \in Node,
           Proposing(n) \/ Winning(n)
    PROVE  \A g \in Fragments : \A i \in In(g) :
               TermIn(g, i) = currentTerm[n] =>
                   /\ i \in In(Whole(log[n]))
                   /\ TermIn(Whole(log[n]), i) = currentTerm[n]
<1>1. CASE Proposing(n)
      BY Zenon, <1>1 DEF MatchInv, LeaderOwn, Proposing
<1>2. CASE Winning(n)
      BY Zenon, <1>2, WinningFresh
<1>   QED  BY Zenon, <1>1, <1>2

\* The log of a node that appends agrees with whatever exists.
LEMMA AppendingHeld ==
    ASSUME NaturalsWellOrdered, Settled, Settled', MatchInv, NEW n \in Node,
           Proposing(n) \/ Winning(n)
    PROVE  /\ \A g \in Fragments : Match(Whole(log'[n]), g)
           /\ \A i \in In(Whole(log'[n])) :
                  \/ /\ i \in In(Whole(log[n]))
                     /\ EntryIn(Whole(log'[n]), i) = EntryIn(Whole(log[n]), i)
                  \/ EntryIn(Whole(log'[n]), i).term = currentTerm[n]
<1>1. PICK e \in Entry : e.term = currentTerm[n] /\ log'[n] = Append(log[n], e)
      BY Zenon DEF Proposing, Winning, Appending
<1>2. /\ log[n] \in Seq(Entry) /\ Len(log[n]) \in Nat /\ Sorted(log'[n])
      /\ Whole(log[n]) \in Fragments /\ Fragments \subseteq Fragment
      <2>1. Sorted(log'[n])
            BY Zenon DEF Settled, TypeInv, DurableOK, DurableStateRecoverable
      <2>   QED  BY Zenon, <2>1, NodeDurable, FragmentsType DEF Settled, TypeInv
<1> DEFINE l == Append(log[n], e)
<1>3. /\ l \in Seq(Entry) /\ Len(l) = Len(log[n]) + 1
      /\ \A i \in 1 .. Len(log[n]) : l[i] = log[n][i]
      /\ l[Len(log[n]) + 1] = e
      BY Zenon, <1>2, LogAppend
<1>4. ASSUME NEW g \in Fragments
      PROVE  Match(Whole(l), g)
      <2>1. \A i \in In(g) : TermIn(g, i) = e.term =>
                i \in In(Whole(log[n])) /\ TermIn(Whole(log[n]), i) = e.term
            BY Zenon, <1>1, AppendingOwn
      <2>2. Match(Whole(log[n]), g)
            BY Zenon, <1>2 DEF MatchInv, Coherence, Match
      <2>3. Sorted(Append(log[n], e))
            BY Zenon, <1>1, <1>2
      <2>   QED  BY Zenon, <1>2, <2>1, <2>2, <2>3, AppendCoherent
<1>5. ASSUME NEW i \in In(Whole(l))
      PROVE  \/ /\ i \in In(Whole(log[n]))
                /\ EntryIn(Whole(l), i) = EntryIn(Whole(log[n]), i)
             \/ EntryIn(Whole(l), i).term = currentTerm[n]
      <2>   HIDE DEF l
      <2>1. /\ In(Whole(l)) = 1 .. Len(l) /\ In(Whole(log[n])) = 1 .. Len(log[n])
            /\ \A j \in 1 .. Len(l) : EntryIn(Whole(l), j) = l[j]
            /\ \A j \in 1 .. Len(log[n]) : EntryIn(Whole(log[n]), j) = log[n][j]
            BY Zenon, <1>2, <1>3, WholeFacts
      <2>2. i \in 1 .. Len(log[n]) \/ i = Len(log[n]) + 1
            BY <1>2, <1>3, <1>5, <2>1
      <2>   QED  BY Zenon, <1>1, <1>3, <1>5, <2>1, <2>2
<1>6. log'[n] = l
      BY Zenon, <1>1
<1>   HIDE DEF l
<1>   QED  BY Zenon, <1>4, <1>5, <1>6

-----------------------------------------------------------------------------
(***************************************************************************)
(* Each conjunct of the invariant, for every kind of step.                 *)
(***************************************************************************)

\* Whatever exists after the step existed before it, or is of the term of n
\* and n leads it.
LEMMA EntriesStep ==
    ASSUME NaturalsWellOrdered, Settled, Settled', MatchInv, NEW n \in Node,
           Step(n)
    PROVE  /\ Coherence'
           /\ \A f \in Fragments' : \A i \in In(f) :
                  \/ \E g \in Fragments : /\ i \in In(g)
                                          /\ EntryIn(g, i) = EntryIn(f, i)
                                          /\ TermIn(g, i) = TermIn(f, i)
                  \/ /\ Proposing(n) \/ Winning(n)
                     /\ TermIn(f, i) = currentTerm[n]
                     /\ Part(f, Whole(log'[n]))
<1> DEFINE h == Whole(log'[n])
<1>1. /\ TypeInv /\ TypeInv' /\ Coherence
      /\ Fragments \subseteq Fragment /\ Fragments' \subseteq Fragment
      /\ Whole(log[n]) \in Fragments /\ h \in Fragments'
      BY Zenon, FragmentsType, FragmentsTypeNext DEF Settled, MatchInv
<1>2. \A f \in Fragments' : f \in Fragments \/ Part(f, h)
      BY Zenon, FragmentsStep DEF Step, Proposing, Winning
<1>3. Coherent(h, h)
      <2>1. log'[n] \in Seq(Entry) /\ Sorted(log'[n])
            BY Zenon, <1>1 DEF TypeInv, DurableOK, DurableStateRecoverable
      <2>   QED  BY Zenon, <2>1, SortedCoherent
<1>   HIDE DEF h
<1>4. /\ \A g \in Fragments : Match(h, g)
      /\ \A i \in In(h) :
             \/ \E g \in Fragments : i \in In(g) /\ EntryIn(g, i) = EntryIn(h, i)
             \/ /\ Proposing(n) \/ Winning(n)
                /\ EntryIn(h, i).term = currentTerm[n]
      <2>1. CASE Quiet(n) \/ Leading(n)
            <3>1. h = Whole(log[n])
                  BY Zenon, <2>1 DEF Quiet, Leading, h
            <3>   QED  BY Zenon, <1>1, <3>1 DEF Coherence, Match
      <2>2. CASE Proposing(n) \/ Winning(n)
            BY Zenon, <1>1, <2>2, AppendingHeld DEF h
      <2>3. CASE \E m \in msgs : Following(n, m)
            BY Zenon, <1>1, <2>3, FollowingHeld DEF h
      <2>   QED  BY Zenon, <2>1, <2>2, <2>3 DEF Step
<1>5. Coherence'
      BY Zenon, <1>1, <1>2, <1>3, <1>4, CoherenceStep DEF h
<1>6. ASSUME NEW f \in Fragments', NEW i \in In(f)
      PROVE  \/ \E g \in Fragments : /\ i \in In(g)
                                     /\ EntryIn(g, i) = EntryIn(f, i)
                                     /\ TermIn(g, i) = TermIn(f, i)
             \/ /\ Proposing(n) \/ Winning(n)
                /\ TermIn(f, i) = currentTerm[n]
                /\ Part(f, h)
      <2>1. f \in Fragment /\ TermIn(f, i) = EntryIn(f, i).term
            BY Zenon, <1>1, <1>6, FragmentFacts
      <2>2. \A g \in Fragments : i \in In(g) => TermIn(g, i) = EntryIn(g, i).term
            BY Zenon, <1>1, FragmentFacts
      <2>3. CASE f \in Fragments
            BY Zenon, <1>6, <2>3
      <2>4. CASE Part(f, h)
            <3>1. i \in In(h) /\ EntryIn(f, i) = EntryIn(h, i)
                  BY Zenon, <1>6, <2>4 DEF Part
            <3>2. CASE \E g \in Fragments :
                           i \in In(g) /\ EntryIn(g, i) = EntryIn(h, i)
                  BY Zenon, <2>1, <2>2, <3>1, <3>2
            <3>3. CASE /\ Proposing(n) \/ Winning(n)
                       /\ EntryIn(h, i).term = currentTerm[n]
                  BY Zenon, <2>1, <2>4, <3>1, <3>3
            <3>   QED  BY Zenon, <1>4, <3>1, <3>2, <3>3
      <2>   QED  BY Zenon, <1>2, <2>3, <2>4
<1>   QED  BY Zenon, <1>5, <1>6 DEF h

\* A node that leads after the step led before it, in the same term and with
\* the same log, unless it appends.
LEMMA LeadersKept ==
    ASSUME NEW n \in Node, Step(n), NEW k \in Node, role'[k] = "Leader"
    PROVE  \/ /\ role[k] = "Leader" /\ currentTerm'[k] = currentTerm[k]
              /\ log'[k] = log[k]
           \/ k = n /\ (Proposing(n) \/ Winning(n))
<1>1. CASE k # n
      BY Zenon, <1>1 DEF Step, Quiet, Leading, Proposing, Winning, Appending,
                         Following, Others
<1>2. CASE k = n
      <2>1. CASE Quiet(n)
            BY Zenon, <1>2, <2>1 DEF Quiet
      <2>2. CASE Leading(n)
            BY Zenon, <1>2, <2>2 DEF Leading
      <2>3. CASE \E m \in msgs : Following(n, m)
            <3>1. role'[n] = "Follower"
                  BY Zenon, <2>3 DEF Following
            <3>   QED  BY <1>2, <3>1
      <2>   QED  BY Zenon, <1>2, <2>1, <2>2, <2>3 DEF Step
<1>   QED  BY Zenon, <1>1, <1>2

\* Terms grow, ballots and leaderships are never forgotten, and a leader is
\* on record.
LEMMA StepHistory ==
    ASSUME Settled, Settled', NEW n \in Node, Step(n)
    PROVE  /\ \A k \in Node : currentTerm[k] <= currentTerm'[k]
           /\ \A k \in Node : currentTerm[k] \in Nat /\ currentTerm'[k] \in Nat
           /\ leaderships \subseteq leaderships' /\ ballots \subseteq ballots'
           /\ \A k \in Node : role'[k] = "Leader" => Leads(k, currentTerm[k])'
<1>1. \A k \in Node : currentTerm[k] \in Nat /\ currentTerm'[k] \in Nat
      BY Zenon DEF Settled, TypeInv, DurableOK
<1>2. /\ currentTerm[n] <= currentTerm'[n]
      /\ \A k \in Node : k # n => currentTerm'[k] = currentTerm[k]
      <2>1. currentTerm[n] <= currentTerm[n]
            BY <1>1
      <2>   QED  BY Zenon, <2>1 DEF Step, Quiet, Leading, Proposing, Winning,
                                    Appending, Following, Others
<1>3. \A k \in Node : currentTerm[k] <= currentTerm'[k]
      BY <1>1, <1>2
<1>4. leaderships \subseteq leaderships' /\ ballots \subseteq ballots'
      BY Zenon DEF Step, Quiet, Leading, Proposing, Winning, Appending,
                   Following
<1>5. \A k \in Node : role'[k] = "Leader" => Leads(k, currentTerm[k])'
      BY Zenon DEF Settled, ElectionInv, RoleBacked
<1>   QED  BY Zenon, <1>1, <1>3, <1>4, <1>5

LEMMA LeaderOwnStep ==
    ASSUME NaturalsWellOrdered, Settled, Settled', MatchInv, NEW n \in Node,
           Step(n)
    PROVE  LeaderOwn' /\ EntriesLed'
<1>1. \A f \in Fragments' : \A i \in In(f) :
          \/ \E g \in Fragments : /\ i \in In(g)
                                  /\ EntryIn(g, i) = EntryIn(f, i)
                                  /\ TermIn(g, i) = TermIn(f, i)
          \/ /\ Proposing(n) \/ Winning(n)
             /\ TermIn(f, i) = currentTerm[n]
             /\ Part(f, Whole(log'[n]))
      BY Zenon, EntriesStep
<1>2. EntriesLed'
      <2>1. SUFFICES ASSUME NEW f \in Fragments', NEW i \in In(f)
                     PROVE  \E k \in Node : Leads(k, TermIn(f, i))'
            BY Zenon DEF EntriesLed
      <2>2. CASE \E g \in Fragments : i \in In(g) /\ TermIn(g, i) = TermIn(f, i)
            BY Zenon, <2>2, StepHistory DEF MatchInv, EntriesLed, Leads
      <2>3. CASE (Proposing(n) \/ Winning(n)) /\ TermIn(f, i) = currentTerm[n]
            <3>1. role'[n] = "Leader" /\ currentTerm'[n] = currentTerm[n]
                  BY Zenon, <2>3 DEF Proposing, Winning, Appending
            <3>   QED  BY Zenon, <2>3, <3>1, StepHistory DEF Leads
      <2>   QED  BY Zenon, <1>1, <2>1, <2>2, <2>3
<1>3. ASSUME NEW k \in Node, role'[k] = "Leader", NEW f \in Fragments',
             NEW i \in In(f), TermIn(f, i) = currentTerm'[k]
      PROVE  /\ i \in In(Whole(log'[k]))
             /\ TermIn(Whole(log'[k]), i) = currentTerm'[k]
      <2> DEFINE L == Whole(log'[k])
      <2>1. CASE k = n /\ (Proposing(n) \/ Winning(n))
            <3>1. currentTerm'[k] = currentTerm[k]
                  BY Zenon, <2>1 DEF Proposing, Winning, Appending
            <3>2. CASE Part(f, Whole(log'[n]))
                  <4>1. i \in Known(f)
                        BY Zenon, <1>3, FragmentsTypeNext, FragmentFacts
                           DEF Settled
                  <4>   QED  BY Zenon, <1>3, <2>1, <3>2, <4>1 DEF Part
            <3>3. CASE \E g \in Fragments : /\ i \in In(g)
                                            /\ TermIn(g, i) = TermIn(f, i)
                  <4>1. /\ i \in In(Whole(log[n]))
                        /\ TermIn(Whole(log[n]), i) = currentTerm[n]
                        BY Zenon, <1>3, <2>1, <3>1, <3>3, AppendingOwn
                  <4>2. Part(Whole(log[n]), Whole(log'[n]))
                        <5>1. PICK e \in Entry : log'[n] = Append(log[n], e)
                              BY Zenon, <2>1 DEF Proposing, Winning, Appending
                        <5>2. log[n] \in Seq(Entry) /\ Len(log[n]) \in Nat
                              BY Zenon, NodeDurable DEF Settled, TypeInv
                        <5>3. /\ log'[n] \in Seq(Entry)
                              /\ Len(log'[n]) = Len(log[n]) + 1
                              /\ \A j \in 1 .. Len(log[n]) : log[n][j] = log'[n][j]
                              BY <5>1, <5>2, LogAppend
                        <5>4. Len(log[n]) <= Len(log'[n])
                              BY <5>2, <5>3
                        <5>   QED  BY Zenon, <5>2, <5>3, <5>4, PrefixPart
                  <4>3. i \in Known(Whole(log[n]))
                        BY Zenon, <4>1, NodeDurable, WholeFacts, FragmentFacts
                           DEF Settled, TypeInv
                  <4>   QED  BY Zenon, <2>1, <3>1, <4>1, <4>2, <4>3 DEF Part
            <3>   QED  BY Zenon, <1>1, <1>3, <3>2, <3>3
      <2>2. CASE /\ role[k] = "Leader" /\ currentTerm'[k] = currentTerm[k]
                 /\ log'[k] = log[k] /\ ~ (k = n /\ (Proposing(n) \/ Winning(n)))
            <3>1. CASE \E g \in Fragments : /\ i \in In(g)
                                            /\ TermIn(g, i) = TermIn(f, i)
                  BY Zenon, <1>3, <2>2, <3>1 DEF MatchInv, LeaderOwn
            <3>2. CASE /\ Proposing(n) \/ Winning(n)
                       /\ TermIn(f, i) = currentTerm[n]
                  <4>1. /\ role'[n] = "Leader" /\ currentTerm'[n] = currentTerm[n]
                        /\ currentTerm'[k] = currentTerm'[n]
                        BY Zenon, <1>3, <3>2 DEF Proposing, Winning, Appending
                  <4>2. Leads(k, currentTerm[n])' /\ Leads(n, currentTerm[n])'
                        BY Zenon, <1>3, <4>1, StepHistory
                  <4>3. /\ [node |-> k, term |-> currentTerm'[n]] \in leaderships'
                        /\ [node |-> n, term |-> currentTerm'[n]] \in leaderships'
                        BY Zenon, <4>2 DEF Leads
                  <4>4. k = n
                        BY <4>3 DEF Settled, ElectionSafety
                  <4>   QED  BY Zenon, <2>2, <3>2, <4>4
            <3>   QED  BY Zenon, <1>1, <1>3, <3>1, <3>2
      <2>   QED  BY Zenon, <1>3, <2>1, <2>2, LeadersKept
<1>4. LeaderOwn'
      BY Zenon, <1>3 DEF LeaderOwn
<1>   QED  BY Zenon, <1>2, <1>4

\* A node that is a candidate after the step was one before it in the same
\* term and with the same log, or has just started to be one.
LEMMA CandidatesKept ==
    ASSUME NEW n \in Node, Step(n), NEW k \in Node, role'[k] = "Candidate"
    PROVE  /\ log'[k] = log[k]
           /\ \/ role[k] = "Candidate" /\ currentTerm'[k] = currentTerm[k]
              \/ k = n /\ Quiet(n) /\ currentTerm[k] < currentTerm'[k]
<1>1. CASE k # n
      BY Zenon, <1>1 DEF Step, Quiet, Leading, Proposing, Winning, Appending,
                         Following, Others
<1>2. CASE k = n /\ Quiet(n)
      BY Zenon, <1>2 DEF Quiet
<1>3. CASE k = n /\ ~ Quiet(n)
      <2>1. role'[n] \in {"Leader", "Follower"}
            BY Zenon, <1>3 DEF Step, Leading, Proposing, Winning, Appending,
                               Following
      <2>   QED  BY <1>3, <2>1
<1>   QED  BY Zenon, <1>1, <1>2, <1>3

\* The requests for votes that a step sends, and the votes that it casts.
LEMMA VotesCast ==
    ASSUME NEW n \in Node, Step(n)
    PROVE  /\ \A x \in msgs' : x.type = "RequestVote" =>
                  x \in msgs \/ (Quiet(n) /\ Asking(n, x))
           /\ \A b \in ballots' : b \in ballots \/ (Quiet(n) /\ Voting(n, b))
<1>1. ASSUME NEW x \in msgs', x.type = "RequestVote"
      PROVE  x \in msgs \/ (Quiet(n) /\ Asking(n, x))
      <2>1. ~ FromLeader(x) /\ ~ IsAck(x)
            BY <1>1 DEF FromLeader, IsAck
      <2>2. ~ Plain(x) /\ \A m : ~ Acking(n, m, x)
            BY Zenon, <1>1, <2>1 DEF Plain, Acking
      <2>3. \A l, c : ~ LeaderMessage(n, l, c, x)
            BY Zenon, <2>1 DEF LeaderMessage, FromLeader
      <2>   QED  BY Zenon, <1>1, <2>2, <2>3
                    DEF Step, Quiet, Leading, Proposing, Winning, Appending,
                        Following
<1>2. \A b \in ballots' : b \in ballots \/ (Quiet(n) /\ Voting(n, b))
      BY Zenon DEF Step, Quiet, Leading, Proposing, Winning, Appending,
                   Following
<1>   QED  BY Zenon, <1>1, <1>2

LEMMA VotesSentStep ==
    ASSUME Settled, Settled', MatchInv, NEW n \in Node, Step(n)
    PROVE  VotesSent'
<1>1. /\ \A k \in Node : currentTerm[k] <= currentTerm'[k]
      /\ \A k \in Node : currentTerm[k] \in Nat /\ currentTerm'[k] \in Nat
      BY Zenon, StepHistory
<1>2. ASSUME NEW m \in msgs', m.type = "RequestVote"
      PROVE  /\ m.term <= currentTerm'[m.from]
             /\ role'[m.from] = "Candidate" /\ currentTerm'[m.from] = m.term =>
                    /\ m.lastIndex = Len(log'[m.from])
                    /\ m.lastTerm = LastTerm(log'[m.from])
      <2>1. m.from \in Node /\ m.term \in Nat
            BY Zenon, <1>2, MessageEnds DEF Settled, TypeInv, MessagesOK,
                                            WellFormed
      <2>2. CASE m \in msgs
            <3>1. /\ m.term <= currentTerm[m.from]
                  /\ role[m.from] = "Candidate" /\ currentTerm[m.from] = m.term =>
                         /\ m.lastIndex = Len(log[m.from])
                         /\ m.lastTerm = LastTerm(log[m.from])
                  BY Zenon, <1>2, <2>2 DEF MatchInv, VotesSent
            <3>2. m.term <= currentTerm'[m.from]
                  BY <1>1, <2>1, <3>1
            <3>3. ASSUME role'[m.from] = "Candidate", currentTerm'[m.from] = m.term
                  PROVE  /\ m.lastIndex = Len(log'[m.from])
                         /\ m.lastTerm = LastTerm(log'[m.from])
                  <4>1. ~ (currentTerm[m.from] < currentTerm'[m.from])
                        BY <1>1, <2>1, <3>1, <3>3
                  <4>2. /\ role[m.from] = "Candidate"
                        /\ currentTerm'[m.from] = currentTerm[m.from]
                        /\ log'[m.from] = log[m.from]
                        BY Zenon, <2>1, <3>3, <4>1, CandidatesKept
                  <4>   QED  BY Zenon, <3>1, <3>3, <4>2
            <3>   QED  BY Zenon, <3>2, <3>3
      <2>3. CASE Quiet(n) /\ Asking(n, m)
            <3>1. /\ m.from = n /\ m.term = currentTerm'[n] /\ log'[n] = log[n]
                  /\ m.lastIndex = Len(log[n]) /\ m.lastTerm = LastTerm(log[n])
                  BY Zenon, <2>3 DEF Quiet, Asking
            <3>2. m.term <= currentTerm'[n]
                  BY <2>1, <3>1
            <3>   QED  BY Zenon, <3>1, <3>2
      <2>   QED  BY Zenon, <1>2, <2>2, <2>3, VotesCast
<1>3. ASSUME NEW b \in ballots'
      PROVE  b.term <= currentTerm'[b.candidate]
      <2>1. b.candidate \in Node /\ b.term \in Nat
            BY Zenon, <1>3 DEF Settled, TypeInv, HistoryOK
      <2>2. CASE b \in ballots
            <3>1. b.term <= currentTerm[b.candidate]
                  BY Zenon, <2>2 DEF MatchInv, VotesSent
            <3>   QED  BY <1>1, <2>1, <3>1
      <2>3. CASE b.candidate = n /\ b.term = currentTerm'[n]
            BY <1>1, <2>3
      <2>4. CASE \E m \in msgs : /\ m.type = "RequestVote"
                                 /\ m.from = b.candidate /\ m.term = b.term
            <3>1. b.term <= currentTerm[b.candidate]
                  BY Zenon, <2>4 DEF MatchInv, VotesSent
            <3>   QED  BY <1>1, <2>1, <3>1
      <2>   QED  BY Zenon, <1>3, <2>2, <2>3, <2>4, VotesCast DEF Voting
<1>   QED  BY Zenon, <1>2, <1>3 DEF VotesSent

LEMMA CandidateNewStep ==
    ASSUME QuorumsMeet, Settled, Settled', MatchInv, NEW n \in Node, Step(n)
    PROVE  CandidateNew'
<1>1. SUFFICES ASSUME NEW k \in Node, role'[k] = "Candidate",
                      Leads(k, currentTerm[k])'
               PROVE  FALSE
      BY Zenon DEF CandidateNew
<1>2. Leads(k, currentTerm'[k])
      <2>1. [node |-> k, term |-> currentTerm'[k]] \in leaderships'
            BY Zenon, <1>1 DEF Leads
      <2>2. CASE leaderships' = leaderships
            BY Zenon, <2>1, <2>2 DEF Leads
      <2>3. CASE Winning(n)
            <3>1. role'[n] = "Leader" /\ currentTerm'[n] = currentTerm[n]
                  BY Zenon, <2>3 DEF Winning, Appending
            <3>2. k # n
                  BY <1>1, <3>1
            <3>3. [node |-> k, term |-> currentTerm'[k]]
                      # [node |-> n, term |-> currentTerm[n]]
                  BY <3>2
            <3>   QED  BY Zenon, <2>1, <2>3, <3>3 DEF Winning, Leads
      <2>   QED  BY Zenon, <2>2, <2>3 DEF Step, Quiet, Leading, Proposing,
                                         Following
<1>3. CASE role[k] = "Candidate" /\ currentTerm'[k] = currentTerm[k]
      BY Zenon, <1>2, <1>3 DEF MatchInv, CandidateNew
<1>4. CASE currentTerm[k] < currentTerm'[k]
      <2> DEFINE a == [node |-> k, term |-> currentTerm'[k]]
      <2>1. a \in leaderships /\ a.node = k /\ a.term = currentTerm'[k]
            BY Zenon, <1>2 DEF Leads
      <2>   HIDE DEF a
      <2>2. PICK Q \in SUBSET Node :
                /\ IsQuorum(Q)
                /\ \A v \in Q : Ballot(v, a.node, a.term) \in ballots
            BY Zenon, <2>1 DEF Settled, ElectionInv, LeadershipsOK
      <2>3. PICK v \in Q : v \in Q
            BY Zenon, <2>2 DEF QuorumsMeet
      <2>4. Ballot(v, k, currentTerm'[k]) \in ballots
            BY Zenon, <2>1, <2>2, <2>3
      <2>5. currentTerm'[k] <= currentTerm[k]
            <3> DEFINE b == Ballot(v, k, currentTerm'[k])
            <3>1. b.candidate = k /\ b.term = currentTerm'[k]
                  BY Zenon DEF Ballot
            <3>   HIDE DEF b
            <3>   QED  BY Zenon, <2>4, <3>1 DEF MatchInv, VotesSent, b
      <2>   QED  BY <1>4, <2>5, StepHistory
<1>   QED  BY Zenon, <1>1, <1>3, <1>4, CandidatesKept

-----------------------------------------------------------------------------
\* MatchInv holds at the start, and every step keeps it.
LEMMA InitMatch ==
    ASSUME Init
    PROVE  MatchInv
<1>1. /\ \A n \in Node : log[n] = << >> /\ role[n] = "Follower"
      /\ msgs = {} /\ ballots = {}
      BY Zenon DEF Init
<1>2. << >> \in Seq(Entry) /\ Len(<< >>) = 0
      OBVIOUS
<1>3. \A f \in Fragments : f = Whole(<< >>)
      BY Zenon, <1>1 DEF Fragments
<1>4. In(Whole(<< >>)) = {}
      <2>1. In(Whole(<< >>)) = 1 .. 0
            BY Zenon, <1>2, WholeFacts
      <2>   QED  BY <2>1
<1>5. \A n \in Node : role[n] # "Leader" /\ role[n] # "Candidate"
      BY <1>1
<1>6. Coherence
      BY Zenon, <1>3, <1>4 DEF Coherence, Coherent
<1>7. LeaderOwn /\ EntriesLed
      BY Zenon, <1>3, <1>4, <1>5 DEF LeaderOwn, EntriesLed
<1>8. VotesSent /\ CandidateNew
      BY Zenon, <1>1, <1>5 DEF VotesSent, CandidateNew
<1>   QED  BY Zenon, <1>6, <1>7, <1>8 DEF MatchInv

LEMMA NextMatch ==
    ASSUME NaturalsWellOrdered, QuorumsMeet, Settled, Settled', MatchInv,
           NEW n \in Node, Step(n)
    PROVE  MatchInv'
BY Zenon, EntriesStep, LeaderOwnStep, VotesSentStep, CandidateNewStep
   DEF MatchInv

LEMMA StutterMatch ==
    ASSUME MatchInv, UNCHANGED vars
    PROVE  MatchInv'
<1>1. UNCHANGED <<log, msgs, role, currentTerm, ballots, leaderships>>
      BY Zenon DEF vars, durableVars, roleVars, historyVars
<1>2. Fragments' = Fragments
      BY Zenon, <1>1 DEF Fragments
<1>   QED  BY Zenon, <1>1, <1>2 DEF MatchInv, Coherence, LeaderOwn, EntriesLed,
                                    VotesSent, CandidateNew, Leads

\* Two logs that hold an entry of one term at one index agree up to it.
LEMMA CoherentLogs ==
    ASSUME NEW l \in Seq(Entry), NEW k \in Seq(Entry),
           Coherent(Whole(l), Whole(k)), NEW i \in 1 .. Len(l), i <= Len(k),
           l[i].term = k[i].term
    PROVE  \A j \in 1 .. i : l[j] = k[j]
<1>1. /\ In(Whole(l)) = 1 .. Len(l) /\ In(Whole(k)) = 1 .. Len(k)
      /\ Len(l) \in Nat /\ Len(k) \in Nat
      /\ \A j \in 1 .. Len(l) : /\ EntryIn(Whole(l), j) = l[j]
                                /\ TermIn(Whole(l), j) = l[j].term
      /\ \A j \in 1 .. Len(k) : /\ EntryIn(Whole(k), j) = k[j]
                                /\ TermIn(Whole(k), j) = k[j].term
      BY Zenon, WholeFacts
<1>2. i \in 1 .. Len(k) /\ i <= i
      BY <1>1
<1>3. \A j \in 1 .. i : j \in 1 .. Len(l) /\ j \in 1 .. Len(k) /\ j <= i
      BY <1>1, <1>2
<1> DEFINE f == Whole(l)
           g == Whole(k)
<1>4. Coherent(f, g)
      OBVIOUS
<1>   HIDE DEF f, g
<1>5. i \in In(f) /\ i \in In(g) /\ TermIn(f, i) = TermIn(g, i)
      BY Zenon, <1>1, <1>2 DEF f, g
<1>6. \A j \in In(f) : j \in In(g) /\ j <= i => EntryIn(f, j) = EntryIn(g, j)
      BY Zenon, <1>2, <1>4, <1>5 DEF Coherent
<1>   QED  BY Zenon, <1>1, <1>3, <1>6 DEF f, g

LEMMA AgreeEntries ==
    ASSUME NEW l \in Seq(Entry), NEW k \in Seq(Entry), NEW i \in Nat,
           i <= Len(l), i <= Len(k), \A j \in 1 .. i : l[j] = k[j]
    PROVE  Agree(l, k, i)
<1> DEFINE p == SubSeq(l, 1, i)
           q == SubSeq(k, 1, i)
<1>1. i \in 0 .. Len(l) /\ i \in 0 .. Len(k) /\ Len(l) >= i /\ Len(k) >= i
      BY EntryTerms
<1>2. /\ p \in Seq(Entry) /\ Len(p) = i /\ \A j \in 1 .. i : p[j] = l[j]
      /\ q \in Seq(Entry) /\ Len(q) = i /\ \A j \in 1 .. i : q[j] = k[j]
      BY Zenon, <1>1, PrefixProperties
<1>   HIDE DEF p, q
<1>3. p = q
      BY Zenon, <1>2, LogEqual
<1>   QED  BY Zenon, <1>1, <1>3 DEF Agree, p, q

LEMMA MatchInvMatches ==
    ASSUME TypeInv, MatchInv
    PROVE  LogMatching
<1>1. SUFFICES ASSUME NEW n \in Node, NEW p \in Node,
                      NEW i \in 1 .. Smaller(Len(log[n]), Len(log[p])),
                      log[n][i].term = log[p][i].term
               PROVE  Agree(log[n], log[p], i)
      BY Zenon DEF LogMatching
<1>2. /\ log[n] \in Seq(Entry) /\ log[p] \in Seq(Entry)
      /\ Len(log[n]) \in Nat /\ Len(log[p]) \in Nat
      BY Zenon, NodeDurable DEF TypeInv
<1>3. i \in 1 .. Len(log[n]) /\ i \in 1 .. Len(log[p]) /\ i <= Len(log[p])
      BY <1>2 DEF Smaller
<1>4. Coherent(Whole(log[n]), Whole(log[p]))
      BY Zenon, FragmentsType DEF MatchInv, Coherence
<1>5. \A j \in 1 .. i : log[n][j] = log[p][j]
      BY Zenon, <1>1, <1>2, <1>3, <1>4, CoherentLogs
<1>6. i \in Nat /\ i <= Len(log[n])
      BY <1>2, <1>3
<1>   QED  BY Zenon, <1>2, <1>3, <1>5, <1>6, AgreeEntries
=============================================================================
