-------------------------- MODULE RaftSupportProofs --------------------------
(***************************************************************************)
(* A log that a quorum supports stays supported: whoever ends up with a    *)
(* later term, is voted for in one, or speaks for its leader, holds it.    *)
(* And what a follower has acknowledged to a leader it holds, for as long  *)
(* as it stays in that leader's term.                                      *)
(***************************************************************************)
EXTENDS RaftMatchingProofs

-----------------------------------------------------------------------------
(***************************************************************************)
(* Logs that start with a given log a.  None of this reads a variable.     *)
(***************************************************************************)

LEMMA LastTermFacts ==
    ASSUME NEW a \in Seq(Entry), Len(a) >= 1
    PROVE  /\ Len(a) \in Nat /\ Len(a) \in 1 .. Len(a)
           /\ LastTerm(a) = a[Len(a)].term /\ LastTerm(a) \in Nat
<1>1. Len(a) \in Nat /\ Len(a) \in 1 .. Len(a) /\ a # << >>
      BY EntryTerms
<1>2. LastTerm(a) = a[Len(a)].term
      BY Zenon, <1>1 DEF LastTerm
<1>   QED  BY Zenon, <1>1, <1>2, EntryTerms

\* Where l reaches past the end of a in the last term of a, it starts with a.
LEMMA SameTermExtends ==
    ASSUME NEW a \in Seq(Entry), Len(a) >= 1, NEW l \in Seq(Entry),
           Coherent(Whole(a), Whole(l)), NEW j \in 1 .. Len(l), Len(a) <= j,
           l[j].term = LastTerm(a)
    PROVE  Extends(l, a)
<1>1. /\ In(Whole(l)) = 1 .. Len(l) /\ In(Whole(a)) = 1 .. Len(a)
      /\ Len(l) \in Nat /\ Len(a) \in Nat
      /\ \A i \in 1 .. Len(l) : /\ EntryIn(Whole(l), i) = l[i]
                                /\ TermIn(Whole(l), i) = l[i].term
      /\ \A i \in 1 .. Len(a) : /\ EntryIn(Whole(a), i) = a[i]
                                /\ TermIn(Whole(a), i) = a[i].term
      BY Zenon, WholeFacts
<1>2. Len(a) \in 1 .. Len(a) /\ LastTerm(a) = a[Len(a)].term
      BY Zenon, LastTermFacts
<1>3. /\ Len(a) <= Len(l)
      /\ \A i \in 1 .. Len(a) : i \in 1 .. Len(l) /\ i <= Len(a)
      BY <1>1
<1> DEFINE f == Whole(a)
           g == Whole(l)
<1>4. Coherent(f, g)
      OBVIOUS
<1>   HIDE DEF f, g
<1>5. Len(a) \in In(f) /\ j \in In(g) /\ TermIn(f, Len(a)) = TermIn(g, j)
      BY Zenon, <1>1, <1>2 DEF f, g
<1>6. \A i \in In(f) : i \in In(g) /\ i <= Len(a) => EntryIn(f, i) = EntryIn(g, i)
      BY Zenon, <1>4, <1>5 DEF Coherent
<1>   QED  BY Zenon, <1>1, <1>3, <1>6 DEF f, g, Extends

\* The terms of a log that starts with a.
LEMMA ExtendsTerms ==
    ASSUME NaturalsWellOrdered, NEW a \in Seq(Entry), Len(a) >= 1,
           NEW l \in Seq(Entry), Sorted(l), Extends(l, a)
    PROVE  /\ \A i \in 1 .. Len(l) : i >= Len(a) => l[i].term >= LastTerm(a)
           /\ LastTerm(l) >= LastTerm(a)
<1>1. /\ Len(a) \in Nat /\ Len(a) \in 1 .. Len(a) /\ LastTerm(a) = a[Len(a)].term
      /\ Len(l) \in Nat /\ \A i \in 1 .. Len(l) : l[i].term \in Nat
      BY Zenon, LastTermFacts, EntryTerms
<1>2. Len(a) <= Len(l) /\ l[Len(a)].term = LastTerm(a)
      BY Zenon, <1>1 DEF Extends
<1>3. Len(l) >= 1 /\ Len(a) \in 1 .. Len(l)
      BY <1>1, <1>2
<1>4. \A i, j \in 1 .. Len(l) : i <= j => l[i].term <= l[j].term
      BY Zenon, SortedMonotone
<1>5. LastTerm(l) = l[Len(l)].term /\ Len(l) \in 1 .. Len(l)
      BY Zenon, <1>3, LastTermFacts
<1>6. \A i \in 1 .. Len(l) : i >= Len(a) => l[i].term >= LastTerm(a)
      BY <1>1, <1>2, <1>3, <1>4
<1>   QED  BY <1>1, <1>2, <1>5, <1>6

\* The terms of a whole log.
LEMMA WholeTerms ==
    ASSUME NEW l \in Seq(Entry)
    PROVE  \A i \in 0 .. Len(l) : TermIn(Whole(l), i) = IF i = 0 THEN 0 ELSE l[i].term
<1>1. /\ Len(l) \in Nat /\ TermIn(Whole(l), 0) = 0
      /\ \A i \in 1 .. Len(l) : TermIn(Whole(l), i) = l[i].term
      BY Zenon, WholeFacts
<1>   QED  BY <1>1

\* A piece of a log that starts with a agrees with a.
LEMMA PartAgrees ==
    ASSUME NaturalsWellOrdered, NEW a \in Seq(Entry), Len(a) >= 1,
           NEW l \in Seq(Entry), Sorted(l), Extends(l, a),
           NEW M \in Fragment, Part(M, Whole(l))
    PROVE  Agrees(M, a)
<1>1. SUFFICES ASSUME NEW i \in Known(M)
               PROVE  /\ i <= Len(a) => TermIn(M, i) = TermIn(Whole(a), i)
                      /\ i >= Len(a) => TermIn(M, i) >= LastTerm(a)
      BY Zenon DEF Agrees
<1>2. i \in 0 .. Len(l) /\ TermIn(M, i) = TermIn(Whole(l), i)
      BY Zenon, WholeFacts DEF Part
<1>3. TermIn(M, i) = IF i = 0 THEN 0 ELSE l[i].term
      BY Zenon, <1>2, WholeTerms
<1>4. /\ Len(a) \in Nat /\ Len(l) \in Nat /\ Len(a) <= Len(l)
      BY Zenon, EntryTerms DEF Extends
<1>5. ASSUME i <= Len(a)
      PROVE  TermIn(M, i) = TermIn(Whole(a), i)
      <2>1. i \in 0 .. Len(a)
            BY <1>2, <1>4, <1>5
      <2>2. TermIn(Whole(a), i) = IF i = 0 THEN 0 ELSE a[i].term
            BY Zenon, <2>1, WholeTerms
      <2>3. i # 0 => l[i] = a[i]
            BY <2>1, <1>4 DEF Extends
      <2>   QED  BY <1>3, <2>2, <2>3
<1>6. ASSUME i >= Len(a)
      PROVE  TermIn(M, i) >= LastTerm(a)
      <2>1. i \in 1 .. Len(l) /\ i # 0
            BY <1>2, <1>4, <1>6
      <2>2. l[i].term >= LastTerm(a)
            BY Zenon, <2>1, <1>6, ExtendsTerms
      <2>   QED  BY Zenon, <2>1, <2>2, <1>3
<1>   QED  BY Zenon, <1>5, <1>6

\* A follower that holds a keeps it, whatever it takes that agrees with a.
LEMMA TookKeeps ==
    ASSUME NEW a \in Seq(Entry), Len(a) >= 1,
           NEW l \in Seq(Entry), NEW k \in Seq(Entry), NEW M \in Fragment,
           Took(k, l, M), Coherent(Whole(a), M), Extends(l, a), Agrees(M, a)
    PROVE  Extends(k, a)
<1>1. CASE k = l
      BY Zenon, <1>1
<1>2. CASE Joined(k, l, M) /\ Conflicts(l, M)
      <2>1. /\ Len(a) \in Nat /\ Len(l) \in Nat /\ Len(a) <= Len(l)
            /\ M.prev \in Nat /\ LastOf(M) \in Nat
            /\ In(M) = M.prev + 1 .. LastOf(M) /\ Known(M) = M.prev .. LastOf(M)
            /\ Len(k) = LastOf(M)
            BY Zenon, <1>2, EntryTerms, FragmentFacts DEF Extends, Joined
      <2>2. \A i \in 1 .. Len(a) : /\ l[i] = a[i]
                                   /\ TermIn(Whole(a), i) = a[i].term
                                   /\ EntryIn(Whole(a), i) = a[i]
            BY Zenon, WholeFacts DEF Extends
      <2>3. Len(a) <= LastOf(M)
        <3>1. PICK i \in In(M) : ~ (i \in 1 .. Len(l) /\ l[i].term = TermIn(M, i))
              BY Zenon, <1>2 DEF Conflicts
        <3>2. SUFFICES ASSUME ~ (Len(a) <= LastOf(M))
                       PROVE  FALSE
              BY Zenon
        <3>3. /\ i \in 1 .. Len(l) /\ i \in 1 .. Len(a) /\ i \in Known(M)
              /\ i <= Len(a)
              BY <2>1, <3>2
        <3>   QED  BY Zenon, <2>2, <3>1, <3>3 DEF Agrees
      <2>4. ASSUME NEW i \in 1 .. Len(a), i <= M.prev
            PROVE  k[i] = a[i]
        <3>1. i \in 1 .. M.prev
              BY <2>1, <2>4
        <3>   QED  BY Zenon, <3>1, <2>2, <1>2 DEF Joined
      <2>5. ASSUME NEW i \in 1 .. Len(a), ~ (i <= M.prev)
            PROVE  k[i] = a[i]
        <3>1. /\ i \in In(M) /\ Len(a) \in In(M) /\ Len(a) \in Known(M)
              /\ i \in 1 .. Len(k) /\ i <= Len(a)
              /\ Len(a) \in 1 .. Len(a) /\ Len(a) <= Len(a)
              BY <2>1, <2>3, <2>5
        <3>2. In(Whole(a)) = 1 .. Len(a)
              BY Zenon, WholeFacts
        <3>3. TermIn(M, Len(a)) = TermIn(Whole(a), Len(a))
              BY Zenon, <3>1 DEF Agrees
        <3>4. EntryIn(Whole(a), i) = EntryIn(M, i)
          <4> DEFINE f == Whole(a)
          <4>1. /\ Coherent(f, M) /\ i \in In(f) /\ Len(a) \in In(f)
                /\ TermIn(M, Len(a)) = TermIn(f, Len(a))
                BY Zenon, <3>1, <3>2, <3>3
          <4>   HIDE DEF f
          <4>2. EntryIn(f, i) = EntryIn(M, i)
                BY Zenon, <3>1, <4>1 DEF Coherent
          <4>   QED  BY Zenon, <4>2 DEF f
        <3>5. EntryIn(M, i) = EntryIn(Whole(k), i) /\ EntryIn(Whole(k), i) = k[i]
              BY Zenon, <3>1, <1>2, WholeFacts DEF Joined, Part
        <3>   QED  BY Zenon, <3>4, <3>5, <2>2
      <2>   QED  BY Zenon, <2>1, <2>3, <2>4, <2>5 DEF Extends
<1>   QED  BY Zenon, <1>1, <1>2 DEF Took

\* A follower that ends up in a later term than a, by taking what agrees with
\* a, holds a.
LEMMA TookLater ==
    ASSUME NaturalsWellOrdered, NEW a \in Seq(Entry), Len(a) >= 1, Sorted(a),
           NEW l \in Seq(Entry), Sorted(l), NEW k \in Seq(Entry),
           NEW M \in Fragment, Took(k, l, M),
           Coherent(Whole(a), Whole(k)), Agrees(M, a),
           LastTerm(k) > LastTerm(a),
           LastTerm(l) > LastTerm(a) => Extends(l, a)
    PROVE  Extends(k, a)
<1>1. CASE k = l
      BY Zenon, <1>1
<1>2. CASE Joined(k, l, M)
  <2> DEFINE t == LastTerm(a)
             p == M.prev
             q == LastOf(M)
  <2>1. /\ Len(a) \in Nat /\ Len(a) \in 1 .. Len(a)
        /\ t \in Nat /\ t = a[Len(a)].term
        /\ Len(l) \in Nat /\ Len(k) \in Nat /\ Len(k) = q
        /\ p \in Nat /\ q \in Nat /\ p <= q
        /\ Known(M) = p .. q
        /\ \A i \in 1 .. Len(a) : a[i].term \in Nat
        /\ \A i \in 1 .. Len(l) : l[i].term \in Nat
        /\ \A i \in 1 .. Len(k) : k[i].term \in Nat
        BY Zenon, <1>2, LastTermFacts, EntryTerms, FragmentFacts DEF Joined
  <2>2. Len(k) >= 1
    <3>1. SUFFICES ASSUME ~ (Len(k) >= 1)
                   PROVE  FALSE
          BY Zenon
    <3>2. k = << >>
          BY <3>1, <2>1
    <3>   QED  BY <3>2, <2>1 DEF LastTerm
  <2>3. LastTerm(k) = k[Len(k)].term
        BY Zenon, <2>2, LastTermFacts
  <2>4. \A i \in p .. q : TermIn(M, i) = IF i = 0 THEN 0 ELSE k[i].term
    <3>1. \A i \in p .. q : i \in 0 .. Len(k)
          BY <2>1
    <3>2. \A i \in p .. q : TermIn(M, i) = TermIn(Whole(k), i)
          BY Zenon, <1>2, <2>1 DEF Joined, Part
    <3>   QED  BY Zenon, <3>1, <3>2, WholeTerms
  <2>5. \A i \in p .. q :
            /\ i <= Len(a) => TermIn(M, i) = TermIn(Whole(a), i)
            /\ i >= Len(a) => TermIn(M, i) >= t
        BY Zenon, <2>1 DEF Agrees
  <2>6. \A i \in 0 .. Len(a) : TermIn(Whole(a), i) = IF i = 0 THEN 0 ELSE a[i].term
        BY Zenon, WholeTerms
  <2>7. q > Len(a)
    <3>1. SUFFICES ASSUME q <= Len(a)
                   PROVE  FALSE
          BY <2>1
    <3>2. q \in p .. q /\ q \in 1 .. Len(a) /\ q \in 0 .. Len(a) /\ q # 0
          BY <2>1, <2>2, <3>1
    <3>3. k[q].term = a[q].term
          BY Zenon, <3>1, <3>2, <2>4, <2>5, <2>6
    <3>4. a[q].term <= t
          BY Zenon, <3>1, <3>2, <2>1, SortedMonotone
    <3>   QED  BY <3>2, <3>3, <3>4, <2>1, <2>3
  <2>8. CASE p < Len(a)
    <3>1. /\ Len(a) \in p .. q /\ Len(a) \in 1 .. Len(k) /\ Len(a) # 0
          /\ Len(a) <= Len(a) /\ Len(a) \in 0 .. Len(a)
          BY <2>1, <2>7, <2>8
    <3>2. k[Len(a)].term = t
          BY Zenon, <3>1, <2>1, <2>4, <2>5, <2>6
    <3>   QED  BY Zenon, <3>1, <3>2, SameTermExtends
  <2>9. CASE ~ (p < Len(a))
    <3>1. /\ p \in p .. q /\ p \in 1 .. Len(k) /\ p # 0 /\ Len(a) <= p /\ p >= Len(a)
          /\ p <= Len(k)
          BY <2>1, <2>7, <2>9
    <3>2. k[p].term >= t
          BY Zenon, <3>1, <2>4, <2>5
    <3>3. CASE k[p].term = t
          BY Zenon, <3>1, <3>3, SameTermExtends
    <3>4. CASE k[p].term > t
      <4>1. /\ p \in 0 .. Len(l) /\ \A i \in 1 .. p : k[i] = l[i]
            BY Zenon, <1>2, WholeFacts DEF Joined
      <4>2. p \in 1 .. Len(l) /\ p \in 1 .. p /\ Len(l) >= 1 /\ Len(l) \in 1 .. Len(l)
            /\ p <= Len(l) /\ \A i \in 1 .. Len(a) : i \in 1 .. p
            BY <4>1, <3>1, <2>1
      <4>3. LastTerm(l) = l[Len(l)].term /\ l[p].term <= l[Len(l)].term
            BY Zenon, <4>2, LastTermFacts, SortedMonotone
      <4>4. l[p].term > t
            BY Zenon, <4>1, <4>2, <3>4
      <4>5. LastTerm(l) > t
            BY <4>2, <4>3, <4>4, <2>1
      <4>6. Extends(l, a)
            BY Zenon, <4>5
      <4>7. Len(a) <= Len(k)
            BY <3>1, <2>1
      <4>   QED  BY Zenon, <4>1, <4>2, <4>6, <4>7 DEF Extends
    <3>5. k[p].term = t \/ k[p].term > t
          BY <3>1, <3>2, <2>1
    <3>   QED  BY Zenon, <3>3, <3>4, <3>5
  <2>   QED  BY Zenon, <2>8, <2>9
<1>   QED  BY Zenon, <1>1, <1>2 DEF Took

\* Who holds what agrees with a is the same as a as far as both reach.
LEMMA CarriedSame ==
    ASSUME NaturalsWellOrdered, NEW a \in Seq(Entry), Len(a) >= 1,
           NEW k \in Seq(Entry), Sorted(k), NEW M \in Fragment,
           Part(M, Whole(k)), Agrees(M, a), Coherent(Whole(a), Whole(k)),
           LastTerm(k) > LastTerm(a) => Extends(k, a),
           NEW c \in Nat, c <= Len(a), c <= LastOf(M)
    PROVE  SameUpTo(k, a, c)
<1> DEFINE t == LastTerm(a)
           q == LastOf(M)
<1>1. /\ Len(a) \in Nat /\ t \in Nat /\ t = a[Len(a)].term /\ Len(k) \in Nat
      /\ q \in Nat /\ M.prev \in Nat /\ M.prev <= q
      /\ Known(M) = M.prev .. q
      /\ \A i \in 1 .. Len(k) : k[i].term \in Nat
      BY Zenon, LastTermFacts, EntryTerms, FragmentFacts
<1>2. q \in Known(M)
      BY <1>1
<1>3. q \in 0 .. Len(k) /\ TermIn(M, q) = TermIn(Whole(k), q)
      BY Zenon, <1>2, WholeFacts DEF Part
<1>4. TermIn(M, q) = IF q = 0 THEN 0 ELSE k[q].term
      BY Zenon, <1>3, WholeTerms
<1>5. /\ q <= Len(a) => TermIn(M, q) = TermIn(Whole(a), q)
      /\ q >= Len(a) => TermIn(M, q) >= t
      BY Zenon, <1>2 DEF Agrees
<1>6. ASSUME Extends(k, a)
      PROVE  SameUpTo(k, a, c)
      <2>1. /\ Len(a) <= Len(k) /\ \A i \in 1 .. Len(a) : k[i] = a[i]
            BY Zenon, <1>6 DEF Extends
      <2>2. c <= Len(k) /\ \A i \in 1 .. c : i \in 1 .. Len(a)
            BY <2>1, <1>1
      <2>   QED  BY Zenon, <2>1, <2>2 DEF SameUpTo
<1>7. CASE q = 0
      <2>1. c <= Len(k) /\ 1 .. c = {}
            BY <1>1, <1>7
      <2>   QED  BY Zenon, <2>1 DEF SameUpTo
<1>8. CASE q # 0 /\ q <= Len(a)
      <2>1. q \in 0 .. Len(a) /\ q \in 1 .. Len(a) /\ q <= Len(k)
            BY <1>1, <1>3, <1>8
      <2>2. TermIn(Whole(a), q) = IF q = 0 THEN 0 ELSE a[q].term
            BY Zenon, <2>1, WholeTerms
      <2>3. k[q].term = a[q].term
            BY Zenon, <2>2, <1>4, <1>5, <1>8
      <2>4. \A i \in 1 .. q : a[i] = k[i]
            BY Zenon, <2>1, <2>3, CoherentLogs
      <2>5. c <= Len(k) /\ \A i \in 1 .. c : i \in 1 .. q
            BY <2>1, <1>1
      <2>   QED  BY Zenon, <2>4, <2>5 DEF SameUpTo
<1>9. CASE q > Len(a)
      <2>1. q \in 1 .. Len(k) /\ q >= Len(a) /\ Len(a) <= q /\ q # 0
            /\ q <= Len(k) /\ Len(k) \in 1 .. Len(k) /\ Len(k) >= 1
            BY <1>1, <1>3, <1>9
      <2>2. k[q].term >= t
            BY Zenon, <1>4, <1>5, <2>1
      <2>3. CASE k[q].term = t
            BY Zenon, <2>1, <2>3, <1>6, SameTermExtends
      <2>4. CASE k[q].term > t
        <3>1. LastTerm(k) = k[Len(k)].term /\ k[q].term <= k[Len(k)].term
              BY Zenon, <2>1, LastTermFacts, SortedMonotone
        <3>2. LastTerm(k) > t
              BY <3>1, <2>1, <2>4, <1>1
        <3>   QED  BY Zenon, <3>2, <1>6
      <2>5. k[q].term = t \/ k[q].term > t
            BY <2>1, <2>2, <1>1
      <2>   QED  BY Zenon, <2>3, <2>4, <2>5
<1>10. q = 0 \/ (q # 0 /\ q <= Len(a)) \/ q > Len(a)
      BY <1>1
<1>   QED  BY Zenon, <1>7, <1>8, <1>9, <1>10

\* What agrees with a agrees with every prefix of a.
LEMMA AgreesPrefix ==
    ASSUME NaturalsWellOrdered, NEW a \in Seq(Entry), Len(a) >= 1, Sorted(a),
           NEW M \in Fragment, Agrees(M, a),
           NEW s \in Seq(Entry), Len(s) >= 1, Len(s) <= Len(a),
           \A i \in 1 .. Len(s) : s[i] = a[i]
    PROVE  Agrees(M, s)
<1>1. SUFFICES ASSUME NEW i \in Known(M)
               PROVE  /\ i <= Len(s) => TermIn(M, i) = TermIn(Whole(s), i)
                      /\ i >= Len(s) => TermIn(M, i) >= LastTerm(s)
      BY Zenon DEF Agrees
<1>2. /\ i \in Nat /\ TermIn(M, i) \in Nat
      /\ Len(a) \in Nat /\ Len(s) \in Nat
      /\ LastTerm(a) \in Nat /\ LastTerm(a) = a[Len(a)].term /\ Len(a) \in 1 .. Len(a)
      /\ LastTerm(s) \in Nat /\ LastTerm(s) = s[Len(s)].term /\ Len(s) \in 1 .. Len(s)
      /\ \A j \in 1 .. Len(a) : a[j].term \in Nat
      BY Zenon, LastTermFacts, EntryTerms, FragmentFacts
<1>3. /\ i <= Len(a) => TermIn(M, i) = TermIn(Whole(a), i)
      /\ i >= Len(a) => TermIn(M, i) >= LastTerm(a)
      BY Zenon DEF Agrees
<1>4. i \in 0 .. Len(a) => TermIn(Whole(a), i) = IF i = 0 THEN 0 ELSE a[i].term
      BY Zenon, WholeTerms
<1>5. i \in 0 .. Len(s) => TermIn(Whole(s), i) = IF i = 0 THEN 0 ELSE s[i].term
      BY Zenon, WholeTerms
<1>6. \A j \in 1 .. Len(a) : j >= Len(s) => a[j].term >= LastTerm(s)
      <2>1. Extends(a, s)
            BY Zenon DEF Extends
      <2>   QED  BY Zenon, <2>1, ExtendsTerms
<1>7. ASSUME i <= Len(s)
      PROVE  TermIn(M, i) = TermIn(Whole(s), i)
      <2>1. i \in 0 .. Len(s) /\ i \in 0 .. Len(a) /\ i <= Len(a)
            BY <1>2, <1>7
      <2>2. i # 0 => i \in 1 .. Len(s)
            BY <2>1, <1>2
      <2>   QED  BY <2>1, <2>2, <1>3, <1>4, <1>5
<1>8. ASSUME i >= Len(s)
      PROVE  TermIn(M, i) >= LastTerm(s)
      <2>1. CASE i <= Len(a)
        <3>1. i \in 1 .. Len(a) /\ i # 0 /\ i \in 0 .. Len(a)
              BY <2>1, <1>2, <1>8
        <3>   QED  BY <3>1, <2>1, <1>3, <1>4, <1>6, <1>8
      <2>2. CASE i >= Len(a)
        <3>1. a[Len(a)].term >= LastTerm(s)
              BY <1>2, <1>6
        <3>   QED  BY <3>1, <2>2, <1>2, <1>3
      <2>   QED  BY <2>1, <2>2, <1>2
<1>   QED  BY Zenon, <1>7, <1>8

-----------------------------------------------------------------------------
(***************************************************************************)
(* A log that somebody holds, and what a step does to those that start     *)
(* with it.                                                                *)
(***************************************************************************)

\* What coheres with all there is coheres with a log that somebody holds.
LEMMA HeldMatches ==
    ASSUME TypeInv, NEW a, Held(a), NEW f \in Fragment,
           \A g \in Fragments : Match(f, g)
    PROVE  Match(Whole(a), f)
<1>1. PICK v \in Node : Extends(log[v], a)
      BY Zenon DEF Held
<1>2. /\ a \in Seq(Entry) /\ log[v] \in Seq(Entry)
      /\ Whole(a) \in Fragment /\ Whole(log[v]) \in Fragment
      /\ Whole(log[v]) \in Fragments
      BY Zenon, NodeDurable, WholeFacts, FragmentsType DEF Held, TypeInv
<1>3. Part(Whole(a), Whole(log[v]))
      BY Zenon, <1>1, <1>2, PrefixPart DEF Extends
<1>4. Coherent(Whole(log[v]), f) /\ Coherent(f, Whole(log[v]))
      BY Zenon, <1>2 DEF Match
<1>   QED  BY Zenon, <1>2, <1>3, <1>4, PartCoherent DEF Match

LEMMA HeldFacts ==
    ASSUME TypeInv, Coherence, NEW a, Held(a)
    PROVE  /\ a \in Seq(Entry) /\ Len(a) >= 1 /\ Sorted(a)
           /\ \A g \in Fragments : Match(Whole(a), g)
<1>1. PICK v \in Node : Extends(log[v], a)
      BY Zenon DEF Held
<1>2. /\ a \in Seq(Entry) /\ Len(a) >= 1 /\ Len(a) \in Nat
      /\ Sorted(log[v]) /\ Len(log[v]) \in Nat
      BY Zenon, EntryTerms, NodeDurable DEF Held, TypeInv
<1>3. ASSUME NEW i \in 2 .. Len(a)
      PROVE  a[i - 1].term <= a[i].term
      <2>1. i \in 1 .. Len(a) /\ i - 1 \in 1 .. Len(a) /\ i \in 2 .. Len(log[v])
            BY <1>1, <1>2 DEF Extends
      <2>2. log[v][i] = a[i] /\ log[v][i - 1] = a[i - 1]
            BY Zenon, <1>1, <2>1 DEF Extends
      <2>   QED  BY Zenon, <1>2, <2>1, <2>2 DEF Sorted
<1>4. ASSUME NEW g \in Fragments
      PROVE  Match(Whole(a), g)
      <2>1. g \in Fragment /\ \A h \in Fragments : Match(g, h)
            BY Zenon, <1>4, FragmentsType DEF Coherence, Match
      <2>   QED  BY Zenon, <2>1, HeldMatches
<1>   QED  BY Zenon, <1>2, <1>3, <1>4 DEF Sorted

\* The logs of the next state cohere with all there was.
LEMMA LogsNext ==
    ASSUME NaturalsWellOrdered, Settled, Settled', MatchInv, NEW n \in Node,
           Step(n), NEW p \in Node
    PROVE  /\ log'[p] \in Seq(Entry) /\ Sorted(log'[p])
           /\ NoFutureTerm(log'[p], currentTerm'[p])
           /\ Whole(log'[p]) \in Fragment
           /\ \A g \in Fragments : Match(Whole(log'[p]), g)
<1>1. /\ log'[p] \in Seq(Entry) /\ Sorted(log'[p])
      /\ NoFutureTerm(log'[p], currentTerm'[p])
      BY Zenon DEF Settled, TypeInv, DurableOK, DurableStateRecoverable
<1>2. ASSUME log'[p] = log[p]
      PROVE  \A g \in Fragments : Match(Whole(log'[p]), g)
      BY Zenon, <1>2, FragmentsType DEF Settled, MatchInv, Coherence, Match
<1>3. ASSUME p = n, Proposing(n) \/ Winning(n)
      PROVE  \A g \in Fragments : Match(Whole(log'[p]), g)
      BY Zenon, <1>3, AppendingHeld
<1>4. ASSUME p = n, \E m \in msgs : Following(n, m)
      PROVE  \A g \in Fragments : Match(Whole(log'[p]), g)
      BY Zenon, <1>4, FollowingHeld DEF Settled, MatchInv
<1>5. \/ log'[p] = log[p]
      \/ p = n /\ (Proposing(n) \/ Winning(n))
      \/ p = n /\ \E m \in msgs : Following(n, m)
      BY Zenon DEF Step, Quiet, Leading, Proposing, Winning, Appending,
                   Following, Others
<1>   QED  BY Zenon, <1>1, <1>2, <1>3, <1>4, <1>5, WholeFacts

\* Who holds every entry of the last term of a holds a.
LEMMA OwnTermHolds ==
    ASSUME TypeInv, Coherence, NEW a, Held(a), NEW n \in Node,
           \A g \in Fragments : \A i \in In(g) :
               TermIn(g, i) = LastTerm(a) =>
                   /\ i \in In(Whole(log[n]))
                   /\ TermIn(Whole(log[n]), i) = LastTerm(a)
    PROVE  Extends(log[n], a)
<1>1. PICK v \in Node : Extends(log[v], a)
      BY Zenon DEF Held
<1>2. /\ a \in Seq(Entry) /\ Len(a) >= 1
      /\ Coherent(Whole(a), Whole(log[n])) /\ Whole(log[v]) \in Fragments
      BY Zenon, HeldFacts, FragmentsType DEF Match
<1>3. /\ log[n] \in Seq(Entry) /\ log[v] \in Seq(Entry) /\ Len(log[v]) \in Nat
      BY Zenon, NodeDurable DEF TypeInv
<1>4. /\ Len(a) \in Nat /\ Len(a) \in 1 .. Len(a) /\ LastTerm(a) = a[Len(a)].term
      BY Zenon, <1>2, LastTermFacts
<1>5. Len(a) \in 1 .. Len(log[v]) /\ Len(a) <= Len(a)
      BY <1>1, <1>2, <1>3, <1>4 DEF Extends
<1>6. /\ Len(a) \in In(Whole(log[v])) /\ TermIn(Whole(log[v]), Len(a)) = LastTerm(a)
      BY Zenon, <1>1, <1>3, <1>4, <1>5, WholeFacts DEF Extends
<1>7. Len(a) \in In(Whole(log[n])) /\ TermIn(Whole(log[n]), Len(a)) = LastTerm(a)
      BY Zenon, <1>2, <1>6
<1>8. Len(a) \in 1 .. Len(log[n]) /\ log[n][Len(a)].term = LastTerm(a)
      BY Zenon, <1>3, <1>7, WholeFacts
<1>   QED  BY Zenon, <1>2, <1>3, <1>5, <1>8, SameTermExtends

\* A leader that is not behind a holds it.
LEMMA LeaderHolds ==
    ASSUME TypeInv, Coherence, LeaderOwn, OwnEntry, NEW a, Held(a),
           LaterHold(a), NEW n \in Node, role[n] = "Leader",
           currentTerm[n] >= LastTerm(a)
    PROVE  Extends(log[n], a)
<1>1. currentTerm[n] \in Nat /\ LastTerm(a) \in Nat
      BY Zenon, LastTermType, NodeDurable DEF TypeInv, Held
<1>2. CASE currentTerm[n] > LastTerm(a)
      BY Zenon, <1>2 DEF OwnEntry, LaterHold
<1>3. CASE currentTerm[n] = LastTerm(a)
      BY Zenon, <1>3, OwnTermHolds DEF LeaderOwn
<1>   QED  BY <1>1, <1>2, <1>3

\* So does who appends to its log.
LEMMA AppendingHolds ==
    ASSUME QuorumsMeet, Settled, Settled', MatchInv, OwnEntry, NEW a, Held(a),
           NEW Q \in SUBSET Node, IsQuorum(Q), Supported(a, Q),
           NEW n \in Node, Proposing(n) \/ Winning(n),
           currentTerm[n] >= LastTerm(a)
    PROVE  Extends(log[n], a)
<1>1. TypeInv /\ Coherence /\ LeaderOwn /\ LaterHold(a)
      BY Zenon DEF Settled, MatchInv, Supported
<1>2. CASE Proposing(n)
      BY Zenon, <1>1, <1>2, LeaderHolds DEF Proposing
<1>3. CASE Winning(n) /\ currentTerm[n] = LastTerm(a)
      BY Zenon, <1>1, <1>3, AppendingOwn, OwnTermHolds
<1>4. CASE Winning(n) /\ currentTerm[n] > LastTerm(a)
      <2> DEFINE w == [node |-> n, term |-> currentTerm[n]]
      <2>1. w.node = n /\ w.term = currentTerm[n] /\ w \in leaderships'
            BY Zenon, <1>4 DEF Winning
      <2>2. ballots' = ballots /\ role[n] = "Candidate"
            BY Zenon, <1>4 DEF Winning, Appending
      <2>   HIDE DEF w
      <2>3. PICK R \in SUBSET Node :
                /\ IsQuorum(R)
                /\ \A v \in R : Ballot(v, w.node, w.term) \in ballots'
            BY Zenon, <2>1 DEF Settled, ElectionInv, LeadershipsOK
      <2>4. PICK v \in Q : v \in R
            BY Zenon, <2>3 DEF QuorumsMeet
      <2> DEFINE b == Ballot(v, n, currentTerm[n])
      <2>5. b.voter = v /\ b.candidate = n /\ b.term = currentTerm[n]
            BY Zenon DEF Ballot
      <2>6. b \in ballots
            BY Zenon, <2>1, <2>2, <2>3, <2>4
      <2>   HIDE DEF b
      <2>   QED  BY Zenon, <1>4, <2>2, <2>4, <2>5, <2>6 DEF Supported, ChosenHold
<1>5. currentTerm[n] \in Nat /\ LastTerm(a) \in Nat
      BY Zenon, <1>1, LastTermType, NodeDurable DEF TypeInv, Held
<1>6. currentTerm[n] = LastTerm(a) \/ currentTerm[n] > LastTerm(a)
      BY <1>5
<1>   QED  BY Zenon, <1>2, <1>3, <1>4, <1>6

\* What a step does to the log of a node.
LEMMA LogChanges ==
    ASSUME NEW n \in Node, Step(n), NEW p \in Node
    PROVE  \/ log'[p] = log[p]
           \/ p = n /\ (Proposing(n) \/ Winning(n))
           \/ p = n /\ \E m \in msgs : Following(n, m)
BY Zenon DEF Step, Quiet, Leading, Proposing, Winning, Appending, Following,
             Others

\* What is appended to goes on holding what it held.
LEMMA AppendingKeeps ==
    ASSUME Settled, NEW n \in Node, Appending(n)
    PROVE  /\ log'[n] \in Seq(Entry) /\ Len(log'[n]) = Len(log[n]) + 1
           /\ \A i \in 1 .. Len(log[n]) : log'[n][i] = log[n][i]
           /\ LastTerm(log'[n]) = currentTerm[n]
           /\ log'[n][Len(log[n]) + 1].term = currentTerm[n]
           /\ \A a \in Seq(Entry) : Extends(log[n], a) => Extends(log'[n], a)
<1>1. log[n] \in Seq(Entry) /\ Len(log[n]) \in Nat
      BY Zenon, NodeDurable DEF Settled, TypeInv
<1>2. PICK e \in Entry : e.term = currentTerm[n] /\ log'[n] = Append(log[n], e)
      BY Zenon DEF Appending
<1> DEFINE l == log[n]
           k == log'[n]
<1>   HIDE DEF l, k
<1>3. /\ k \in Seq(Entry) /\ Len(k) = Len(l) + 1 /\ k[Len(l) + 1] = e
      /\ \A i \in 1 .. Len(l) : k[i] = l[i]
      <2>1. k = Append(l, e) /\ l \in Seq(Entry)
            BY Zenon, <1>1, <1>2 DEF l, k
      <2>   QED  BY <2>1, LogAppend
<1>4. Len(k) >= 1 /\ Len(l) \in Nat
      BY <1>1, <1>3 DEF l
<1>5. LastTerm(k) = currentTerm[n]
      BY Zenon, <1>2, <1>3, <1>4, LastTermFacts
<1>6. ASSUME NEW a \in Seq(Entry), Extends(l, a)
      PROVE  Extends(k, a)
      <2>1. /\ Len(a) <= Len(l) /\ \A i \in 1 .. Len(a) : l[i] = a[i]
            /\ Len(a) \in Nat
            BY Zenon, <1>6, EntryTerms DEF Extends
      <2>2. Len(a) <= Len(k) /\ \A i \in 1 .. Len(a) : i \in 1 .. Len(l)
            BY <2>1, <1>3, <1>4
      <2>   QED  BY Zenon, <2>1, <2>2, <1>3 DEF Extends
<1>   QED  BY Zenon, <1>2, <1>3, <1>5, <1>6 DEF l, k

\* Who holds a keeps it, unless it takes what contradicts a.
LEMMA KeepsStep ==
    ASSUME NaturalsWellOrdered, Settled, Settled', MatchInv, NEW n \in Node,
           Step(n), NEW a, Held(a), NEW p \in Node, Extends(log[p], a),
           \A m \in msgs : p = n /\ Following(n, m) => Agrees(Carried(m), a)
    PROVE  Extends(log'[p], a)
<1>1. /\ a \in Seq(Entry) /\ Len(a) >= 1
      /\ \A g \in Fragments : Match(Whole(a), g)
      BY Zenon, HeldFacts DEF Settled, MatchInv
<1>2. CASE log'[p] = log[p]
      BY Zenon, <1>2
<1>3. CASE p = n /\ (Proposing(n) \/ Winning(n))
      BY Zenon, <1>1, <1>3, AppendingKeeps DEF Proposing, Winning
<1>4. CASE p = n /\ \E m \in msgs : Following(n, m)
      <2>1. PICK m \in msgs : Following(n, m)
            BY Zenon, <1>4
      <2>2. FromLeader(m) /\ Agrees(Carried(m), a)
            BY Zenon, <1>4, <2>1 DEF Following
      <2>3. Coherent(Whole(a), Carried(m)) /\ Carried(m) \in Fragment
            BY Zenon, <1>1, <2>2, FragmentsType DEF Match, Settled
      <2>4. /\ log'[n] \in Seq(Entry) /\ log[n] \in Seq(Entry)
            /\ Took(log'[n], log[n], Carried(m))
            BY Zenon, <2>1, FollowingLog, NodeDurable DEF Settled, TypeInv, MatchInv
      <2>   QED  BY Zenon, <1>1, <1>4, <2>2, <2>3, <2>4, TookKeeps
<1>   QED  BY Zenon, <1>2, <1>3, <1>4, LogChanges

\* Who holds a and is not behind it keeps it.
LEMMA ExtendsStep ==
    ASSUME NaturalsWellOrdered, Settled, Settled', MatchInv, NEW n \in Node,
           Step(n), NEW a, Held(a), SentHold(a), NEW p \in Node,
           Extends(log[p], a), currentTerm'[p] >= LastTerm(a)
    PROVE  Extends(log'[p], a)
<1>1. \A m \in msgs : p = n /\ Following(n, m) => Agrees(Carried(m), a)
      BY Zenon DEF SentHold, Following
<1>   QED  BY Zenon, <1>1, KeepsStep

-----------------------------------------------------------------------------
(***************************************************************************)
(* What is supported stays so, if the voters that go on to a later term    *)
(* held it before.                                                         *)
(***************************************************************************)

LEMMA VotersHoldStep ==
    ASSUME NaturalsWellOrdered, Settled, Settled', MatchInv, NEW n \in Node,
           Step(n), NEW a, Held(a), SentHold(a), NEW Q \in SUBSET Node,
           \A v \in Q : currentTerm'[v] > LastTerm(a) => Extends(log[v], a)
    PROVE  VotersHold(a, Q)'
<1>1. SUFFICES ASSUME NEW v \in Q, currentTerm'[v] > LastTerm(a)
               PROVE  Extends(log'[v], a)
      BY Zenon DEF VotersHold
<1>2. currentTerm'[v] \in Nat /\ LastTerm(a) \in Nat
      BY Zenon, LastTermType, StepHistory DEF Held
<1>3. currentTerm'[v] >= LastTerm(a)
      BY <1>1, <1>2
<1>   QED  BY Zenon, <1>1, <1>3, ExtendsStep

LEMMA LaterHoldStep ==
    ASSUME NaturalsWellOrdered, QuorumsMeet, Settled, Settled', MatchInv,
           OwnEntry, NEW n \in Node, Step(n), NEW a, Held(a),
           NEW Q \in SUBSET Node, IsQuorum(Q), Supported(a, Q)
    PROVE  LaterHold(a)'
<1>1. SUFFICES ASSUME NEW p \in Node, LastTerm(log'[p]) > LastTerm(a)
               PROVE  Extends(log'[p], a)
      BY Zenon DEF LaterHold
<1>2. /\ a \in Seq(Entry) /\ Len(a) >= 1 /\ Sorted(a) /\ LastTerm(a) \in Nat
      BY Zenon, HeldFacts, LastTermType DEF Settled, MatchInv
<1>3. CASE log'[p] = log[p]
      BY Zenon, <1>1, <1>3 DEF Supported, LaterHold
<1>4. CASE p = n /\ (Proposing(n) \/ Winning(n))
      <2>1. Appending(n)
            BY Zenon, <1>4 DEF Proposing, Winning
      <2>2. LastTerm(log'[n]) = currentTerm[n] /\ currentTerm[n] \in Nat
            BY Zenon, <2>1, AppendingKeeps, StepHistory
      <2>3. currentTerm[n] >= LastTerm(a)
            BY <1>1, <1>2, <1>4, <2>2
      <2>4. Extends(log[n], a)
            BY Zenon, <1>4, <2>3, AppendingHolds
      <2>   QED  BY Zenon, <1>2, <1>4, <2>1, <2>4, AppendingKeeps
<1>5. CASE p = n /\ \E m \in msgs : Following(n, m)
      <2>1. PICK m \in msgs : Following(n, m)
            BY Zenon, <1>5
      <2>2. FromLeader(m) /\ m.term = currentTerm'[n]
            BY Zenon, <2>1 DEF Following
      <2>3. /\ log'[n] \in Seq(Entry) /\ log[n] \in Seq(Entry) /\ Sorted(log[n])
            /\ Took(log'[n], log[n], Carried(m))
            BY Zenon, <2>1, FollowingLog, NodeDurable DEF Settled, TypeInv, MatchInv
      <2>4. /\ NoFutureTerm(log'[n], currentTerm'[n])
            /\ Coherent(Whole(a), Whole(log'[n]))
            BY Zenon, LogsNext, HeldMatches DEF Match, Settled
      <2>5. m.term >= LastTerm(a)
        <3>1. currentTerm'[n] \in Nat /\ Len(log'[n]) \in Nat
              BY Zenon, <2>3, StepHistory, EntryTerms
        <3>2. Len(log'[n]) >= 1
          <4>1. SUFFICES ASSUME ~ (Len(log'[n]) >= 1)
                         PROVE  FALSE
                BY Zenon
          <4>2. log'[n] = << >>
                BY <2>3, <4>1, <3>1
          <4>3. LastTerm(log'[n]) = 0
                BY Zenon, <4>2 DEF LastTerm
          <4>   QED  BY <4>3, <1>1, <1>2, <1>5
        <3>3. /\ LastTerm(log'[n]) \in Nat
              /\ LastTerm(log'[n]) <= currentTerm'[n]
              BY Zenon, <2>3, <2>4, <3>2, LastTermFacts DEF NoFutureTerm
        <3>   QED  BY <1>1, <1>2, <1>5, <2>2, <3>1, <3>3
      <2>6. Agrees(Carried(m), a)
            BY Zenon, <2>2, <2>5 DEF Supported, SentHold
      <2>7. Carried(m) \in Fragment
            BY Zenon, <2>2, FragmentsType DEF Settled
      <2>8. LastTerm(log[n]) > LastTerm(a) => Extends(log[n], a)
            BY Zenon DEF Supported, LaterHold
      <2>   QED  BY Zenon, <1>1, <1>2, <1>5, <2>3, <2>4, <2>6, <2>7, <2>8, TookLater
<1>   QED  BY Zenon, <1>3, <1>4, <1>5, LogChanges

\* Only a leader sends appends and snapshots, from the log it has then.
LEMMA SentNew ==
    ASSUME NEW n \in Node, Step(n), NEW x \in msgs', FromLeader(x), x \notin msgs
    PROVE  /\ Leading(n) \/ Proposing(n) \/ Winning(n)
           /\ LeaderMessage(n, log'[n], commitIndex'[n], x)
<1>1. CASE Quiet(n)
      <2>1. ~ Plain(x)
            BY Zenon DEF Plain
      <2>2. ~ Asking(n, x)
            BY DEF Asking, FromLeader
      <2>   QED  BY Zenon, <1>1, <2>1, <2>2 DEF Quiet
<1>2. CASE \E m \in msgs : Following(n, m)
      BY Zenon, <1>2 DEF Following, Plain, Acking
<1>3. CASE Leading(n)
      BY Zenon, <1>3 DEF Leading
<1>4. CASE Proposing(n) \/ Winning(n)
      BY Zenon, <1>4 DEF Proposing, Winning, Appending
<1>   QED  BY Zenon, <1>1, <1>2, <1>3, <1>4 DEF Step

\* Who sends as a leader holds a, before and after.
LEMMA SenderHolds ==
    ASSUME QuorumsMeet, Settled, Settled', MatchInv, OwnEntry, NEW n \in Node,
           Leading(n) \/ Proposing(n) \/ Winning(n), NEW a, Held(a),
           NEW Q \in SUBSET Node, IsQuorum(Q), Supported(a, Q),
           currentTerm[n] >= LastTerm(a)
    PROVE  Extends(log'[n], a)
<1>1. CASE Leading(n)
      <2>1. Extends(log[n], a)
            BY Zenon, <1>1, LeaderHolds DEF Leading, Settled, MatchInv, Supported
      <2>   QED  BY Zenon, <1>1, <2>1 DEF Leading
<1>2. CASE Proposing(n) \/ Winning(n)
      <2>1. Extends(log[n], a) /\ Appending(n) /\ a \in Seq(Entry)
            BY Zenon, <1>2, AppendingHolds DEF Proposing, Winning, Held
      <2>   QED  BY Zenon, <2>1, AppendingKeeps
<1>   QED  BY Zenon, <1>1, <1>2

LEMMA SentHoldStep ==
    ASSUME NaturalsWellOrdered, QuorumsMeet, Settled, Settled', MatchInv,
           OwnEntry, NEW n \in Node, Step(n), NEW a, Held(a),
           NEW Q \in SUBSET Node, IsQuorum(Q), Supported(a, Q)
    PROVE  SentHold(a)'
<1>1. SUFFICES ASSUME NEW x \in msgs', FromLeader(x), x.term >= LastTerm(a)
               PROVE  Agrees(Carried(x), a)
      BY Zenon DEF SentHold
<1>2. CASE x \in msgs
      BY Zenon, <1>1, <1>2 DEF Supported, SentHold
<1>3. CASE x \notin msgs
      <2>1. /\ Leading(n) \/ Proposing(n) \/ Winning(n)
            /\ Part(Carried(x), Whole(log'[n])) /\ x.term = currentTerm[n]
            BY Zenon, <1>1, <1>3, SentNew DEF LeaderMessage
      <2>2. Extends(log'[n], a)
            BY Zenon, <1>1, <2>1, SenderHolds
      <2>3. log'[n] \in Seq(Entry) /\ Sorted(log'[n])
            BY Zenon, LogsNext
      <2>4. Carried(x) \in Fragment
            BY Zenon, <1>1, FragmentsTypeNext DEF Settled
      <2>   QED  BY Zenon, <2>1, <2>2, <2>3, <2>4, PartAgrees DEF Held
<1>   QED  BY Zenon, <1>2, <1>3

\* A candidate that was voted for in the term it is in, has not moved since.
LEMMA ChosenKept ==
    ASSUME Settled, Settled', MatchInv, NEW n \in Node, Step(n),
           NEW c \in Node, NEW t \in Nat, t <= currentTerm[c],
           role'[c] = "Candidate", currentTerm'[c] = t
    PROVE  /\ role[c] = "Candidate" /\ currentTerm[c] = t /\ log'[c] = log[c]
<1>1. /\ log'[c] = log[c]
      /\ \/ role[c] = "Candidate" /\ currentTerm'[c] = currentTerm[c]
         \/ currentTerm[c] < currentTerm'[c]
      BY Zenon, CandidatesKept
<1>2. currentTerm[c] \in Nat
      BY Zenon, StepHistory
<1>3. ~ (currentTerm[c] < currentTerm'[c])
      BY <1>2
<1>   QED  BY Zenon, <1>1, <1>3

LEMMA ChosenHoldStep ==
    ASSUME NaturalsWellOrdered, Settled, Settled', MatchInv, NEW n \in Node,
           Step(n), NEW a, Held(a), NEW Q \in SUBSET Node, Supported(a, Q),
           \A v \in Q : currentTerm'[v] > LastTerm(a) => Extends(log[v], a)
    PROVE  ChosenHold(a, Q)'
<1>1. SUFFICES ASSUME NEW b \in ballots', b.voter \in Q, b.term > LastTerm(a),
                      role'[b.candidate] = "Candidate",
                      currentTerm'[b.candidate] = b.term
               PROVE  Extends(log'[b.candidate], a)
      BY Zenon DEF ChosenHold
<1> DEFINE c == b.candidate
<1>2. c \in Node /\ b.term \in Nat
      BY DEF Settled, TypeInv, HistoryOK
<1>   HIDE DEF c
<1>3. CASE b \in ballots
      <2>1. b.term <= currentTerm[c]
            BY Zenon, <1>3 DEF MatchInv, VotesSent, c
      <2>2. role[c] = "Candidate" /\ currentTerm[c] = b.term /\ log'[c] = log[c]
            BY Zenon, <1>1, <1>2, <2>1, ChosenKept DEF c
      <2>   QED  BY Zenon, <1>1, <1>3, <2>2 DEF Supported, ChosenHold, c
<1>4. CASE b \notin ballots
      <2>1. Quiet(n) /\ Voting(n, b)
            BY Zenon, <1>4, VotesCast
      <2>2. Extends(log[n], a)
            BY Zenon, <1>1, <2>1 DEF Voting
      <2>3. CASE c = n
            BY Zenon, <2>1, <2>2, <2>3 DEF Quiet, c
      <2>4. ASSUME NEW m \in msgs, m.type = "RequestVote", m.from = c,
                   m.term = b.term, CandidateLogIsUpToDate(n, m)
            PROVE  Extends(log'[c], a)
        <3>1. m.term <= currentTerm[c]
              BY Zenon, <2>4 DEF MatchInv, VotesSent
        <3>2. role[c] = "Candidate" /\ currentTerm[c] = b.term /\ log'[c] = log[c]
              BY Zenon, <1>1, <1>2, <2>4, <3>1, ChosenKept DEF c
        <3>3. m.lastIndex = Len(log[c]) /\ m.lastTerm = LastTerm(log[c])
              BY Zenon, <2>4, <3>2 DEF MatchInv, VotesSent
        <3>4. \/ LastTerm(log[c]) > LastTerm(log[n])
              \/ LastTerm(log[c]) = LastTerm(log[n]) /\ Len(log[c]) >= Len(log[n])
              BY Zenon, <2>4, <3>3 DEF CandidateLogIsUpToDate, LastIndex
        <3>5. /\ a \in Seq(Entry) /\ Len(a) >= 1 /\ Len(a) \in Nat
              /\ LastTerm(a) \in Nat /\ Len(a) <= Len(log[n])
              /\ Coherent(Whole(a), Whole(log[c]))
              BY Zenon, <1>2, <2>2, HeldFacts, LastTermFacts, FragmentsType
                 DEF Settled, MatchInv, Match, Extends
        <3>6. /\ log[n] \in Seq(Entry) /\ Sorted(log[n]) /\ log[c] \in Seq(Entry)
              /\ Len(log[n]) \in Nat /\ Len(log[c]) \in Nat
              /\ LastTerm(log[n]) \in Nat /\ LastTerm(log[c]) \in Nat
              BY Zenon, <1>2, NodeDurable, LastTermType DEF Settled, TypeInv
        <3>7. LastTerm(log[n]) >= LastTerm(a)
              BY Zenon, <2>2, <3>5, <3>6, ExtendsTerms
        <3>8. CASE LastTerm(log[c]) > LastTerm(a)
              BY Zenon, <1>2, <3>2, <3>8 DEF Supported, LaterHold
        <3>9. CASE LastTerm(log[c]) = LastTerm(a) /\ Len(log[c]) >= Len(log[n])
          <4>1. /\ Len(log[c]) >= 1 /\ Len(a) <= Len(log[c])
                BY <3>5, <3>6, <3>9
          <4>2. /\ Len(log[c]) \in 1 .. Len(log[c])
                /\ log[c][Len(log[c])].term = LastTerm(a)
                BY Zenon, <3>6, <3>9, <4>1, LastTermFacts
          <4>   QED  BY Zenon, <3>2, <3>5, <3>6, <4>1, <4>2, SameTermExtends
        <3>   QED  BY <3>4, <3>5, <3>6, <3>7, <3>8, <3>9
      <2>   QED  BY Zenon, <2>1, <2>3, <2>4 DEF Voting, c
<1>   QED  BY Zenon, <1>3, <1>4

LEMMA SupportedStep ==
    ASSUME NaturalsWellOrdered, QuorumsMeet, Settled, Settled', MatchInv,
           OwnEntry, NEW n \in Node, Step(n), NEW a, Held(a),
           NEW Q \in SUBSET Node, IsQuorum(Q), Supported(a, Q),
           \A v \in Q : currentTerm'[v] > LastTerm(a) => Extends(log[v], a)
    PROVE  Supported(a, Q)'
<1>1. VotersHold(a, Q)'
      BY Zenon, VotersHoldStep DEF Supported
<1>2. LaterHold(a)'
      BY Zenon, LaterHoldStep
<1>3. SentHold(a)'
      BY Zenon, SentHoldStep
<1>4. ChosenHold(a, Q)'
      BY Zenon, ChosenHoldStep
<1>   QED  BY Zenon, <1>1, <1>2, <1>3, <1>4 DEF Supported

-----------------------------------------------------------------------------
(***************************************************************************)
(* What leaders send and followers acknowledge.                            *)
(***************************************************************************)

\* Only a follower acknowledges, and what it has just taken.
LEMMA AcksNew ==
    ASSUME NEW n \in Node, Step(n), NEW x \in msgs', IsAck(x), x \notin msgs
    PROVE  \E m \in msgs : Following(n, m) /\ Acking(n, m, x)
<1>1. CASE Quiet(n)
      <2>1. ~ Plain(x)
            BY Zenon DEF Plain
      <2>2. ~ Asking(n, x)
            BY DEF Asking, IsAck
      <2>   QED  BY Zenon, <1>1, <2>1, <2>2 DEF Quiet
<1>2. CASE \E m \in msgs : Following(n, m)
      BY Zenon, <1>2 DEF Following, Plain
<1>3. CASE Leading(n) \/ Proposing(n) \/ Winning(n)
      <2>1. x.type \in {"AppendEntries", "InstallSnapshot"}
            BY Zenon, <1>3 DEF Leading, Proposing, Winning, Appending, LeaderMessage
      <2>   QED  BY <2>1 DEF IsAck
<1>   QED  BY Zenon, <1>1, <1>2, <1>3 DEF Step

\* The sender of a leader's message, and what it acknowledges to.
LEMMA SenderLeads ==
    ASSUME Settled, NEW m \in msgs, FromLeader(m)
    PROVE  m.from \in Node /\ m.term \in Nat /\ Leads(m.from, m.term)
BY Zenon, Delivered DEF Settled, ElectionInv, Backed, FromLeader

LEMMA AcksLedStep ==
    ASSUME Settled, Settled', NEW n \in Node, Step(n), AcksLed
    PROVE  AcksLed'
<1>1. SUFFICES ASSUME NEW r \in msgs', IsAck(r)
               PROVE  /\ [node |-> r.to, term |-> r.term] \in leaderships'
                      /\ r.term <= currentTerm'[r.from]
      BY Zenon DEF AcksLed, Leads
<1>2. leaderships \subseteq leaderships'
      BY Zenon, StepHistory
<1>3. CASE r \in msgs
      <2>1. /\ [node |-> r.to, term |-> r.term] \in leaderships
            /\ r.term <= currentTerm[r.from]
            BY Zenon, <1>1, <1>3 DEF AcksLed, Leads
      <2>2. r.from \in Node /\ r.term \in Nat
            BY Zenon, <1>3, Delivered DEF Settled
      <2>3. /\ currentTerm[r.from] <= currentTerm'[r.from]
            /\ currentTerm[r.from] \in Nat /\ currentTerm'[r.from] \in Nat
            BY Zenon, <2>2, StepHistory
      <2>4. r.term <= currentTerm'[r.from]
            BY <2>1, <2>2, <2>3
      <2>   QED  BY Zenon, <1>2, <2>1, <2>4
<1>4. CASE r \notin msgs
      <2>1. PICK m \in msgs : Following(n, m) /\ Acking(n, m, r)
            BY Zenon, <1>1, <1>4, AcksNew
      <2>2. [node |-> m.from, term |-> m.term] \in leaderships /\ m.term \in Nat
            BY Zenon, <2>1, SenderLeads DEF Following, Leads
      <2>3. r.from = n /\ r.to = m.from /\ r.term = m.term /\ currentTerm'[n] = m.term
            BY Zenon, <2>1 DEF Following, Acking
      <2>4. r.term <= currentTerm'[r.from]
            BY <2>2, <2>3
      <2>   QED  BY Zenon, <1>2, <2>2, <2>3, <2>4
<1>   QED  BY Zenon, <1>3, <1>4

\* A leader that has been one for longer keeps its log and may add to it.
LEMMA LeadersGrow ==
    ASSUME Settled, NEW n \in Node, Step(n), NEW k \in Node,
           role[k] = "Leader", role'[k] = "Leader"
    PROVE  /\ currentTerm'[k] = currentTerm[k]
           /\ log[k] \in Seq(Entry) /\ log'[k] \in Seq(Entry)
           /\ Len(log[k]) \in Nat /\ Len(log'[k]) \in Nat
           /\ Extends(log'[k], log[k]) /\ Part(Whole(log[k]), Whole(log'[k]))
<1>1. log[k] \in Seq(Entry) /\ Len(log[k]) \in Nat
      BY Zenon, NodeDurable DEF Settled, TypeInv
<1>2. Extends(log[k], log[k])
      BY <1>1 DEF Extends
<1>3. CASE currentTerm'[k] = currentTerm[k] /\ log'[k] = log[k]
      BY Zenon, <1>1, <1>2, <1>3, PartReflexive
<1>4. CASE k = n /\ Appending(n)
      <2>1. log'[k] \in Seq(Entry) /\ Extends(log'[k], log[k])
            BY Zenon, <1>1, <1>2, <1>4, AppendingKeeps
      <2>2. /\ Len(log[k]) <= Len(log'[k])
            /\ \A i \in 1 .. Len(log[k]) : log[k][i] = log'[k][i]
            BY Zenon, <2>1 DEF Extends
      <2>3. Part(Whole(log[k]), Whole(log'[k]))
            BY Zenon, <1>1, <2>1, <2>2, PrefixPart
      <2>   QED  BY Zenon, <1>1, <1>4, <2>1, <2>3, EntryTerms DEF Appending
<1>   QED  BY Zenon, <1>3, <1>4, LeadersKept DEF Proposing, Winning

\* Who has just won has sent nothing in its term, and nobody has answered it.
LEMMA WinnerNew ==
    ASSUME Settled, MatchInv, AcksLed, NEW n \in Node, Winning(n)
    PROVE  /\ \A m \in msgs : FromLeader(m) /\ m.from = n => m.term # currentTerm[n]
           /\ \A r \in msgs : IsAck(r) /\ r.to = n => r.term # currentTerm[n]
<1>1. ~ Leads(n, currentTerm[n])
      BY Zenon DEF MatchInv, CandidateNew, Winning
<1>2. \A m \in msgs : FromLeader(m) => Leads(m.from, m.term)
      BY Zenon, SenderLeads
<1>   QED  BY Zenon, <1>1, <1>2 DEF AcksLed

\* Who leads in the next state and did not before has just won.
LEMMA LeadersNew ==
    ASSUME NEW n \in Node, Step(n), NEW k \in Node, role'[k] = "Leader",
           role[k] # "Leader"
    PROVE  k = n /\ Winning(n)
BY Zenon, LeadersKept DEF Proposing

LEMMA SentPartsStep ==
    ASSUME Settled, Settled', MatchInv, NEW n \in Node, Step(n), AcksLed, SentParts
    PROVE  SentParts'
<1>1. SUFFICES ASSUME NEW m \in msgs', FromLeader(m), role'[m.from] = "Leader",
                      currentTerm'[m.from] = m.term
               PROVE  Part(Carried(m), Whole(log'[m.from]))
      BY Zenon DEF SentParts
<1> DEFINE k == m.from
<1>   HIDE DEF k
<1>2. CASE m \notin msgs
      BY Zenon, <1>1, <1>2, SentNew DEF LeaderMessage
<1>3. CASE m \in msgs /\ role[k] = "Leader"
      <2>1. k \in Node
            BY Zenon, <1>3, Delivered DEF Settled, k
      <2>2. currentTerm'[k] = currentTerm[k] /\ Part(Whole(log[k]), Whole(log'[k]))
            BY Zenon, <1>1, <1>3, <2>1, LeadersGrow DEF k
      <2>3. Part(Carried(m), Whole(log[k]))
            BY Zenon, <1>1, <1>3, <2>2 DEF SentParts, k
      <2>   QED  BY Zenon, <2>2, <2>3, PartTransitive DEF k
<1>4. CASE m \in msgs /\ role[k] # "Leader"
      <2>1. k \in Node
            BY Zenon, <1>4, Delivered DEF Settled, k
      <2>2. k = n /\ Winning(n)
            BY Zenon, <1>1, <1>4, <2>1, LeadersNew DEF k
      <2>3. currentTerm'[n] = currentTerm[n]
            BY Zenon, <2>2 DEF Winning, Appending
      <2>   QED  BY Zenon, <1>1, <1>4, <2>2, <2>3, WinnerNew DEF k
<1>   QED  BY Zenon, <1>2, <1>3, <1>4

LEMMA OwnEntryStep ==
    ASSUME Settled, NEW n \in Node, Step(n), OwnEntry
    PROVE  OwnEntry'
<1>1. SUFFICES ASSUME NEW k \in Node, role'[k] = "Leader"
               PROVE  LastTerm(log'[k]) = currentTerm'[k]
      BY Zenon DEF OwnEntry
<1>2. CASE /\ role[k] = "Leader" /\ currentTerm'[k] = currentTerm[k]
           /\ log'[k] = log[k]
      BY Zenon, <1>2 DEF OwnEntry
<1>3. CASE k = n /\ Appending(n)
      BY Zenon, <1>3, AppendingKeeps DEF Appending
<1>   QED  BY Zenon, <1>1, <1>2, <1>3, LeadersKept DEF Proposing, Winning

\* The prefix of a log as a log of its own.
LEMMA PrefixFacts ==
    ASSUME NEW l \in Seq(Entry), NEW i \in 1 .. Len(l)
    PROVE  LET a == SubSeq(l, 1, i)
           IN  /\ a \in Seq(Entry) /\ Len(a) = i /\ Len(a) >= 1
               /\ \A j \in 1 .. i : a[j] = l[j]
               /\ Extends(l, a) /\ LastTerm(a) = l[i].term
<1> DEFINE a == SubSeq(l, 1, i)
<1>1. /\ Len(l) \in Nat /\ i \in 0 .. Len(l) /\ i \in Nat /\ i >= 1 /\ i <= Len(l)
      /\ i \in 1 .. i
      BY EntryTerms
<1>2. a \in Seq(Entry) /\ Len(a) = i /\ \A j \in 1 .. i : a[j] = l[j]
      BY Zenon, <1>1, PrefixProperties
<1>   HIDE DEF a
<1>3. LastTerm(a) = a[Len(a)].term
      BY Zenon, <1>1, <1>2, LastTermFacts
<1>   QED  BY Zenon, <1>1, <1>2, <1>3 DEF a, Extends

\* Starting with a prefix is being the same up to its end.
LEMMA PrefixSame ==
    ASSUME NEW l, NEW a \in Seq(Entry), NEW c \in 1 .. Len(a),
           NEW s \in Seq(Entry), Len(s) = c, \A j \in 1 .. c : s[j] = a[j]
    PROVE  Extends(l, s) <=> SameUpTo(l, a, c)
<1>1. c <= Len(a)
      BY EntryTerms
<1>   QED  BY Zenon, <1>1 DEF Extends, SameUpTo

LEMMA SameTransitive ==
    ASSUME NEW l, NEW k, NEW a, NEW c, SameUpTo(l, a, c), SameUpTo(k, a, c)
    PROVE  SameUpTo(l, k, c)
BY Zenon DEF SameUpTo

LEMMA SameLess ==
    ASSUME NEW l \in Seq(Entry), NEW k \in Seq(Entry), NEW c \in Nat,
           NEW d \in Nat, d <= c, SameUpTo(l, k, c)
    PROVE  SameUpTo(l, k, d)
<1>1. Len(l) \in Nat /\ Len(k) \in Nat
      BY Zenon, EntryTerms
<1>2. d <= Len(l) /\ d <= Len(k) /\ \A j \in 1 .. d : j \in 1 .. c
      BY <1>1 DEF SameUpTo
<1>   QED  BY Zenon, <1>2 DEF SameUpTo

LEMMA SameExtends ==
    ASSUME NEW l \in Seq(Entry), NEW k \in Seq(Entry), NEW a \in Seq(Entry),
           NEW c \in Nat, SameUpTo(l, a, c), Extends(k, a)
    PROVE  SameUpTo(l, k, c)
<1>1. Len(l) \in Nat /\ Len(k) \in Nat /\ Len(a) \in Nat
      BY Zenon, EntryTerms
<1>2. c <= Len(k) /\ \A j \in 1 .. c : j \in 1 .. Len(a)
      BY <1>1 DEF SameUpTo, Extends
<1>   QED  BY Zenon, <1>2 DEF SameUpTo, Extends

\* A message in the term of a leader comes from it.
LEMMA SenderIsLeader ==
    ASSUME Settled, NEW m \in msgs, FromLeader(m), NEW k \in Node,
           role[k] = "Leader", m.term = currentTerm[k]
    PROVE  m.from = k
<1>1. Leads(m.from, m.term) /\ Leads(k, currentTerm[k])
      BY Zenon, SenderLeads DEF Settled, ElectionInv, RoleBacked
<1>   QED  BY <1>1 DEF Leads, Settled, ElectionSafety

\* What is held for a leader stays held.
LEMMA HoldsStep ==
    ASSUME NaturalsWellOrdered, Settled, Settled', MatchInv, SentParts,
           NEW n \in Node, Step(n), NEW k \in Node, role[k] = "Leader",
           role'[k] = "Leader", NEW v \in Node, NEW i \in Nat, Holds(k, v, i)
    PROVE  Holds(k, v, i)'
<1>1. SUFFICES ASSUME i >= 1
               PROVE  /\ i <= Len(log'[k]) /\ currentTerm'[v] >= currentTerm'[k]
                      /\ currentTerm'[v] = currentTerm'[k] =>
                             SameUpTo(log'[v], log'[k], i)
      BY Zenon DEF Holds
<1>2. /\ i <= Len(log[k]) /\ currentTerm[v] >= currentTerm[k]
      /\ currentTerm[v] = currentTerm[k] => SameUpTo(log[v], log[k], i)
      BY Zenon, <1>1 DEF Holds
<1>3. /\ currentTerm'[k] = currentTerm[k]
      /\ log[k] \in Seq(Entry) /\ log'[k] \in Seq(Entry)
      /\ Len(log[k]) \in Nat /\ Len(log'[k]) \in Nat
      /\ Extends(log'[k], log[k])
      BY Zenon, LeadersGrow
<1>4. /\ currentTerm[v] <= currentTerm'[v]
      /\ currentTerm[v] \in Nat /\ currentTerm'[v] \in Nat /\ currentTerm[k] \in Nat
      BY Zenon, StepHistory
<1>5. i <= Len(log'[k]) /\ currentTerm'[v] >= currentTerm'[k] /\ i \in 1 .. Len(log[k])
      BY <1>1, <1>2, <1>3, <1>4 DEF Extends
<1>6. ASSUME currentTerm'[v] = currentTerm'[k]
      PROVE  SameUpTo(log'[v], log'[k], i)
      <2>1. currentTerm[v] = currentTerm[k]
            BY <1>2, <1>3, <1>4, <1>6
      <2> DEFINE a == SubSeq(log[k], 1, i)
      <2>2. /\ a \in Seq(Entry) /\ Len(a) = i /\ Len(a) >= 1
            /\ \A j \in 1 .. i : a[j] = log[k][j]
            /\ Extends(log[k], a)
            BY Zenon, <1>3, <1>5, PrefixFacts
      <2>   HIDE DEF a
      <2>3. Held(a)
            BY Zenon, <2>2 DEF Held
      <2>4. Extends(log[v], a)
            BY Zenon, <1>2, <1>3, <1>5, <2>1, <2>2, PrefixSame
      <2>5. ASSUME NEW m \in msgs, v = n, Following(n, m)
            PROVE  Agrees(Carried(m), a)
        <3>1. FromLeader(m) /\ m.term = currentTerm[k]
              BY Zenon, <1>3, <1>6, <2>5 DEF Following
        <3>2. m.from = k
              BY Zenon, <3>1, SenderIsLeader
        <3>3. Part(Carried(m), Whole(log[k])) /\ Carried(m) \in Fragment
              BY Zenon, <3>1, <3>2, FragmentsType, LeaderMessageKinds
                 DEF SentParts, Settled
        <3>4. Sorted(log[k])
              BY Zenon, NodeDurable DEF Settled, TypeInv
        <3>   QED  BY Zenon, <1>3, <2>2, <3>3, <3>4, PartAgrees
      <2>6. Extends(log'[v], a)
            BY Zenon, <2>3, <2>4, <2>5, KeepsStep
      <2>7. SameUpTo(log'[v], log[k], i)
            BY Zenon, <1>3, <1>5, <2>2, <2>6, PrefixSame
      <2>8. log'[v] \in Seq(Entry)
            BY Zenon, LogsNext
      <2>   QED  BY Zenon, <1>3, <2>7, <2>8, SameExtends
<1>   QED  BY Zenon, <1>5, <1>6

\* What a leader counts as matched in the next state.
LEMMA ProgressNext ==
    ASSUME Settled, NEW n \in Node, Step(n), NEW k \in Node, role'[k] = "Leader",
           NEW v \in Node
    PROVE  LET i == progress'[k][v].match
           IN  \/ i = 0
               \/ v = k /\ i <= Len(log'[k])
               \/ role[k] = "Leader" /\ i = progress[k][v].match
               \/ /\ role[k] = "Leader"
                  /\ \E r \in msgs : /\ IsAck(r) /\ r.from = v /\ r.to = k
                                     /\ r.term = currentTerm[k] /\ r.match = i
<1>1. CASE k # n
      BY Zenon, <1>1 DEF Step, Quiet, Leading, Proposing, Winning, Appending,
                         Following, Others
<1>2. CASE k = n /\ Quiet(n)
      BY Zenon, <1>2 DEF Quiet
<1>3. CASE k = n /\ Leading(n)
      BY Zenon, <1>3 DEF Leading
<1>4. CASE k = n /\ (Proposing(n) \/ Winning(n)) /\ v # n
      BY Zenon, <1>4 DEF Proposing, Winning
<1>5. CASE k = n /\ (Proposing(n) \/ Winning(n)) /\ v = n
      <2>1. /\ Len(log'[n]) = Len(log[n]) + 1
            /\ progress'[n][n].match = Len(log[n]) + 1
            BY Zenon, <1>5, AppendingKeeps DEF Proposing, Winning, Appending
      <2>2. Len(log[n]) \in Nat
            BY Zenon, NodeDurable DEF Settled, TypeInv
      <2>3. progress'[n][n].match <= Len(log'[n])
            BY <2>1, <2>2
      <2>   QED  BY Zenon, <1>5, <2>3
<1>6. CASE k = n /\ \E m \in msgs : Following(n, m)
      BY <1>6 DEF Following
<1>   QED  BY Zenon, <1>1, <1>2, <1>3, <1>4, <1>5, <1>6 DEF Step

\* Somebody holds what is anchored.
LEMMA AnchorHeld ==
    ASSUME QuorumsMeet, NEW a, NEW Q, Anchor(a, Q)
    PROVE  Held(a)
<1>1. PICK v \in Q : v \in Q
      BY Zenon DEF QuorumsMeet, Anchor
<1>   QED  BY Zenon, <1>1 DEF Anchor, Held

\* A leader holds what a node of an earlier term, or its own, has committed.
LEMMA LeaderHoldsCommit ==
    ASSUME QuorumsMeet, Settled, MatchInv, OwnEntry, CommitsBacked,
           NEW k \in Node, role[k] = "Leader", NEW p \in Node,
           currentTerm[p] <= currentTerm[k], commitIndex[p] >= 1
    PROVE  SameUpTo(log[p], log[k], commitIndex[p])
<1>1. PICK a, Q : /\ Anchor(a, Q) /\ LastTerm(a) <= currentTerm[p]
                  /\ SameUpTo(log[p], a, commitIndex[p])
      BY Zenon DEF CommitsBacked
<1>2. Held(a) /\ LaterHold(a) /\ a \in Seq(Entry)
      BY Zenon, <1>1, AnchorHeld DEF Anchor, Supported
<1>3. /\ log[p] \in Seq(Entry) /\ log[k] \in Seq(Entry) /\ commitIndex[p] \in Nat
      /\ currentTerm[p] \in Nat /\ currentTerm[k] \in Nat /\ LastTerm(a) \in Nat
      BY Zenon, <1>2, NodeDurable, LastTermType DEF Settled, TypeInv
<1>4. currentTerm[k] >= LastTerm(a)
      BY <1>1, <1>3
<1>5. Extends(log[k], a)
      BY Zenon, <1>2, <1>4, LeaderHolds DEF Settled, MatchInv
<1>   QED  BY Zenon, <1>1, <1>2, <1>3, <1>5, SameExtends

\* A follower holds all that its leader has sent it.
LEMMA FollowedSame ==
    ASSUME NaturalsWellOrdered, QuorumsMeet, Settled, Settled', MatchInv,
           SentParts, OwnEntry, CommitsBacked, NEW n \in Node, NEW m \in msgs,
           Following(n, m), NEW k \in Node, m.from = k, role[k] = "Leader",
           currentTerm[k] = m.term, LastOf(Carried(m)) >= 1
    PROVE  SameUpTo(log'[n], log[k], LastOf(Carried(m)))
<1> DEFINE M == Carried(m)
           q == LastOf(M)
<1>1. FromLeader(m) /\ Part(M, Whole(log[k])) /\ M \in Fragment /\ Step(n)
      BY Zenon, LeaderMessageKinds DEF Following, SentParts, Settled, Step
<1>2. /\ log[k] \in Seq(Entry) /\ log[n] \in Seq(Entry) /\ log'[n] \in Seq(Entry)
      /\ Coherent(Whole(log'[n]), Whole(log[k]))
      BY Zenon, <1>1, LogsNext, NodeDurable, FragmentsType
         DEF Settled, TypeInv, Match
<1>3. /\ q \in Nat /\ M.prev \in Nat /\ M.prev <= q /\ Known(M) = M.prev .. q
      BY Zenon, <1>1, FragmentFacts
<1>4. q \in Known(M) /\ q # 0
      BY <1>3
<1>5. CASE Part(M, Whole(log'[n]))
      <2>1. /\ q \in 0 .. Len(log[k]) /\ TermIn(M, q) = TermIn(Whole(log[k]), q)
            /\ q \in 0 .. Len(log'[n]) /\ TermIn(M, q) = TermIn(Whole(log'[n]), q)
            BY Zenon, <1>1, <1>2, <1>4, <1>5, WholeFacts DEF Part
      <2>2. log'[n][q].term = log[k][q].term
            BY Zenon, <1>2, <1>4, <2>1, WholeTerms
      <2>3. q \in 1 .. Len(log'[n]) /\ q <= Len(log[k]) /\ q <= Len(log'[n])
            BY <1>2, <1>3, <1>4, <2>1, EntryTerms
      <2>4. \A j \in 1 .. q : log'[n][j] = log[k][j]
            BY Zenon, <1>2, <2>2, <2>3, CoherentLogs
      <2>   QED  BY Zenon, <2>3, <2>4 DEF SameUpTo
<1>6. CASE /\ m \in InstallSnapshot /\ log'[n] = log[n]
           /\ Len(m.snapshot) <= commitIndex[n]
      <2>1. q = Len(m.snapshot)
            BY ZenonT(30), <1>6, CarriedSnapshot, WholeFacts
      <2>2. currentTerm[n] <= currentTerm[k] /\ commitIndex[n] \in Nat
            BY Zenon, NodeDurable DEF Following, Settled, TypeInv
      <2>3. commitIndex[n] >= 1 /\ q <= commitIndex[n]
            BY <1>3, <1>6, <2>1, <2>2
      <2>4. SameUpTo(log[n], log[k], commitIndex[n])
            BY Zenon, <2>2, <2>3, LeaderHoldsCommit
      <2>   QED  BY Zenon, <1>2, <1>3, <1>6, <2>2, <2>3, <2>4, SameLess
<1>   QED  BY Zenon, <1>5, <1>6, FollowingLog DEF Settled, MatchInv

LEMMA AcksHoldStep ==
    ASSUME NaturalsWellOrdered, QuorumsMeet, Settled, Settled', MatchInv,
           NEW n \in Node, Step(n), CommitInv
    PROVE  AcksHold'
<1>0. AcksLed /\ SentParts /\ AcksHold /\ OwnEntry /\ CommitsBacked
      BY Zenon DEF CommitInv
<1>1. SUFFICES ASSUME NEW k \in Node, role'[k] = "Leader"
               PROVE  /\ \A v \in Node : Holds(k, v, progress[k][v].match)'
                      /\ \A r \in msgs' :
                             IsAck(r) /\ r.to = k /\ r.term = currentTerm'[k] =>
                                 Holds(k, r.from, r.match)'
      BY Zenon DEF AcksHold
<1>2. ASSUME NEW r \in msgs, IsAck(r), r.to = k, r.term = currentTerm[k],
             role[k] = "Leader"
      PROVE  Holds(k, r.from, r.match)'
      <2>1. r.from \in Node /\ r.match \in Nat
        <3>1. r.from \in Node /\ r \in Message
              BY Zenon, Delivered DEF Settled
        <3>2. r \in AppendEntriesResponse \/ r \in InstallSnapshotResponse
              BY Zenon, <1>2, <3>1, MessageKinds DEF IsAck
        <3>3. r.match \in Nat
              BY <3>2 DEF AppendEntriesResponse, InstallSnapshotResponse
        <3>   QED  BY Zenon, <3>1, <3>3
      <2>2. Holds(k, r.from, r.match)
            BY Zenon, <1>0, <1>2 DEF AcksHold
      <2>   QED  BY Zenon, <1>0, <1>1, <1>2, <2>1, <2>2, HoldsStep
<1>3. ASSUME NEW v \in Node
      PROVE  Holds(k, v, progress[k][v].match)'
      <2>1. PICK i \in Nat : i = progress'[k][v].match
        <3>1. progress' \in [Node -> [Node -> ProgressRecord]]
              BY Zenon DEF Settled, TypeInv, VolatileOK
        <3>2. progress'[k][v] \in ProgressRecord
              BY <3>1
        <3>   QED  BY <3>2 DEF ProgressRecord
      <2>2. CASE i = 0
        <3>1. ~ (i >= 1)
              BY <2>2
        <3>   QED  BY Zenon, <2>1, <3>1 DEF Holds
      <2>3. CASE v = k /\ i <= Len(log'[k])
        <3>1. currentTerm'[k] >= currentTerm'[k]
              BY StepHistory
        <3>   QED  BY Zenon, <2>1, <2>3, <3>1 DEF Holds, SameUpTo
      <2>4. CASE role[k] = "Leader" /\ i = progress[k][v].match
        <3>1. Holds(k, v, i)
              BY Zenon, <1>0, <2>4 DEF AcksHold
        <3>2. Holds(k, v, i)'
              BY Zenon, <1>0, <1>1, <2>4, <3>1, HoldsStep
        <3>   QED  BY Zenon, <2>1, <3>2 DEF Holds
      <2>5. CASE /\ role[k] = "Leader"
                 /\ \E r \in msgs : /\ IsAck(r) /\ r.from = v /\ r.to = k
                                    /\ r.term = currentTerm[k] /\ r.match = i
        <3>1. Holds(k, v, i)'
              BY Zenon, <1>2, <2>5
        <3>   QED  BY Zenon, <2>1, <3>1 DEF Holds
      <2>6. \/ progress'[k][v].match = 0
            \/ v = k /\ progress'[k][v].match <= Len(log'[k])
            \/ role[k] = "Leader" /\ progress'[k][v].match = progress[k][v].match
            \/ /\ role[k] = "Leader"
               /\ \E r \in msgs : /\ IsAck(r) /\ r.from = v /\ r.to = k
                                  /\ r.term = currentTerm[k]
                                  /\ r.match = progress'[k][v].match
            BY <1>1, ProgressNext
      <2>   QED  BY Zenon, <2>1, <2>2, <2>3, <2>4, <2>5, <2>6
<1>4. ASSUME NEW r \in msgs', IsAck(r), r.to = k, r.term = currentTerm'[k]
      PROVE  Holds(k, r.from, r.match)'
      <2>1. CASE r \in msgs /\ role[k] = "Leader"
            BY Zenon, <1>1, <1>2, <1>4, <2>1, LeadersGrow
      <2>2. CASE r \in msgs /\ role[k] # "Leader"
        <3>1. k = n /\ Winning(n)
              BY Zenon, <1>1, <2>2, LeadersNew
        <3>2. currentTerm'[n] = currentTerm[n]
              BY Zenon, <3>1 DEF Winning, Appending
        <3>   QED  BY Zenon, <1>0, <1>4, <2>2, <3>1, <3>2, WinnerNew
      <2>3. CASE r \notin msgs
        <3>1. PICK m \in msgs : Following(n, m) /\ Acking(n, m, r)
              BY Zenon, <1>4, <2>3, AcksNew
        <3>2. /\ r.from = n /\ m.from = k /\ m.term = currentTerm'[k]
              /\ r.match = LastOf(Carried(m)) /\ currentTerm'[n] = m.term
              /\ FromLeader(m) /\ role'[n] = "Follower"
              BY Zenon, <1>4, <3>1 DEF Following, Acking
        <3>3. k # n
              BY <1>1, <3>2
        <3>4. /\ role[k] = "Leader" /\ currentTerm'[k] = currentTerm[k]
              /\ log'[k] = log[k]
              BY Zenon, <1>1, <3>3, LeadersKept
        <3>5. ASSUME r.match >= 1
              PROVE  SameUpTo(log'[n], log'[k], r.match)
              BY Zenon, <1>0, <3>1, <3>2, <3>4, <3>5, FollowedSame
        <3>6. currentTerm'[n] >= currentTerm'[k]
              BY <3>2, StepHistory
        <3>   QED  BY Zenon, <3>2, <3>5, <3>6 DEF Holds, SameUpTo
      <2>   QED  BY Zenon, <2>1, <2>2, <2>3
<1>   QED  BY Zenon, <1>3, <1>4
=============================================================================
