------------------------------ MODULE RaftLog ------------------------------
(***************************************************************************)
(* The log of one node and the questions node.rs asks of it                *)
(* (crates/aster-raft/src/log.rs).  A log is a sequence l of all the       *)
(* entries from index 1 on and the index b of its snapshot boundary:       *)
(* l[1..b] is what the snapshot contains (its data is the state reached by *)
(* applying exactly these entries) and l[b+1..] are the retained entries.  *)
(* The operators look at no entry below the boundary, as the code cannot.  *)
(***************************************************************************)
EXTENDS Integers, Sequences, FiniteSetsExt

CONSTANT Command        \* client commands a leader can be asked to replicate

\* EntryPayload::Noop, written by every new leader.
Noop == "noop"

Entry == [term : Nat, payload : Command \cup {Noop}]

\* None, for a term.
NoTerm == -1

Larger(x, y) == IF x >= y THEN x ELSE y
Smaller(x, y) == IF x <= y THEN x ELSE y

LastIndex(l) == Len(l)

LastTerm(l) == IF l = << >> THEN 0 ELSE l[Len(l)].term

TermAt(l, b, i) ==
    IF i < b \/ i > Len(l) THEN NoTerm
    ELSE IF i = 0 THEN 0 ELSE l[i].term

EntriesFrom(l, i, limit) == SubSeq(l, i, Smaller(Len(l), i + limit - 1))

TruncateAndAppend(l, from, entries) == SubSeq(l, 1, from - 1) \o entries

(***************************************************************************)
(* The lowest index reached by walking down from i, no further than the    *)
(* boundary, while the term stays the same.                                *)
(***************************************************************************)
FirstIndexOfTerm(l, b, i) ==
    Min({j \in b .. i : \A k \in j .. i : TermAt(l, b, k) = TermAt(l, b, i)})

(***************************************************************************)
(* The last index holding the term, the boundary included; NoTerm if none. *)
(***************************************************************************)
LastIndexOfTerm(l, b, term) ==
    LET holding == {j \in b .. Len(l) : TermAt(l, b, j) = term}
    IN  IF holding = {} THEN NoTerm ELSE Max(holding)
=============================================================================
