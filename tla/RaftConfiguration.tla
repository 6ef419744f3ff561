------------------------- MODULE RaftConfiguration -------------------------
(***************************************************************************)
(* The voter set of a Raft group and its quorum rules                      *)
(* (crates/aster-raft/src/types.rs, Configuration).  A configuration is    *)
(* fixed (Outgoing = {}) or joint; a joint quorum needs a majority of each *)
(* side, a majority of the union is not enough.                            *)
(***************************************************************************)
EXTENDS Integers, FiniteSets, FiniteSetsExt

CONSTANTS Incoming,   \* incoming voters, or all voters when fixed
          Outgoing    \* outgoing voters, {} when the configuration is fixed

\* Configuration::voters: the participants of either side.
Node == Incoming \cup Outgoing

HasMajority(members, voters) ==
    Cardinality(members \cap voters) > Cardinality(members) \div 2

IsQuorum(voters) ==
    /\ HasMajority(Incoming, voters)
    /\ Outgoing # {} => HasMajority(Outgoing, voters)

(***************************************************************************)
(* The largest matched index that a quorum has reached, 0 if none has.     *)
(***************************************************************************)
QuorumIndex(matched) ==
    LET reached == {i \in {matched[v] : v \in Node} :
                        IsQuorum({v \in Node : matched[v] >= i})}
    IN  IF reached = {} THEN 0 ELSE Max(reached)

ASSUME VotersAssumption ==
    /\ IsFiniteSet(Incoming)
    /\ IsFiniteSet(Outgoing)
    /\ Incoming # {}

(***************************************************************************)
(* No voter is a quorum by itself.  A one-voter group elects itself and    *)
(* commits inside a single call of step; it is outside this model.         *)
(***************************************************************************)
ASSUME SharedQuorumAssumption == \A n \in Node : ~IsQuorum({n})
=============================================================================
