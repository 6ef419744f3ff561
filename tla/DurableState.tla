---------------------------- MODULE DurableState ----------------------------
(***************************************************************************)
(* What the durable pager promises (ADR 0001, "Serialized Apply with       *)
(* Full-Page Redo"): a state that only moves forward, to states somebody   *)
(* asked for.  A state is the sequence of commands it results from; an     *)
(* apply extends it by one command, a snapshot by several.  A crash or a   *)
(* failed operation may leave open whether a requested state is reached,   *)
(* but what was reported is never taken back.                              *)
(***************************************************************************)
EXTENDS SequencesExt

VARIABLES history,     \* the commands of the state that is reported
          asked        \* the states operations have tried to reach

Init == history = << >> /\ asked = {}

Ask ==
    /\ \E h \in asked' : IsStrictPrefix(history, h) /\ asked' = asked \cup {h}
    /\ UNCHANGED history

Advance ==
    /\ history' \in asked
    /\ IsStrictPrefix(history, history')
    /\ UNCHANGED asked

Next == Ask \/ Advance

Spec == Init /\ [][Next]_<<history, asked>>
============================================================================
