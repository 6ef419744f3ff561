------------------------------ MODULE MCRuntime ------------------------------
(***************************************************************************)
(* Instances of RuntimeNode for TLC.                                       *)
(***************************************************************************)
EXTENDS RuntimeNode, TLC

CONSTANTS x, y, noop

Self == [leader |-> "self", log |-> << >>, commit |-> 0]
Other(log, commit) == [leader |-> "other", log |-> log, commit |-> commit]
E(term, cmd) == Entry(term, 0, cmd)

\* Another node leads and commits two entries, this node leads and proposes,
\* a third leader takes over what was committed.
Succession ==
    <<Other(<<E(1, noop), E(1, x), E(1, noop)>>, 2), Self,
      Other(<<E(1, noop), E(1, x), E(3, noop), E(3, y)>>, 4)>>

\* This node leads, is deposed by a leader that commits nothing of its own, and
\* leads again, perhaps with a command of its first term still in its log.
Return ==
    <<Self, Other(<<E(1, noop), E(2, noop)>>, 1), Self>>

(***************************************************************************)
(* The settings: both courses of events with two power failures and with   *)
(* two kills, and the first with one failure, treated fairly.              *)
(***************************************************************************)
Setting(reign, threshold, kinds, most, readings) ==
    [reign |-> reign, threshold |-> threshold, faults |-> kinds,
     maxFaults |-> most, maxReads |-> readings]

Taught == Setting(Succession, 2, {"power"}, 2, 1)
Interrupted == Setting(Succession, 2, {"kill"}, 2, 1)
Deposed == Setting(Return, 3, {"power"}, 2, 1)
Killed == Setting(Return, 3, {"kill"}, 2, 1)
Lively == Setting(Succession, 2, {"power"}, 1, 0)

\* In the last one the runtime's task runs, and a process that ended is started
\* again.
SettingsInit == setting \in {Taught, Interrupted, Deposed, Killed, Lively} /\ Init

SettingsSpec ==
    /\ SettingsInit
    /\ [][Next /\ UNCHANGED setting]_vars
    /\ WF_vars(setting = Lively /\ (Start \/ Execute) /\ UNCHANGED setting)

(***************************************************************************)
(* Every event and every start comes to an end: the runtime is always back *)
(* at its queue, with the committed entries applied and any snapshot       *)
(* install that a crash interrupted completed (run, execute_actions).      *)
(***************************************************************************)
AlwaysListensAgain == []<>(setting = Lively => Waiting)
=============================================================================
