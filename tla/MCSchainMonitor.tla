-------------------------- MODULE MCSchainMonitor --------------------------
(* Instances of SchainMonitor for TLC.  Each run explores several mixes of  *)
(* outside events, those whose combinations meet in the same state.          *)
EXTENDS SchainMonitor

None == [e \in Events |-> 0]

Rotations == [None EXCEPT !["rotate"] = 2, !["fail"] = 1]
Reloads   == [None EXCEPT !["rotate"] = 1, !["ip"] = 1]
Upgrades  == [None EXCEPT !["restart"] = 1, !["down"] = 1, !["rotate"] = 1]
Repairs   == [None EXCEPT !["repair"] = 1, !["down"] = 1, !["cert"] = 1, !["kill"] = 1]

\* The mixes of a node of the group, and those of a sync node.
Kinds(members, followers) == [sync \in BOOLEAN |-> IF sync THEN followers ELSE members]

Nodes == Kinds({Rotations, Reloads, Upgrades, Repairs},
               {[None EXCEPT !["restart"] = 1, !["rotate"] = 1],
                [None EXCEPT !["rotate"] = 1, !["cert"] = 1]})

LiveMember == Kinds({[None EXCEPT !["restart"] = 1, !["kill"] = 1],
                     [None EXCEPT !["ip"] = 1, !["kill"] = 1],
                     [None EXCEPT !["repair"] = 1, !["fail"] = 1, !["kill"] = 1]}, {})

\* The mix that refutes a comment of the code.
RotateAndRepair == Kinds({[None EXCEPT !["rotate"] = 1, !["repair"] = 1]}, {})
=============================================================================
