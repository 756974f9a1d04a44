------------------------------- MODULE MCNode -------------------------------
(* Instances of Node for TLC. *)
EXTENDS Node

CONSTANTS W1, W2, N1, N2, I1, I2, C1, C2

Quiet == [e \in Events |-> 0]

\* A machine that is set up: the operator repeats a request that failed, or
\* corrects the name or the IP, and somebody else may hold what was asked for.
Setup(offers, left) == [offers |-> offers, known |-> FALSE, chains |-> {}, left |-> left]

Renamed   == {[name |-> N1, ip |-> I1], [name |-> N2, ip |-> I1]}
Readdress == {[name |-> N1, ip |-> I1], [name |-> N1, ip |-> I2]}

\* A node that leaves with these chains, or as many as are created before.
Leaving(chains, left) ==
    [offers |-> {[name |-> N1, ip |-> I1]}, known |-> TRUE, chains |-> chains,
     left |-> [left EXCEPT !["leave"] = 1]]

Lives ==
    {Setup(offers, [Quiet EXCEPT !["register"] = 2, ![e] = 1, ![d] = 1]) :
        offers \in {Renamed, Readdress}, e \in {"fail", "foreign"}, d \in {"kill", "restart"}}
    \cup {Leaving({C1, C2}, [Quiet EXCEPT ![e] = 1]) : e \in {"fail", "kill"}}
    \cup {Leaving({C1}, [Quiet EXCEPT !["chain"] = 1]),
          Leaving({}, [Quiet EXCEPT !["maintain"] = 2])}
=============================================================================
