-------------------------------- MODULE MCDkg -------------------------------
(* Instances of Dkg for TLC. *)
EXTENDS Dkg

Once(E) == [e \in Events |-> IF e \in E THEN 1 ELSE 0]

\* Two events of different kinds, and those one of which delays a round.
Pairs  == {Once({"kill", "bad"}), Once({"bad", "tx"}), Once({"down", "bad"}),
           Once({"kill", "rpc"}), Once({"down", "rpc"})}
Delays == {Once({"kill"}), Once({"down"})}
=============================================================================
