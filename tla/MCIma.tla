------------------------------- MODULE MCIma -------------------------------
(* Instances of Ima for TLC. *)
EXTENDS Ima

Quiet == [e \in Events |-> 0]

\* Every three events, over one or two rotations.
Mixed == {[Quiet EXCEPT !["rotate"] = 1, ![e] = @ + 1, ![f] = @ + 1, ![g] = @ + 1] :
              e, f, g \in Events}
=============================================================================
