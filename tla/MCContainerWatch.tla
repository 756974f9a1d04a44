-------------------------- MODULE MCContainerWatch -------------------------
(* Instances of ContainerWatch for TLC. *)
EXTENDS ContainerWatch

None == [e \in Events |-> 0]

Each      == [e \in Events |-> 1]
FewEvents   == [None EXCEPT !["raise"] = 1, !["admin"] = 1]
=============================================================================
