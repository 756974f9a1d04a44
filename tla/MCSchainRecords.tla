--------------------------- MODULE MCSchainRecords --------------------------
(* Instances of SchainRecords for TLC. *)
EXTENDS SchainRecords

Once(E) == [e \in Events |-> IF e \in E THEN 1 ELSE 0]

\* Two requests, with something that comes in between.
Mixes == {Once({"restart", "repair", "late"}), Once({"repair", "cert", "late"}),
          Once({"repair", "kill", "fail"}), Once({"restart", "fail"}),
          [Once({"late"}) EXCEPT !["repair"] = 2]}
=============================================================================
