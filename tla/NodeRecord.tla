----------------------------- MODULE NodeRecord -----------------------------
(***************************************************************************)
(* What node_config.json promises to whoever reads it: a record whose      *)
(* fields are written once each, one at a time, and in an order: a node    *)
(* has an id only when its wallet is there, and a name or an address only  *)
(* when it has an id.  Everything the admin does for its chains is done in *)
(* the name of the key and the id it once read here.                       *)
(***************************************************************************)
CONSTANTS
    Fields,
    Before      \* the fields that are there before each field is

VARIABLE record     \* what each field holds: nothing, or one value

Complete(f) == \A g \in Before[f] : record[g] # {}

\* A node that is set up anew, or that was registered before.
Init ==
    /\ \A f \in Fields : \A u, v \in record[f] : u = v
    /\ \A f \in Fields : record[f] # {} => Complete(f)

\* Which value a field gets is not promised here.
Write(f) ==
    /\ record[f] = {}
    /\ Complete(f)
    /\ \E v \in record'[f] : record' = [record EXCEPT ![f] = {v}]

Next == \E f \in Fields : Write(f)

Spec == Init /\ [][Next]_record
=============================================================================
