------------------------------ MODULE MCCleaner -----------------------------
(* Instances of Cleaner for TLC. *)
EXTENDS Cleaner

CONSTANTS a, b

OneSlot == [c \in Chains |-> 1]

Mix(f) == [e \in Events |-> IF e \in DOMAIN f THEN f[e] ELSE 0]

\* One chain follows another in a slot, or comes back to its own.
FollowMixes ==
    {Mix([join |-> 2, leave |-> 1, kill |-> 1]),
     Mix([join |-> 2, leave |-> 1, iptables |-> 1]),
     Mix([join |-> 1, leave |-> 1, group |-> 1, iptables |-> 1]),
     Mix([join |-> 1, leave |-> 1, docker |-> 1, migrate |-> 1]),
     Mix([join |-> 1, leave |-> 1, docker |-> 1, iptables |-> 1, kill |-> 1])}
=============================================================================
