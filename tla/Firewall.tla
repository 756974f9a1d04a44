------------------------------ MODULE Firewall ------------------------------
(***************************************************************************)
(* The iptables rules of the chains on a node: rule_controller.py,         *)
(* firewall_manager.py and iptables.py of core/schains/firewall.           *)
(*                                                                         *)
(* A chain owns a slot of PORTS_PER_SCHAIN ports, and its rules are those  *)
(* in the table whose port is in the slot, whoever made them.  The slot of *)
(* a chain that left is given to another chain.  A rule stands for the     *)
(* ports of one kind open for one source: everybody, a node, an IP range.  *)
(***************************************************************************)
EXTENDS Naturals, FiniteSets

CONSTANTS
    Chains,
    Slots,
    SlotOf,     \* the slot of each chain
    Sources,    \* nodes and IP ranges
    Public      \* everybody

ASSUME FirewallAssumption ==
    /\ SlotOf \in [Chains -> Slots]
    /\ Public \notin Sources

Rules == [slot : Slots, src : Sources \cup {Public}]

VARIABLES
    table,  \* rules of the INPUT chain
    want,   \* sources the config and the external state of each chain name
    sync    \* the update of the rules each monitor is at

firewallVars == <<table, want, sync>>

Syncs == [on : BOOLEAN, add : SUBSET Rules, del : SUBSET Rules]

\* Ports of no chain, whose rules other programs made.
Foreign == {[slot |-> s, src |-> Public] : s \in {i \in Slots : \A c \in Chains : SlotOf[c] # i}}

\* Rules of other programs stay.
FirewallTypeOK ==
    /\ Foreign \subseteq table /\ table \subseteq Rules
    /\ want \in [Chains -> SUBSET Sources]
    /\ sync \in [Chains -> Syncs]

NoSync == [on |-> FALSE, add |-> {}, del |-> {}]

FirewallInit ==
    /\ table = Foreign
    /\ want = [c \in Chains |-> {}]
    /\ sync = [c \in Chains |-> NoSync]

\* expected_rules and the rules of the manager.
Expected(c) == {[slot |-> SlotOf[c], src |-> s] : s \in want[c] \cup {Public}}

Actual(c) == {r \in table : r.slot = SlotOf[c]}

\* Variant: rules that are too many are fine.
NothingMissing(c) == Expected(c) \subseteq Actual(c)

RulesSynced(c) == Actual(c) = Expected(c)

\* Variant: the table is emptied first.
StartSyncAnew(c) ==
    /\ ~ sync[c].on
    /\ sync' = [sync EXCEPT ![c] = [on |-> TRUE, add |-> Expected(c), del |-> {}]]
    /\ table' = table \ Actual(c)
    /\ UNCHANGED want

\* update_rules computes the difference once.
StartSync(c) ==
    /\ ~ sync[c].on
    /\ sync' = [sync EXCEPT ![c] = [on |-> TRUE, add |-> Expected(c) \ Actual(c),
                                    del |-> Actual(c) \ Expected(c)]]
    /\ UNCHANGED <<table, want>>

\* One call each, all additions first; a rule that is there is not added again.
AddRule(c) ==
    \E r \in sync[c].add :
        /\ table' = table \cup {r}
        /\ sync' = [sync EXCEPT ![c].add = @ \ {r}]
        /\ UNCHANGED want

RemoveRule(c) ==
    /\ sync[c].add = {}
    /\ \E r \in sync[c].del :
        /\ table' = table \ {r}
        /\ sync' = [sync EXCEPT ![c].del = @ \ {r}]
        /\ UNCHANGED want

EndSync(c) ==
    /\ sync[c].on /\ sync[c].add = {} /\ sync[c].del = {}
    /\ sync' = [sync EXCEPT ![c] = NoSync]
    /\ UNCHANGED <<table, want>>
=============================================================================
