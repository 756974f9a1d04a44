---------------------------- MODULE ConfigFiles ----------------------------
(***************************************************************************)
(* The configuration files of one sChain directory, as ConfigFileManager   *)
(* (core/schains/config/file_manager.py) keeps them: any number of         *)
(* upstream configs, each named by a rotation id and the second it was     *)
(* written in, and at most one skaled config.                              *)
(*                                                                         *)
(* A config is abstracted to what the monitors compare or read in it:      *)
(*   key     the rotation id whose key share the config names              *)
(*   grp     the newest node group it lists                                *)
(*   ips     the set of node IPs of that group, as an opaque version       *)
(*   finish  finish_ts of the group before it, NoTs when there is none     *)
(*   ver     the node software version whose static parameters it holds    *)
(***************************************************************************)
EXTENDS Integers

CONSTANT NoConfig    \* the absence of a config file

\* None, where the code keeps an optional timestamp.
NoTs  == -1
OptTs == Nat \cup {NoTs}

Configs == [key : Nat, grp : Nat, ips : Nat, finish : OptTs, ver : Nat]
Files   == [rid : Nat, ts : Nat, cfg : Configs]

ASSUME NoConfigAssumption == NoConfig \notin Configs

\* UpstreamConfigFilename.__lt__ for two files of the same chain.
Precedes(f, g) == f.rid < g.rid \/ (f.rid = g.rid /\ f.ts < g.ts)

\* The file name is all of a file's identity: rotation id and second.
SameName(f, g) == f.rid = g.rid /\ f.ts = g.ts

\* latest_upstream_config: the last of the sorted upstream files.
Latest(files) == CHOOSE f \in files : \A g \in files : g = f \/ Precedes(g, f)

\* save_new_upstream: a file written in the same second for the same rotation
\* is overwritten.
SaveNewUpstream(files, f) == {g \in files : ~ SameName(f, g)} \cup {f}

UpstreamExistForRotationId(files, r) == \E f \in files : f.rid = r

\* skaled_config_synced_with_upstream: with no upstream there is nothing to sync.
SyncedWithUpstream(skaled, files) ==
    skaled # NoConfig /\ (files # {} => Latest(files).cfg = skaled)
=============================================================================
