------------------------------ MODULE MCEngine ------------------------------
(***************************************************************************)
(* Instances of Engine for TLC.  Two configs: "a" has no path, its file is *)
(* found by the scan; the path of "b" is overridden by the scan.  In the   *)
(* larger instance the file of "b" does not load, and "c" is in no         *)
(* directory, but is itself the name of a file.                            *)
(***************************************************************************)
EXTENDS EngineIsolation, TLC

MCNames == {"a", "b", "c"}
TwoNames == {"a", "b"}
MCPaths == {"models/a", "models/b"}
MCProfiles == {"tuned", "small"}
MCFiles == {"models/a", "c"}
TwoFiles == {"models/a", "models/b"}
MCConfigFiles ==
    {[name |-> "a", path |-> None, profile |-> "tuned"],
     [name |-> "b", path |-> "models/a", profile |-> "small"]}
MCModelFiles == {[name |-> "a", path |-> "models/a"],
                 [name |-> "b", path |-> "models/b"]}
Perms == Permutations(Clients)
=============================================================================
