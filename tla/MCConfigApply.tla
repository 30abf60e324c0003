--------------------------- MODULE MCConfigApply ---------------------------
(***************************************************************************)
(* Instances of ConfigApply for TLC.  The content "ruled" pins port 1 to a *)
(* node and gives port 2 to the rule engine: activating a source opens     *)
(* port 2, removing the content closes both, and no two of the three       *)
(* configurations it can lead to have the same ports.                      *)
(***************************************************************************)
EXTENDS ConfigApply, TLC

CONSTANTS s1, none, legacy, empty, ruled

MCPorts == {1, 2}
MCFixedPorts == (empty :> {}) @@ (ruled :> {1})
MCRulePorts == (empty :> {}) @@ (ruled :> {2})
=============================================================================
