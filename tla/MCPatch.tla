------------------------------- MODULE MCPatch -------------------------------
(***************************************************************************)
(* Instances of Patch for TLC: two nodes that send, the target also to     *)
(* itself.                                                                 *)
(***************************************************************************)
EXTENDS Patch

\* One entry is enough for an outlet whose pending inlet another one's replaces.
MCRoom == [n \in Nodes |-> IF n \in Targets THEN 1 ELSE MaxEntries]
=============================================================================
