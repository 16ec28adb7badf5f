---------------------------- MODULE MCReliableLink ----------------------------
(* Instances of ReliableLink. *)
EXTENDS ReliableLink

MCPolicies == {"reorder", "fastReorder"}
MCReorder == {"reorder"}
=============================================================================
