------------------------ MODULE MCGatherLifecycle ------------------------
(* Model-checking instances of GatherLifecycle. *)
EXTENDS GatherLifecycle

=============================================================================
