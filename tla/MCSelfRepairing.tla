--------------------------- MODULE MCSelfRepairing ---------------------------
(* SelfRepairing on small instances.                                       *)
EXTENDS SelfRepairing
=============================================================================
