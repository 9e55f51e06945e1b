-------------------------- MODULE MCConsecutiveSet ---------------------------
(* ConsecutiveSet for TLC: the uids of MsgCaches start with -1. *)
EXTENDS ConsecutiveSet

MCNumbers == -1 .. 7
=============================================================================
