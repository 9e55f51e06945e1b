---------------------------- MODULE MCShellStack ----------------------------
(* ShellStack on small instances.                                          *)
EXTENDS ShellStack

CONSTANTS b0, b1, k1, p1, p2
=============================================================================
