--------------------------- MODULE MCRunnerTerminal ---------------------------
(* RunnerTerminal for TLC. *)
EXTENDS RunnerTerminal
=============================================================================
