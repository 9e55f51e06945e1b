--------------------------- MODULE MCTerminalPools ---------------------------
(* TerminalPools with jobs and terminals that are interchangeable. *)
EXTENDS TerminalPools, TLC

Symmetry == Permutations(Jobs) \cup Permutations(Terminals)
    \cup Permutations(Hosts) \cup Permutations(ExecIds)
=============================================================================
