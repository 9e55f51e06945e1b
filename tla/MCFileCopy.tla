------------------------------ MODULE MCFileCopy ------------------------------
(* FileCopy on small instances.                                            *)
EXTENDS FileCopy
=============================================================================
