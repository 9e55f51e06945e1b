---------------------------- MODULE MCTokenReader ----------------------------
(* TokenReader with a token of four bytes.                                 *)
EXTENDS TokenReader

MCToken == <<1, 2, 3, 4>>
=============================================================================
