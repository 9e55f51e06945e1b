----------------------------- MODULE MCMessaging -----------------------------
(* Messaging of small instances. *)
EXTENDS MessagingInv

\* A message is lost or one is repeated, not both: the states with both would
\* be too many.
OneFault == lost + dup <= 1
=============================================================================
