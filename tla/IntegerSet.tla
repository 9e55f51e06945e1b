----------------------------- MODULE IntegerSet ------------------------------
(****************************************************************************)
(* A set that only grows, by the argument of each call: what MsgCaches needs*)
(* of its set of removed uids.                                              *)
(****************************************************************************)
EXTENDS Integers

CONSTANTS Numbers,  \* the integers that may be added
          None      \* no call yet

VARIABLES members,  \* what was added
          last      \* the argument of the last call

vars == <<members, last>>

Init == members = {} /\ last = None

Add(i) == members' = members \cup {i} /\ last' = i

Next == \E i \in Numbers : Add(i)

Spec == Init /\ [][Next]_vars
=============================================================================
