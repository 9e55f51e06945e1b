--------------------------- MODULE ConsecutiveSet ----------------------------
(****************************************************************************)
(* msgcaches.ConsecutiveSet, which stores mostly consecutive integers as an *)
(* interval and the numbers missing in it.                                  *)
(****************************************************************************)
EXTENDS Integers

CONSTANTS Numbers,  \* the integers that may be added
          None      \* the None of an empty set

ASSUME ConstantsAssumption == Numbers \subseteq Int /\ None \notin Int

VARIABLES min, max,  \* _min and _max
          missing,   \* _missing_nbrs
          last       \* what add was last called with, only observed

repr == <<min, max, missing>>
vars == <<min, max, missing, last>>

Init == min = None /\ max = None /\ missing = {} /\ last = None

\* __contains__
Contains(i) == min # None /\ min <= i /\ i <= max /\ i \notin missing

AddFirst(i) ==
    /\ min = None
    /\ min' = i /\ max' = i
    /\ UNCHANGED missing

\* i is above the interval: what is skipped is missing.
SkippedFrom(low, high) == low .. high - 1  \* mutant: the bound counted as skipped
Skipped(low, high) == low + 1 .. high - 1

AddAbove(i) ==
    /\ min # None /\ i > max
    /\ missing' = missing \cup Skipped(max, i)
    /\ max' = i
    /\ UNCHANGED min

FillForgotten(i) ==  \* mutant: an addition within the interval is lost
    /\ min # None /\ min < i /\ i < max /\ i \in missing
    /\ UNCHANGED repr
Fill(i) ==
    /\ min # None /\ min < i /\ i < max /\ i \in missing
    /\ missing' = missing \ {i}
    /\ UNCHANGED <<min, max>>

AddBelow(i) ==
    /\ min # None /\ i < min
    /\ missing' = missing \cup Skipped(i, min)
    /\ min' = i
    /\ UNCHANGED max

\* The branches of add are exclusive; i already in the set falls through them.
AddAgain(i) ==
    /\ Contains(i)
    /\ UNCHANGED repr

Add(i) ==
    /\ last' = i
    /\ AddFirst(i) \/ AddAbove(i) \/ Fill(i) \/ AddBelow(i) \/ AddAgain(i)

Next == \E i \in Numbers : Add(i)

Spec == Init /\ [][Next]_vars

-----------------------------------------------------------------------------
\* Properties.

\* The two ends are in the set, and only numbers between them are missing, so
\* that the interval and the missing numbers stand for one set only, and no
\* number is stored that need not be.
Canonical ==
    IF min = None
    THEN max = None /\ missing = {}
    ELSE /\ min \in Numbers /\ max \in Numbers /\ min <= max
         /\ missing \subseteq min + 1 .. max - 1

\* add(i) puts i, and nothing else, among what __contains__ finds: each call is
\* the step of IntegerSet with the same argument.
Members == IF min = None THEN {} ELSE {i \in min .. max : Contains(i)}

IS == INSTANCE IntegerSet WITH members <- Members
IsIntegerSet == IS!Spec
=============================================================================
