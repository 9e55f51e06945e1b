------------------------ MODULE ConsecutiveSet_proofs ------------------------
(****************************************************************************)
(* ConsecutiveSet is a set of integers, whatever is added in whatever order.*)
(****************************************************************************)
EXTENDS ConsecutiveSet, TLAPS

LEMMA CanonicalInit == Init => Canonical
  BY DEF Init, Canonical

LEMMA CanonicalNext == Canonical /\ [Next]_vars => Canonical'
  <1> USE ConstantsAssumption DEF ConstantsAssumption, Canonical
  <1> SUFFICES ASSUME Canonical, [Next]_vars PROVE Canonical'
    OBVIOUS
  <1>1. CASE UNCHANGED vars
    BY <1>1 DEF vars
  <1>2. ASSUME NEW i \in Numbers, Add(i) PROVE Canonical'
    <2>1. i \in Int /\ i # None
      OBVIOUS
    <2>2. CASE AddFirst(i)
      BY <2>1, <2>2 DEF AddFirst
    <2>3. CASE AddAbove(i)
      <3>1. /\ min \in Int /\ max \in Int /\ min <= max /\ i > max
            /\ missing \subseteq min + 1 .. max - 1
            /\ missing' = missing \cup (max + 1 .. i - 1) /\ max' = i /\ min' = min
            /\ min # None
        BY <2>3 DEF AddAbove, Skipped
      <3>2. min <= i /\ \A j \in missing' : j \in min + 1 .. i - 1
        BY <2>1, <3>1
      <3>3. QED
        BY <2>1, <3>1, <3>2
    <2>4. CASE Fill(i)
      BY <2>4 DEF Fill
    <2>5. CASE AddBelow(i)
      <3>1. /\ min \in Int /\ max \in Int /\ min <= max /\ i < min
            /\ missing \subseteq min + 1 .. max - 1
            /\ missing' = missing \cup (i + 1 .. min - 1) /\ min' = i /\ max' = max
            /\ min # None
        BY <2>5 DEF AddBelow, Skipped
      <3>2. i <= max /\ \A j \in missing' : j \in i + 1 .. max - 1
        BY <2>1, <3>1
      <3>3. QED
        BY <2>1, <3>1, <3>2
    <2>6. CASE AddAgain(i)
      BY <2>6 DEF AddAgain, repr
    <2>7. QED
      BY <1>2, <2>2, <2>3, <2>4, <2>5, <2>6 DEF Add
  <1>3. QED
    BY <1>1, <1>2 DEF Next

\* The interval and the missing numbers stay canonical.
THEOREM StaysCanonical == Spec => []Canonical
  BY CanonicalInit, CanonicalNext, PTL DEF Spec

LEMMA MembersChange ==
  ASSUME Canonical, NEW i \in Numbers, Add(i)
  PROVE  Members' = Members \cup {i}
  <1> USE ConstantsAssumption DEF ConstantsAssumption, Canonical
  <1>1. i \in Int /\ i # None
    OBVIOUS
  <1>2. CASE AddFirst(i)
    BY <1>1, <1>2 DEF AddFirst, Members, Contains
  <1>3. CASE AddAbove(i)
    <2>1. /\ min # None /\ i # None /\ min \in Int /\ max \in Int /\ min <= max
          /\ missing \subseteq min + 1 .. max - 1
          /\ i > max /\ missing' = missing \cup (max + 1 .. i - 1)
          /\ max' = i /\ min' = min
      BY <1>1, <1>3 DEF AddAbove, Skipped
    <2> HIDE ConstantsAssumption DEF Canonical
    <2>2. ASSUME NEW j PROVE j \in Members' <=> j \in Members \cup {i}
      <3>1. j \in Members <=> j \in min .. max /\ j \notin missing
        BY <2>1 DEF Members, Contains
      <3>2. j \in Members' <=> j \in min' .. max' /\ j \notin missing'
        BY <2>1 DEF Members, Contains
      <3>3. QED
        BY <1>1, <2>1, <3>1, <3>2
    <2>3. QED
      BY <2>2
  <1>4. CASE Fill(i)
    <2>1. /\ min # None /\ min \in Int /\ max \in Int /\ i \in missing /\ min < i /\ i < max
          /\ missing' = missing \ {i} /\ max' = max /\ min' = min
      BY <1>4 DEF Fill
    <2> HIDE ConstantsAssumption DEF Canonical
    <2>2. ASSUME NEW j PROVE j \in Members' <=> j \in Members \cup {i}
      <3>1. j \in Members <=> j \in min .. max /\ j \notin missing
        BY <2>1 DEF Members, Contains
      <3>2. j \in Members' <=> j \in min' .. max' /\ j \notin missing'
        BY <2>1 DEF Members, Contains
      <3>3. QED
        BY <1>1, <2>1, <3>1, <3>2
    <2>3. QED
      BY <2>2
  <1>5. CASE AddBelow(i)
    <2>1. /\ min # None /\ i # None /\ min \in Int /\ max \in Int /\ min <= max
          /\ missing \subseteq min + 1 .. max - 1
          /\ i < min /\ missing' = missing \cup (i + 1 .. min - 1)
          /\ min' = i /\ max' = max
      BY <1>1, <1>5 DEF AddBelow, Skipped
    <2> HIDE ConstantsAssumption DEF Canonical
    <2>2. ASSUME NEW j PROVE j \in Members' <=> j \in Members \cup {i}
      <3>1. j \in Members <=> j \in min .. max /\ j \notin missing
        BY <2>1 DEF Members, Contains
      <3>2. j \in Members' <=> j \in min' .. max' /\ j \notin missing'
        BY <2>1 DEF Members, Contains
      <3>3. QED
        BY <1>1, <2>1, <3>1, <3>2
    <2>3. QED
      BY <2>2
  <1>6. CASE AddAgain(i)
    <2>1. Members' = Members
      BY <1>6 DEF AddAgain, repr, Members, Contains
    <2>2. i \in Members
      BY <1>1, <1>6 DEF AddAgain, Members, Contains
    <2>3. QED
      BY <2>1, <2>2
  <1>7. QED
    BY <1>2, <1>3, <1>4, <1>5, <1>6 DEF Add

\* add and __contains__ implement a set that grows by the argument of each call.
THEOREM ImplementsIntegerSet == Spec => IsIntegerSet
  <1>1. Init => IS!Init
    BY DEF Init, IS!Init, Members
  <1>2. Canonical /\ [Next]_vars => [IS!Next]_(IS!vars)
    <2> SUFFICES ASSUME Canonical, [Next]_vars PROVE [IS!Next]_(IS!vars)
      OBVIOUS
    <2>1. CASE UNCHANGED vars
      BY <2>1 DEF vars, IS!vars, Members, Contains
    <2>2. ASSUME NEW i \in Numbers, Add(i) PROVE IS!Next
      BY <2>2, MembersChange DEF IS!Next, IS!Add, Add
    <2>3. QED
      BY <2>1, <2>2 DEF Next
  <1>3. QED
    BY <1>1, <1>2, StaysCanonical, PTL DEF Spec, IsIntegerSet, IS!Spec
=============================================================================
