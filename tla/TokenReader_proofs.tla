-------------------------- MODULE TokenReader_proofs -------------------------
(****************************************************************************)
(* Proofs about TokenReader, for every token of different bytes and every   *)
(* text that a terminal prints: it is read up to the token, no further.     *)
(****************************************************************************)
EXTENDS TokenReader, FiniteSetTheorems, TLAPS

-----------------------------------------------------------------------------
(* The invariant.                                                           *)

Matchers == [first : Nat, last : Nat, start : Int]

\* The bytes end with the part of the token after its first lo bytes, up to the k-th.
Ends(lo, k, bytes) ==
    /\ k - lo <= Len(bytes)
    /\ \A i \in lo + 1 .. k : bytes[Len(bytes) - k + i] = Token[i]
\* The whole part of the token before the gap g is at i.
FirstPartAt(g, bytes, i) ==
    i + g - 1 <= Len(bytes) /\ \A j \in 1 .. g : bytes[i + j - 1] = Token[j]

\* Until the part before the gap is found, as much of it is matched as ends the bytes: no more,
\* and no less, since bytes that are all different end with one beginning of it at most.
Seeking(g, m, bytes) ==
    /\ m.last = g
    /\ Ends(0, m.first, bytes)
    /\ m.start = IF m.first = 0 THEN -1 ELSE Len(bytes) - m.first
    /\ \A k \in 1 .. g : Ends(0, k, bytes) => k = m.first
    /\ \A i \in 1 .. Len(bytes) : ~FirstPartAt(g, bytes, i)
\* Then it is the first one, and as much of the part after the gap is matched as ends what follows.
Found(g, m, bytes) ==
    /\ m.start \in 0 .. Len(bytes)
    /\ FirstPartAt(g, bytes, m.start + 1)
    /\ \A i \in 1 .. m.start : ~FirstPartAt(g, bytes, i)
    /\ m.start + m.last <= Len(bytes) /\ Ends(g, m.last, bytes)
    /\ \A k \in g + 1 .. N : m.start + k <= Len(bytes) /\ Ends(g, k, bytes) => k = m.last
MatcherInv(g, m, bytes) ==
    /\ m \in Matchers /\ m.first \in 0 .. g /\ m.last \in g .. N
    /\ IF m.first < g THEN Seeking(g, m, bytes) ELSE Found(g, m, bytes)

\* While something remains to be read, it is what the best matcher lacks, and no matcher is full.
ScanInv ==
    /\ DOMAIN matchers = Gaps
    /\ read \in Seq(Bytes) /\ remaining \in 0 .. N
    /\ \A g \in Gaps : matchers[g].first \in 0 .. g /\ matchers[g].last \in g .. N
    /\ result \in -1 .. Len(read)
    /\ remaining > 0 =>
        \A g \in Gaps : MatcherInv(g, matchers[g], read) /\ Passed(g, matchers[g]) <= N - remaining
Inv == ScanInv /\ ReadsUpToToken

-----------------------------------------------------------------------------
(* The token.                                                               *)

LEMMA TokenFacts ==
  /\ N \in Nat /\ N > 0
  /\ \A i \in 1 .. N : Token[i] \in Bytes
  /\ \A i, j \in 1 .. N : Token[i] = Token[j] => i = j
  <1>1. Token \in Seq(Range(Token)) /\ Token # <<>>
    BY ConstantsAssumption
  <1>2. DOMAIN Token = 1 .. N /\ N \in Nat
    BY <1>1 DEF N
  <1>3. N > 0
    BY <1>1, <1>2 DEF N
  <1>4. \A i \in 1 .. N : Token[i] \in Bytes
    BY <1>2 DEF Bytes, Range
  <1>5. \A i, j \in 1 .. N : Token[i] = Token[j] => i = j
    BY <1>2, ConstantsAssumption DEF IsInjective
  <1>6. QED
    BY <1>2, <1>3, <1>4, <1>5

\* What the bytes end with after one more.
LEMMA EndsAppend ==
  ASSUME NEW r \in Seq(Bytes), NEW b \in Bytes, NEW lo \in 0 .. N, NEW k \in lo + 1 .. N
  PROVE  Ends(lo, k, Append(r, b)) <=> Token[k] = b /\ Ends(lo, k - 1, r)
  <1>1. /\ Len(Append(r, b)) = Len(r) + 1 /\ Append(r, b)[Len(r) + 1] = b
        /\ \A i \in 1 .. Len(r) : Append(r, b)[i] = r[i]
        /\ Len(r) \in Nat /\ N \in Nat /\ lo \in Nat /\ k \in Nat
    BY TokenFacts
  <1> DEFINE s == Append(r, b)
  <1> HIDE DEF s
  <1>2. /\ Len(s) = Len(r) + 1 /\ s[Len(r) + 1] = b /\ \A i \in 1 .. Len(r) : s[i] = r[i]
    BY <1>1 DEF s
  <1>3. ASSUME Ends(lo, k, s)
        PROVE  Token[k] = b /\ Ends(lo, k - 1, r)
    <2>1. k - lo <= Len(r) + 1 /\ \A i \in lo + 1 .. k : s[Len(r) + 1 - k + i] = Token[i]
      BY <1>2, <1>3 DEF Ends
    <2>2. Token[k] = b
      BY <1>1, <1>2, <2>1
    <2>3. ASSUME NEW i \in lo + 1 .. k - 1
          PROVE  r[Len(r) - (k - 1) + i] = Token[i]
      <3>1. Len(r) - (k - 1) + i \in 1 .. Len(r) /\ Len(r) - (k - 1) + i = Len(r) + 1 - k + i
        BY <1>1, <2>1
      <3>2. QED
        BY <1>2, <2>1, <3>1
    <2>4. QED
      BY <1>1, <2>1, <2>2, <2>3 DEF Ends
  <1>4. ASSUME Token[k] = b, Ends(lo, k - 1, r)
        PROVE  Ends(lo, k, s)
    <2>1. (k - 1) - lo <= Len(r) /\ \A i \in lo + 1 .. k - 1 : r[Len(r) - (k - 1) + i] = Token[i]
      BY <1>4 DEF Ends
    <2>2. ASSUME NEW i \in lo + 1 .. k
          PROVE  s[Len(s) - k + i] = Token[i]
      <3>1. CASE i = k
        BY <1>1, <1>2, <1>4, <3>1
      <3>2. CASE i # k
        <4>1. i \in lo + 1 .. k - 1 /\ Len(r) - (k - 1) + i \in 1 .. Len(r)
              /\ Len(r) - (k - 1) + i = Len(s) - k + i
          BY <1>1, <1>2, <2>1, <3>2
        <4>2. QED
          BY <1>2, <2>1, <4>1
      <3>3. QED
        BY <3>1, <3>2
    <2>3. QED
      BY <1>1, <1>2, <2>1, <2>2 DEF Ends
  <1>5. QED
    BY <1>3, <1>4 DEF s

LEMMA EndsNothing ==
  ASSUME NEW r \in Seq(Bytes), NEW lo \in 0 .. N
  PROVE  Ends(lo, lo, r)
  BY TokenFacts DEF Ends

LEMMA FirstPartAppend ==
  ASSUME NEW r \in Seq(Bytes), NEW b \in Bytes, NEW g \in Gaps, NEW i \in Nat, i > 0
  PROVE  /\ i + g - 1 <= Len(r) => (FirstPartAt(g, Append(r, b), i) <=> FirstPartAt(g, r, i))
         /\ i + g - 1 = Len(r) + 1 => (FirstPartAt(g, Append(r, b), i) <=> Ends(0, g, Append(r, b)))
  <1>1. /\ Len(Append(r, b)) = Len(r) + 1 /\ \A j \in 1 .. Len(r) : Append(r, b)[j] = r[j]
        /\ Len(r) \in Nat /\ N \in Nat /\ g \in 1 .. N
    BY TokenFacts DEF Gaps
  <1> DEFINE s == Append(r, b)
  <1> HIDE DEF s
  <1>2. Len(s) = Len(r) + 1 /\ \A j \in 1 .. Len(r) : s[j] = r[j]
    BY <1>1 DEF s
  <1>3. ASSUME i + g - 1 <= Len(r)
        PROVE  FirstPartAt(g, s, i) <=> FirstPartAt(g, r, i)
    <2>1. \A j \in 1 .. g : i + j - 1 \in 1 .. Len(r)
      BY <1>1, <1>3
    <2>2. \A j \in 1 .. g : s[i + j - 1] = r[i + j - 1]
      BY <1>2, <2>1
    <2>3. i + g - 1 <= Len(s)
      BY <1>1, <1>2, <1>3
    <2>4. QED
      BY <1>3, <2>2, <2>3 DEF FirstPartAt
  <1>4. ASSUME i + g - 1 = Len(r) + 1
        PROVE  FirstPartAt(g, s, i) <=> Ends(0, g, s)
    <2>1. g - 0 <= Len(s) /\ i + g - 1 <= Len(s) /\ 0 + 1 = 1
      BY <1>1, <1>2, <1>4
    <2>2. \A j \in 1 .. g : i + j - 1 = Len(s) - g + j
      BY <1>1, <1>2, <1>4
    <2>3. QED
      BY <2>1, <2>2 DEF FirstPartAt, Ends
  <1>5. QED
    BY <1>3, <1>4 DEF s

-----------------------------------------------------------------------------
(* A byte more.                                                             *)

Scanned(g, m, b, at) == UpdateFirst(g, UpdateLast(g, m, b), b, at)

LEMMA FoundScanned ==
  ASSUME NEW g \in Gaps, NEW m, NEW r \in Seq(Bytes), NEW b \in Bytes,
         MatcherInv(g, m, r), m.first = g, m.last < N
  PROVE  /\ MatcherInv(g, Scanned(g, m, b, Len(r)), Append(r, b))
         /\ Passed(g, Scanned(g, m, b, Len(r))) <= Passed(g, m) + 1
  <1> DEFINE n == Scanned(g, m, b, Len(r))
             s == Append(r, b)
  <1>1. /\ N \in Nat /\ g \in 1 .. N /\ Len(r) \in Nat
        /\ m \in Matchers /\ m.last \in g .. N /\ Found(g, m, r)
    BY TokenFacts DEF MatcherInv, Gaps
  <1>2. Len(s) = Len(r) + 1 /\ s \in Seq(Bytes)
    OBVIOUS
  <1>3. n = IF Token[m.last + 1] = b THEN [m EXCEPT !.last = m.last + 1]
            ELSE [m EXCEPT !.last = IF Token[g + 1] = b THEN g + 1 ELSE g]
    BY <1>1 DEF Scanned, UpdateFirst, UpdateLast, FirstFound, FullMatch, Matchers
  <1>4. /\ n \in Matchers /\ n.first = g /\ n.start = m.start
        /\ n.last = IF Token[m.last + 1] = b THEN m.last + 1
                    ELSE IF Token[g + 1] = b THEN g + 1 ELSE g
    BY <1>1, <1>3 DEF Matchers
  <1>5. n.last \in g .. N /\ n.last <= m.last + 1
    BY <1>1, <1>4
  <1> HIDE DEF n, s
  <1>6. \A k \in g + 1 .. N : Ends(g, k, s) <=> Token[k] = b /\ Ends(g, k - 1, r)
    BY <1>1, EndsAppend DEF s
  <1>7. /\ m.start \in 0 .. Len(r) /\ FirstPartAt(g, r, m.start + 1)
        /\ \A i \in 1 .. m.start : ~FirstPartAt(g, r, i)
        /\ m.start + m.last <= Len(r) /\ Ends(g, m.last, r)
        /\ \A k \in g + 1 .. N : m.start + k <= Len(r) /\ Ends(g, k, r) => k = m.last
    BY <1>1 DEF Found
  <1>8. m.start + g <= Len(r)
    BY <1>1, <1>7
  <1>9. \A i \in 1 .. m.start + 1 : FirstPartAt(g, s, i) <=> FirstPartAt(g, r, i)
    BY <1>1, <1>7, <1>8, FirstPartAppend DEF s
  <1>10. FirstPartAt(g, s, n.start + 1) /\ \A i \in 1 .. n.start : ~FirstPartAt(g, s, i)
    BY <1>1, <1>4, <1>7, <1>9
  <1>11. Ends(g, n.last, s)
    <2>1. CASE Token[m.last + 1] = b
      BY <1>1, <1>4, <1>6, <1>7, <2>1
    <2>2. CASE Token[m.last + 1] # b /\ Token[g + 1] = b
      BY <1>1, <1>4, <1>6, <2>2, EndsNothing
    <2>3. CASE Token[m.last + 1] # b /\ Token[g + 1] # b
      BY <1>1, <1>2, <1>4, <2>3, EndsNothing
    <2>4. QED
      BY <2>1, <2>2, <2>3
  <1>12. ASSUME NEW k \in g + 1 .. N, n.start + k <= Len(s), Ends(g, k, s)
         PROVE  k = n.last
    <2>1. Token[k] = b /\ Ends(g, k - 1, r) /\ m.start + (k - 1) <= Len(r)
      BY <1>1, <1>2, <1>4, <1>6, <1>7, <1>12
    <2>2. CASE k = g + 1
      <3>1. Token[m.last + 1] = b => m.last = g
        BY <1>1, <2>1, <2>2, TokenFacts
      <3>2. QED
        BY <1>4, <2>1, <2>2, <3>1
    <2>3. CASE k # g + 1
      <3>1. k - 1 \in g + 1 .. N
        BY <1>1, <2>3
      <3>2. k - 1 = m.last
        BY <1>7, <2>1, <3>1
      <3>3. k = m.last + 1
        BY <1>1, <3>2
      <3>4. QED
        BY <1>4, <2>1, <3>3
    <2>4. QED
      BY <2>2, <2>3
  <1>13. Found(g, n, s)
    <2>1. n.start \in 0 .. Len(s) /\ n.start + n.last <= Len(s)
      <3>1. /\ m.start \in 0 .. Len(r) /\ m.start + m.last <= Len(r) /\ n.start = m.start
            /\ n.last <= m.last + 1 /\ n.last \in Nat /\ m.last \in Nat
        BY <1>1, <1>4, <1>5, <1>7
      <3>2. QED
        BY <1>1, <1>2, <3>1
    <2>2. QED
      BY <1>10, <1>11, <1>12, <2>1 DEF Found
  <1>14. MatcherInv(g, n, s)
    BY <1>1, <1>4, <1>5, <1>13 DEF MatcherInv
  <1>15. Passed(g, n) <= Passed(g, m) + 1
    BY <1>1, <1>4, <1>5 DEF Passed
  <1>16. QED
    BY <1>14, <1>15 DEF n, s

With(m, f, t) == [m EXCEPT !.first = f, !.start = t]

HasFields(n, first, last, start) ==
    n \in Matchers /\ n.first = first /\ n.last = last /\ n.start = start

LEMMA WithFields ==
  ASSUME NEW m \in Matchers, NEW f \in Nat, NEW t \in Int
  PROVE  HasFields(With(m, f, t), f, m.last, t)
  <1>1. /\ With(m, f, t) \in Matchers
        /\ With(m, f, t).first = f /\ With(m, f, t).start = t /\ With(m, f, t).last = m.last
    BY DEF With, Matchers
  <1>2. QED
    BY <1>1 DEF HasFields

LEMMA BegunIs ==
  ASSUME NEW m \in Matchers, NEW b, NEW at
  PROVE  Begun(m, b, at) = IF Token[m.first + 1] = b
                           THEN With(m, m.first + 1, IF m.start = -1 THEN at ELSE m.start)
                           ELSE With(m, 0, -1)
  BY DEF Begun, With, Matchers

LEMMA SeekingByte ==
  ASSUME NEW g \in Gaps, NEW m \in Matchers, NEW b, NEW at \in Nat, m.first < g, m.first <= at,
         m.start = IF m.first = 0 THEN -1 ELSE at - m.first
  PROVE  LET n == UpdateFirst(g, m, b, at)
         IN /\ n \in Matchers /\ n.last = m.last
            /\ n.first = IF Token[m.first + 1] = b THEN m.first + 1
                         ELSE IF Token[1] = b THEN 1 ELSE 0
            /\ n.start = IF n.first = 0 THEN -1 ELSE at + 1 - n.first
  <1> DEFINE n == UpdateFirst(g, m, b, at)
  <1>1. m.first \in Nat /\ m.start \in Int
    BY DEF Matchers
  <1>2. n = IF m.first > 0 /\ Token[m.first + 1] # b THEN Begun(Begun(m, b, at), b, at)
            ELSE Begun(m, b, at)
    BY <1>1, TokenFacts DEF UpdateFirst, FirstFound, Gaps
  <1> HIDE DEF n
  <1>3. CASE Token[m.first + 1] = b
    <2>1. n = With(m, m.first + 1, IF m.start = -1 THEN at ELSE m.start)
      BY <1>2, <1>3, BegunIs
    <2>2. PICK f \in Nat, t \in Int : f = m.first + 1 /\ t = at - m.first
      BY <1>1
    <2>3. n = With(m, f, t)
      BY <1>1, <2>1, <2>2
    <2>4. HasFields(With(m, f, t), f, m.last, t)
      BY WithFields
    <2>5. HasFields(n, m.first + 1, m.last, at - m.first)
      BY <2>2, <2>3, <2>4
    <2>6. QED
      BY <1>1, <1>3, <2>5 DEF n, HasFields
  <1>4. ASSUME NEW z \in Matchers
        PROVE  HasFields(With(z, 0, -1), 0, z.last, -1)
    <2>1. 0 \in Nat /\ -1 \in Int
      OBVIOUS
    <2>2. QED
      BY <2>1, WithFields
  <1>5. CASE Token[m.first + 1] # b /\ m.first = 0
    <2>1. n = With(m, 0, -1)
      BY <1>2, <1>5, BegunIs
    <2>2. HasFields(n, 0, m.last, -1)
      BY <1>4, <2>1
    <2>3. QED
      BY <1>5, <2>2 DEF n, HasFields
  <1>6. CASE Token[m.first + 1] # b /\ m.first > 0
    <2> DEFINE z == With(m, 0, -1)
    <2>1. n = Begun(z, b, at)
      BY <1>2, <1>6, BegunIs
    <2>2. HasFields(z, 0, m.last, -1)
      BY <1>4
    <2> HIDE DEF z
    <2>3. z \in Matchers /\ z.first = 0 /\ z.start = -1 /\ z.last = m.last
      BY <2>2 DEF HasFields
    <2>4. n = IF Token[1] = b THEN With(z, 1, at) ELSE With(z, 0, -1)
      BY <2>1, <2>3, BegunIs
    <2>5. CASE Token[1] = b
      <3>1. PICK f \in Nat, t \in Int : f = 1 /\ t = at
        OBVIOUS
      <3>2. HasFields(With(z, f, t), f, z.last, t)
        BY <2>3, WithFields
      <3>3. n = With(z, f, t)
        BY <2>4, <2>5, <3>1
      <3>4. HasFields(n, 1, m.last, at)
        BY <2>3, <3>1, <3>2, <3>3
      <3>5. QED
        BY <1>1, <1>6, <2>5, <3>4 DEF n, HasFields
    <2>6. CASE Token[1] # b
      <3>1. HasFields(n, 0, m.last, -1)
        BY <1>4, <2>3, <2>4, <2>6
      <3>2. QED
        BY <1>1, <1>6, <2>6, <3>1 DEF n, HasFields
    <2>7. QED
      BY <2>5, <2>6
  <1>7. QED
    BY <1>1, <1>3, <1>5, <1>6

LEMMA SeekingScanned ==
  ASSUME NEW g \in Gaps, NEW m, NEW r \in Seq(Bytes), NEW b \in Bytes,
         MatcherInv(g, m, r), m.first < g
  PROVE  /\ MatcherInv(g, Scanned(g, m, b, Len(r)), Append(r, b))
         /\ Passed(g, Scanned(g, m, b, Len(r))) <= Passed(g, m) + 1
  <1> DEFINE n == Scanned(g, m, b, Len(r))
             s == Append(r, b)
  <1>1. /\ N \in Nat /\ g \in 1 .. N /\ Len(r) \in Nat
        /\ m \in Matchers /\ m.first \in 0 .. g /\ m.last = g /\ Seeking(g, m, r)
    BY TokenFacts DEF MatcherInv, Gaps, Seeking
  <1>2. Len(s) = Len(r) + 1 /\ s \in Seq(Bytes)
    OBVIOUS
  <1>3. n = UpdateFirst(g, m, b, Len(r))
    BY <1>1 DEF Scanned, UpdateLast, FirstFound
  <1>4. /\ m.start = (IF m.first = 0 THEN -1 ELSE Len(r) - m.first)
        /\ Ends(0, m.first, r) /\ m.first <= Len(r)
        /\ \A k \in 1 .. g : Ends(0, k, r) => k = m.first
        /\ \A i \in 1 .. Len(r) : ~FirstPartAt(g, r, i)
    <2>1. Ends(0, m.first, r) => m.first - 0 <= Len(r)
      BY DEF Ends
    <2>2. m.first \in Nat
      BY <1>1
    <2>3. QED
      BY <1>1, <2>1, <2>2 DEF Seeking
  <1>5. /\ n \in Matchers /\ n.last = g
        /\ n.first = IF Token[m.first + 1] = b THEN m.first + 1
                     ELSE IF Token[1] = b THEN 1 ELSE 0
        /\ n.start = IF n.first = 0 THEN -1 ELSE Len(r) + 1 - n.first
    <2>1. n \in Matchers /\ n.last = g
      BY <1>1, <1>3, <1>4, SeekingByte
    <2>2. n.first = IF Token[m.first + 1] = b THEN m.first + 1 ELSE IF Token[1] = b THEN 1 ELSE 0
      BY <1>1, <1>3, <1>4, SeekingByte
    <2>3. n.start = IF n.first = 0 THEN -1 ELSE Len(r) + 1 - n.first
      BY <1>1, <1>3, <1>4, SeekingByte
    <2>4. QED
      BY <2>1, <2>2, <2>3
  <1> HIDE DEF n, s
  <1>6. n.first \in 0 .. g /\ n.first <= m.first + 1 /\ n.first <= Len(s)
    BY <1>1, <1>2, <1>4, <1>5
  <1>7. \A k \in 1 .. N : Ends(0, k, s) <=> Token[k] = b /\ Ends(0, k - 1, r)
    BY <1>1, EndsAppend DEF s
  <1>8. Ends(0, n.first, s)
    <2>1. CASE Token[m.first + 1] = b
      BY <1>1, <1>4, <1>5, <1>7, <2>1
    <2>2. CASE Token[m.first + 1] # b /\ Token[1] = b
      BY <1>1, <1>5, <1>7, <2>2, EndsNothing
    <2>3. CASE Token[m.first + 1] # b /\ Token[1] # b
      BY <1>1, <1>2, <1>5, <2>3, EndsNothing
    <2>4. QED
      BY <2>1, <2>2, <2>3
  <1>9. ASSUME NEW k \in 1 .. g, Ends(0, k, s)
        PROVE  k = n.first
    <2>1. Token[k] = b /\ Ends(0, k - 1, r)
      BY <1>1, <1>7, <1>9
    <2>2. CASE k = 1
      <3>1. Token[m.first + 1] = b => m.first + 1 = 1
        BY <1>1, <2>1, <2>2, TokenFacts
      <3>2. QED
        BY <1>5, <2>1, <2>2, <3>1
    <2>3. CASE k # 1
      <3>1. k - 1 = m.first
        BY <1>1, <1>4, <2>1, <2>3
      <3>2. k = m.first + 1
        BY <1>1, <3>1
      <3>3. QED
        BY <1>5, <2>1, <3>2
    <2>4. QED
      BY <2>2, <2>3
  <1>10. \A i \in 1 .. Len(s) : i + g - 1 <= Len(r) => ~FirstPartAt(g, s, i)
    <2>1. TAKE i \in 1 .. Len(s)
    <2>2. HAVE i + g - 1 <= Len(r)
    <2>3. i \in 1 .. Len(r)
      BY <1>1, <1>2, <2>2
    <2>4. QED
      BY <1>4, <2>2, <2>3, FirstPartAppend DEF s
  <1>11. \A i \in 1 .. Len(s) : FirstPartAt(g, s, i) => n.first = g /\ i + g - 1 = Len(s)
    <2>1. TAKE i \in 1 .. Len(s)
    <2>2. HAVE FirstPartAt(g, s, i)
    <2>3. i + g - 1 <= Len(s)
      BY <2>2 DEF FirstPartAt
    <2>4. i + g - 1 = Len(r) + 1
      BY <1>1, <1>2, <1>10, <2>2, <2>3
    <2>5. Ends(0, g, s)
      BY <1>2, <2>2, <2>4, FirstPartAppend DEF s
    <2>6. QED
      BY <1>1, <1>2, <1>9, <2>4, <2>5
  <1>12. CASE n.first < g
    <2>1. Seeking(g, n, s)
      BY <1>1, <1>2, <1>5, <1>8, <1>9, <1>11, <1>12 DEF Seeking
    <2>2. QED
      BY <1>1, <1>5, <1>6, <1>12, <2>1 DEF MatcherInv, Passed, n, s
  <1>13. CASE n.first = g
    <2>1. n.start = Len(s) - g /\ n.start \in 0 .. Len(s)
      BY <1>1, <1>2, <1>5, <1>6, <1>13
    <2>2. FirstPartAt(g, s, n.start + 1)
      <3>1. n.start + 1 \in Nat /\ n.start + 1 > 0 /\ (n.start + 1) + g - 1 = Len(r) + 1
        BY <1>1, <1>2, <2>1
      <3>2. QED
        BY <1>8, <1>13, <3>1, FirstPartAppend DEF s
    <2>3. \A i \in 1 .. n.start : ~FirstPartAt(g, s, i)
      BY <1>1, <1>2, <1>11, <2>1
    <2>4. \A k \in g + 1 .. N : ~(n.start + k <= Len(s))
      BY <1>1, <1>2, <2>1
    <2>5. n.start + n.last <= Len(s) /\ Ends(g, n.last, s)
      BY <1>1, <1>2, <1>5, <2>1, EndsNothing
    <2>6. Found(g, n, s)
      BY <2>1, <2>2, <2>3, <2>4, <2>5 DEF Found
    <2>7. QED
      BY <1>1, <1>5, <1>6, <1>13, <2>6 DEF MatcherInv, Passed, n, s
  <1>14. QED
    BY <1>1, <1>6, <1>12, <1>13

LEMMA ByteScanned ==
  ASSUME NEW g \in Gaps, NEW m, NEW r \in Seq(Bytes), NEW b \in Bytes,
         MatcherInv(g, m, r), Passed(g, m) < N
  PROVE  /\ MatcherInv(g, Scanned(g, m, b, Len(r)), Append(r, b))
         /\ Passed(g, Scanned(g, m, b, Len(r))) <= Passed(g, m) + 1
  <1>1. /\ g \in Nat /\ N \in Nat /\ m.first \in 0 .. g /\ m.last \in g .. N
    BY TokenFacts DEF MatcherInv, Gaps
  <1>2. CASE m.first < g
    BY <1>2, SeekingScanned
  <1>3. CASE m.first = g
    BY <1>1, <1>3, FoundScanned DEF Passed
  <1>4. QED
    BY <1>1, <1>2, <1>3

-----------------------------------------------------------------------------
(* Several bytes.                                                           *)

\* A set of numbers has a least one, and a bounded one a greatest.
LEMMA LeastNumber ==
  ASSUME NEW I, I \subseteq Nat, I # {}
  PROVE  \E i \in I : \A j \in I : i <= j
  <1>1. PICK i \in I : \A j \in I : ~(<<j, i>> \in OpToRel(<, Nat))
    BY NatLessThanWellFounded, WFMin
  <1>2. \A j \in I : ~(j < i)
    BY <1>1 DEF OpToRel
  <1>3. QED
    BY <1>2

\* What is found is found a byte after the other.
ScanOf(s, g, m, bytes, handled) ==
    /\ s[0] = m
    /\ \A i \in 1 .. Len(bytes) : s[i] = Scanned(g, s[i - 1], bytes[i], handled + i - 1)
    /\ FindIn(g, m, bytes, handled) = s[Len(bytes)]

LEMMA ScanExists ==
  ASSUME NEW g, NEW m, NEW bytes \in Seq(Bytes), NEW handled \in Nat
  PROVE  \E s : ScanOf(s, g, m, bytes, handled)
  <1> DEFINE G(i, x) == Scanned(g, x, bytes[i], handled + i - 1)
             L == Len(bytes)
             IsScan(s, n) == s = [i \in 0 .. n |-> IF i = 0 THEN m ELSE G(i, s[i - 1])]
             Missing == {n \in Nat : ~(\E s : IsScan(s, n))}
             a == CHOOSE s : IsScan(s, L)
  <1>1. L \in Nat
    OBVIOUS
  <1>2. FindIn(g, m, bytes, handled) = a[L]
    BY DEF FindIn, Scanned
  <1> HIDE DEF G, L, a
  <1>3. Missing = {}
    <2>1. SUFFICES ASSUME Missing # {}
                   PROVE  FALSE
      OBVIOUS
    <2>2. PICK n \in Missing : \A k \in Missing : n <= k
      <3>1. Missing \subseteq Nat
        OBVIOUS
      <3> HIDE DEF Missing
      <3>2. QED
        BY <2>1, <3>1, LeastNumber
    <2>3. n \in Nat /\ ~(\E s : IsScan(s, n))
      OBVIOUS
    <2>4. CASE n = 0
      <3>1. IsScan([i \in 0 .. 0 |-> m], 0)
        OBVIOUS
      <3>2. QED
        BY <2>3, <2>4, <3>1
    <2>5. CASE n > 0
      <3>1. n - 1 \in Nat /\ n - 1 \notin Missing
        <4>1. n - 1 \in Nat /\ ~(n <= n - 1)
          BY <2>3, <2>5
        <4> HIDE DEF Missing
        <4>2. QED
          BY <2>2, <4>1
      <3>2. PICK s : IsScan(s, n - 1)
        BY <3>1
      <3> DEFINE t == [i \in 0 .. n |-> IF i = n THEN G(n, s[n - 1]) ELSE s[i]]
      <3>3. \A i \in 0 .. n - 1 : s[i] = IF i = 0 THEN m ELSE G(i, s[i - 1])
        BY <3>2
      <3>4. \A i \in 0 .. n - 1 : t[i] = s[i]
        BY <2>3
      <3>5. t[n] = G(n, s[n - 1]) /\ DOMAIN t = 0 .. n
        BY <2>3
      <3> HIDE DEF t
      <3>6. ASSUME NEW i \in 0 .. n
            PROVE  t[i] = IF i = 0 THEN m ELSE G(i, t[i - 1])
        <4>1. CASE i = n
          BY <2>3, <2>5, <3>4, <3>5, <4>1
        <4>2. CASE i # n
          BY <2>3, <3>3, <3>4, <4>2
        <4>3. QED
          BY <4>1, <4>2
      <3>7. t = [i \in 0 .. n |-> IF i = 0 THEN m ELSE G(i, t[i - 1])]
        BY <3>5, <3>6 DEF t
      <3>8. QED
        BY <2>3, <3>7
    <2>6. QED
      BY <2>3, <2>4, <2>5
  <1>4. IsScan(a, L)
    BY <1>1, <1>3 DEF a
  <1>5. a[0] = m /\ \A i \in 1 .. L : a[i] = G(i, a[i - 1])
    BY <1>1, <1>4
  <1>6. QED
    BY <1>2, <1>5 DEF G, L, ScanOf

\* The bytes read so far, with the first j of those that come.
LEMMA PrefixFacts ==
  ASSUME NEW r \in Seq(Bytes), NEW bytes \in Seq(Bytes), NEW j \in 0 .. Len(bytes)
  PROVE  LET p == r \o SubSeq(bytes, 1, j)
         IN /\ p \in Seq(Bytes) /\ Len(p) = Len(r) + j
            /\ j = 0 => p = r
            /\ j = Len(bytes) => p = r \o bytes
            /\ p = SubSeq(r \o bytes, 1, Len(r) + j)
            /\ j > 0 => p = Append(r \o SubSeq(bytes, 1, j - 1), bytes[j])
  <1> DEFINE p == r \o SubSeq(bytes, 1, j)
             c == SubSeq(bytes, 1, j)
             w == r \o bytes
  <1>1. Len(r) \in Nat /\ Len(bytes) \in Nat /\ j \in Nat /\ j <= Len(bytes)
    OBVIOUS
  <1>2. c \in Seq(Bytes) /\ Len(c) = j /\ \A i \in 1 .. j : c[i] = bytes[i]
    BY <1>1
  <1> HIDE DEF c
  <1>3. /\ p \in Seq(Bytes) /\ Len(p) = Len(r) + j
        /\ \A i \in 1 .. Len(r) + j : p[i] = IF i <= Len(r) THEN r[i] ELSE bytes[i - Len(r)]
    <2>1. p = r \o c
      BY DEF c
    <2>2. p \in Seq(Bytes) /\ Len(p) = Len(r) + j
      BY <1>1, <1>2, <2>1
    <2>3. ASSUME NEW i \in 1 .. Len(r) + j
          PROVE  p[i] = IF i <= Len(r) THEN r[i] ELSE bytes[i - Len(r)]
      BY <1>1, <1>2, <2>1
    <2>4. QED
      BY <2>2, <2>3
  <1>4. /\ w \in Seq(Bytes) /\ Len(w) = Len(r) + Len(bytes)
        /\ \A i \in 1 .. Len(r) + Len(bytes) :
              w[i] = IF i <= Len(r) THEN r[i] ELSE bytes[i - Len(r)]
    OBVIOUS
  <1> HIDE DEF p, w
  <1>5. ASSUME j = 0
        PROVE  p = r
    <2>1. Len(p) = Len(r) /\ \A i \in 1 .. Len(r) : p[i] = r[i]
      BY <1>1, <1>3, <1>5
    <2>2. QED
      BY <1>3, <2>1
  <1>6. ASSUME j = Len(bytes)
        PROVE  p = w
    <2>1. Len(p) = Len(w) /\ \A i \in 1 .. Len(w) : p[i] = w[i]
      BY <1>1, <1>3, <1>4, <1>6
    <2>2. QED
      BY <1>3, <1>4, <2>1
  <1>7. p = SubSeq(w, 1, Len(r) + j)
    <2> DEFINE q == SubSeq(w, 1, Len(r) + j)
    <2>1. q \in Seq(Bytes) /\ Len(q) = Len(r) + j /\ \A i \in 1 .. Len(r) + j : q[i] = w[i]
      BY <1>1, <1>4
    <2> HIDE DEF q
    <2>2. ASSUME NEW i \in 1 .. Len(r) + j
          PROVE  p[i] = q[i]
      <3>1. i \in 1 .. Len(r) + Len(bytes)
        BY <1>1
      <3>2. q[i] = w[i] /\ w[i] = p[i]
        BY <1>3, <1>4, <2>1, <3>1
      <3>3. QED
        BY <3>2
    <2>3. p = q
      BY <1>3, <2>1, <2>2
    <2>4. QED
      BY <2>3 DEF q
  <1>8. ASSUME j > 0
        PROVE  p = Append(r \o SubSeq(bytes, 1, j - 1), bytes[j])
    <2> DEFINE d == SubSeq(bytes, 1, j - 1)
               q == r \o d
    <2>1. d \in Seq(Bytes) /\ Len(d) = j - 1 /\ \A i \in 1 .. j - 1 : d[i] = bytes[i]
      BY <1>1, <1>8
    <2> HIDE DEF d
    <2>2. /\ q \in Seq(Bytes) /\ Len(q) = Len(r) + (j - 1)
          /\ \A i \in 1 .. Len(r) + (j - 1) : q[i] = IF i <= Len(r) THEN r[i] ELSE d[i - Len(r)]
      BY <1>1, <2>1
    <2> HIDE DEF q
    <2>3. bytes[j] \in Bytes
      BY <1>1, <1>8
    <2> DEFINE a == Append(q, bytes[j])
    <2>4. /\ a \in Seq(Bytes) /\ Len(a) = Len(q) + 1 /\ a[Len(q) + 1] = bytes[j]
          /\ \A i \in 1 .. Len(q) : a[i] = q[i]
      BY <2>2, <2>3
    <2> HIDE DEF a
    <2>5. ASSUME NEW i \in 1 .. Len(r) + j
          PROVE  p[i] = a[i]
      <3>1. CASE i = Len(r) + j
        BY <1>1, <1>3, <1>8, <2>2, <2>4, <3>1
      <3>2. CASE i # Len(r) + j
        <4>1. i \in 1 .. Len(q) /\ a[i] = q[i]
          BY <1>1, <2>2, <2>4, <3>2
        <4>2. CASE i <= Len(r)
          BY <1>1, <1>3, <2>2, <4>1, <4>2
        <4>3. CASE i > Len(r)
          <5>1. i - Len(r) \in 1 .. j - 1
            BY <1>1, <2>2, <4>1, <4>3
          <5>2. QED
            BY <1>1, <1>3, <2>1, <2>2, <4>1, <4>3, <5>1
        <4>4. QED
          BY <1>1, <4>2, <4>3
      <3>3. QED
        BY <3>1, <3>2
    <2>6. Len(a) = Len(r) + j
      BY <1>1, <2>2, <2>4
    <2>7. p = a
      BY <1>3, <2>4, <2>5, <2>6
    <2>8. QED
      BY <2>7 DEF a, q, d
  <1>9. QED
    BY <1>3, <1>5, <1>6, <1>7, <1>8 DEF p, w

LEMMA MatcherPassed ==
  ASSUME NEW g \in Gaps, NEW m, NEW r, MatcherInv(g, m, r)
  PROVE  Passed(g, m) \in Nat
  <1>1. g \in Nat /\ N \in Nat /\ m.first \in 0 .. g /\ m.last \in g .. N
    BY TokenFacts DEF MatcherInv, Gaps
  <1>2. QED
    BY <1>1 DEF Passed

\* The matcher of a gap is right after each of the bytes that lack to it at least.
LEMMA ScanRight ==
  ASSUME NEW g \in Gaps, NEW m, NEW r \in Seq(Bytes), NEW bytes \in Seq(Bytes),
         MatcherInv(g, m, r), Passed(g, m) + Len(bytes) <= N
  PROVE  \E s : /\ FindIn(g, m, bytes, Len(r)) = s[Len(bytes)]
                /\ \A j \in 0 .. Len(bytes) :
                      /\ MatcherInv(g, s[j], r \o SubSeq(bytes, 1, j))
                      /\ Passed(g, s[j]) <= Passed(g, m) + j
  <1> DEFINE L == Len(bytes)
             Right(x, j) == /\ MatcherInv(g, x, r \o SubSeq(bytes, 1, j))
                            /\ Passed(g, x) <= Passed(g, m) + j
  <1>1. L \in Nat /\ Len(r) \in Nat /\ N \in Nat /\ Passed(g, m) \in Nat
    BY TokenFacts DEF MatcherInv, Passed, Gaps
  <1>2. PICK s : ScanOf(s, g, m, bytes, Len(r))
    BY <1>1, ScanExists
  <1>3. /\ s[0] = m /\ FindIn(g, m, bytes, Len(r)) = s[L]
        /\ \A i \in 1 .. L : s[i] = Scanned(g, s[i - 1], bytes[i], Len(r) + i - 1)
    BY <1>2 DEF ScanOf
  <1>4. Right(s[0], 0)
    <2>1. r \o SubSeq(bytes, 1, 0) = r
      BY <1>1, PrefixFacts
    <2>2. s[0] = m /\ Passed(g, m) <= Passed(g, m) + 0
      BY <1>1, <1>3
    <2>3. QED
      BY <2>1, <2>2
  <1>5. ASSUME NEW j \in 1 .. L, Right(s[j - 1], j - 1)
        PROVE  Right(s[j], j)
    <2> DEFINE p == r \o SubSeq(bytes, 1, j - 1)
    <2>1. p \in Seq(Bytes) /\ Len(p) = Len(r) + (j - 1)
      BY <1>1, PrefixFacts
    <2>2. bytes[j] \in Bytes /\ r \o SubSeq(bytes, 1, j) = Append(p, bytes[j])
      <3>1. j \in 0 .. Len(bytes) /\ j > 0 /\ j \in 1 .. Len(bytes)
        BY <1>1
      <3>2. r \o SubSeq(bytes, 1, j) = Append(p, bytes[j])
        BY <3>1, PrefixFacts
      <3>3. bytes[j] \in Bytes
        BY <3>1
      <3>4. QED
        BY <3>2, <3>3
    <2> HIDE DEF p
    <2>3. MatcherInv(g, s[j - 1], p) /\ Passed(g, s[j - 1]) <= Passed(g, m) + (j - 1)
      BY <1>5 DEF p
    <2>4. Passed(g, s[j - 1]) \in Nat
      BY <2>3, MatcherPassed
    <2>5. Passed(g, s[j - 1]) < N
      BY <1>1, <2>3, <2>4
    <2>6. s[j] = Scanned(g, s[j - 1], bytes[j], Len(p))
      <3>1. Len(r) + j - 1 = Len(p)
        BY <1>1, <2>1
      <3>2. QED
        BY <1>3, <3>1
    <2>7. /\ MatcherInv(g, s[j], Append(p, bytes[j]))
          /\ Passed(g, s[j]) <= Passed(g, s[j - 1]) + 1
      BY <2>1, <2>2, <2>3, <2>5, <2>6, ByteScanned
    <2>8. Passed(g, s[j]) \in Nat
      BY <2>7, MatcherPassed
    <2>9. Passed(g, s[j]) <= Passed(g, m) + j
      BY <1>1, <2>3, <2>4, <2>7, <2>8
    <2>10. QED
      BY <2>2, <2>7, <2>9
  <1> HIDE DEF Right, L
  <1>6. \A j \in 0 .. L : Right(s[j], j)
    <2> DEFINE Wrong == {j \in 0 .. L : ~Right(s[j], j)}
    <2>1. SUFFICES ASSUME Wrong # {}
                   PROVE  FALSE
      OBVIOUS
    <2>2. Wrong \subseteq Nat
      BY <1>1
    <2>3. PICK j \in Wrong : \A k \in Wrong : j <= k
      <3> HIDE DEF Wrong
      <3>1. QED
        BY <2>1, <2>2, LeastNumber
    <2>4. j \in 0 .. L /\ ~Right(s[j], j)
      OBVIOUS
    <2>5. j \in 1 .. L /\ j - 1 \in 0 .. L /\ ~(j <= j - 1)
      BY <1>1, <1>4, <2>4
    <2>6. j - 1 \notin Wrong
      <3> HIDE DEF Wrong
      <3>1. QED
        BY <2>3, <2>5
    <2>7. QED
      BY <1>5, <2>4, <2>5, <2>6
  <1>7. QED
    BY <1>3, <1>6 DEF Right, L

-----------------------------------------------------------------------------
(* What is read.                                                            *)

LEMMA GreatestNumber ==
  ASSUME NEW n \in Nat, NEW S, S \subseteq 0 .. n, S # {}
  PROVE  Max(S) \in S /\ \A y \in S : y <= Max(S)
  <1> DEFINE I == {n - x : x \in S}
  <1>1. I \subseteq Nat /\ I # {}
    <2>1. \A x \in S : n - x \in Nat
      OBVIOUS
    <2>2. QED
      BY <2>1
  <1>2. PICK i \in I : \A j \in I : i <= j
    <2> HIDE DEF I
    <2> QED
      BY <1>1, LeastNumber
  <1>3. PICK x \in S : i = n - x
    OBVIOUS
  <1>4. \A y \in S : x >= y
    <2>1. TAKE y \in S
    <2>2. n - x <= n - y
      BY <1>2, <1>3
    <2>3. QED
      BY <2>2
  <1>5. Max(S) \in S /\ \A y \in S : Max(S) >= y
    BY <1>4 DEF Max
  <1>6. QED
    BY <1>5

\* A matcher that is full has found the token, and one that has not passed all of it is not full.
LEMMA FullMeansToken ==
  ASSUME NEW g \in Gaps, NEW m, NEW r \in Seq(Bytes), MatcherInv(g, m, r), FullMatch(g, m)
  PROVE  EndsWith(r, g, m.start + 1) /\ m.start \in 0 .. Len(r) /\ Passed(g, m) = N
  <1>1. /\ N \in Nat /\ g \in 1 .. N /\ Len(r) \in Nat
        /\ m.first \in 0 .. g /\ m.last \in g .. N
    BY TokenFacts DEF MatcherInv, Gaps
  <1>2. m.first = g /\ m.last = N
    BY <1>1 DEF FullMatch, FirstFound
  <1>3. /\ m.start \in 0 .. Len(r) /\ FirstPartAt(g, r, m.start + 1)
        /\ m.start + N <= Len(r) /\ Ends(g, N, r)
    BY <1>1, <1>2 DEF MatcherInv, Found
  <1>4. IsPart(1, g, r, m.start + 1)
    <2>1. /\ (m.start + 1) + g - 1 <= Len(r)
          /\ \A j \in 1 .. g : r[(m.start + 1) + j - 1] = Token[j]
      BY <1>3 DEF FirstPartAt
    <2>2. QED
      BY <1>1, <1>3, <2>1 DEF IsPart
  <1>5. IsPart(g + 1, N, r, Len(r) - (N - g) + 1)
    <2>1. N - g <= Len(r) /\ \A i \in g + 1 .. N : r[Len(r) - N + i] = Token[i]
      BY <1>3 DEF Ends
    <2>2. \A i \in g + 1 .. N : (Len(r) - (N - g) + 1) + i - (g + 1) = Len(r) - N + i
      BY <1>1
    <2>3. (Len(r) - (N - g) + 1) + N - (g + 1) <= Len(r)
      BY <1>1
    <2>4. QED
      BY <2>1, <2>2, <2>3 DEF IsPart
  <1>6. (m.start + 1) + g - 1 <= Len(r) - (N - g)
    BY <1>1, <1>3
  <1>7. QED
    BY <1>1, <1>2, <1>3, <1>4, <1>5, <1>6 DEF EndsWith, Passed

LEMMA TokenMeansFull ==
  ASSUME NEW g \in Gaps, NEW m, NEW r \in Seq(Bytes), MatcherInv(g, m, r),
         NEW i \in 1 .. Len(r), EndsWith(r, g, i)
  PROVE  Passed(g, m) = N
  <1>1. /\ N \in Nat /\ g \in 1 .. N /\ Len(r) \in Nat
        /\ m.first \in 0 .. g /\ m.last \in g .. N
    BY TokenFacts DEF MatcherInv, Gaps
  <1>2. /\ i + g - 1 <= Len(r) - (N - g) /\ IsPart(1, g, r, i)
        /\ IsPart(g + 1, N, r, Len(r) - (N - g) + 1)
    BY DEF EndsWith
  <1>3. FirstPartAt(g, r, i)
    <2>1. \A j \in 1 .. g : r[i + j - 1] = Token[j]
      BY <1>2 DEF IsPart
    <2>2. i + g - 1 <= Len(r)
      BY <1>1, <1>2
    <2>3. QED
      BY <2>1, <2>2 DEF FirstPartAt
  <1>4. Ends(g, N, r)
    <2>1. \A j \in g + 1 .. N : r[(Len(r) - (N - g) + 1) + j - (g + 1)] = Token[j]
      BY <1>2 DEF IsPart
    <2>2. \A j \in g + 1 .. N : (Len(r) - (N - g) + 1) + j - (g + 1) = Len(r) - N + j
      BY <1>1
    <2>3. N - g <= Len(r)
      BY <1>1, <1>2
    <2>4. QED
      BY <2>1, <2>2, <2>3 DEF Ends
  <1>5. m.first = g
    <2>1. ~(m.first < g)
      BY <1>3 DEF MatcherInv, Seeking
    <2>2. QED
      BY <1>1, <2>1
  <1>6. /\ m.start \in 0 .. Len(r) /\ \A j \in 1 .. m.start : ~FirstPartAt(g, r, j)
        /\ \A k \in g + 1 .. N : m.start + k <= Len(r) /\ Ends(g, k, r) => k = m.last
    BY <1>1, <1>5 DEF MatcherInv, Found
  <1>7. m.start < i
    BY <1>3, <1>6
  <1>8. m.last = N
    <2>1. CASE g = N
      BY <1>1, <2>1
    <2>2. CASE g < N
      <3>1. m.start + N <= Len(r) /\ N \in g + 1 .. N
        BY <1>1, <1>2, <1>6, <1>7, <2>2
      <3>2. QED
        BY <1>4, <1>6, <3>1
    <2>3. QED
      BY <1>1, <2>1, <2>2
  <1>9. QED
    BY <1>1, <1>5, <1>8 DEF Passed

LEMMA PassedInRange ==
  ASSUME NEW g \in Gaps, NEW m, m.first \in 0 .. g, m.last \in g .. N
  PROVE  Passed(g, m) \in 0 .. N /\ (Passed(g, m) = N <=> FullMatch(g, m))
  BY TokenFacts DEF Passed, FullMatch, FirstFound, Gaps

LEMMA MaxPassIs ==
  ASSUME NEW ms, \A g \in Gaps : Passed(g, ms[g]) \in 0 .. N
  PROVE  /\ MaxPass(ms) \in 0 .. N /\ \A g \in Gaps : Passed(g, ms[g]) <= MaxPass(ms)
         /\ \E g \in Gaps : MaxPass(ms) = Passed(g, ms[g])
  <1> DEFINE S == {Passed(g, ms[g]) : g \in Gaps}
  <1>1. S \subseteq 0 .. N /\ S # {} /\ N \in Nat
    <2>1. 1 \in Gaps /\ N \in Nat
      BY TokenFacts DEF Gaps
    <2>2. QED
      BY <2>1
  <1>2. MaxPass(ms) = Max(S)
    BY DEF MaxPass
  <1>3. \A g \in Gaps : Passed(g, ms[g]) \in S
    OBVIOUS
  <1>4. Max(S) \in S => \E g \in Gaps : Max(S) = Passed(g, ms[g])
    OBVIOUS
  <1> HIDE DEF S
  <1>5. Max(S) \in S /\ \A y \in S : y <= Max(S)
    BY <1>1, GreatestNumber
  <1>6. QED
    BY <1>1, <1>2, <1>3, <1>4, <1>5

\* The largest gap at which something is so.
LEMMA LargestGap ==
  ASSUME NEW F, F \subseteq Gaps, F # {}
  PROVE  Max(F) \in F /\ \A h \in Max(F) + 1 .. N : h \notin F
  <1>1. F \subseteq 0 .. N /\ N \in Nat
    BY TokenFacts DEF Gaps
  <1>2. Max(F) \in F /\ \A y \in F : y <= Max(F)
    BY <1>1, GreatestNumber
  <1>3. PICK x \in 0 .. N : x = Max(F)
    BY <1>1, <1>2
  <1>4. ASSUME NEW h \in x + 1 .. N, h \in F
        PROVE  FALSE
    BY <1>1, <1>2, <1>3, <1>4
  <1>5. QED
    BY <1>2, <1>3, <1>4

LEMMA InitialReading ==
  ASSUME Init
  PROVE  Inv
  <1>1. /\ N \in Nat /\ N > 0 /\ read = <<>> /\ remaining = N /\ result = -1
        /\ matchers = [g \in Gaps |-> Reset(g)]
    BY TokenFacts DEF Init
  <1>2. ASSUME NEW g \in Gaps
        PROVE  MatcherInv(g, matchers[g], read) /\ Passed(g, matchers[g]) = 0
    <2>1. matchers[g] = [first |-> 0, last |-> g, start |-> -1] /\ g \in 1 .. N
      BY <1>1 DEF Reset, Gaps
    <2>2. \A k \in 1 .. g : ~Ends(0, k, read)
      BY <1>1, <2>1 DEF Ends
    <2>3. Ends(0, 0, read)
      BY <1>1 DEF Ends
    <2>4. Seeking(g, matchers[g], read)
      BY <1>1, <2>1, <2>2, <2>3 DEF Seeking
    <2>5. QED
      BY <1>1, <2>1, <2>4 DEF MatcherInv, Matchers, Passed
  <1>3. ScanInv
    <2>1. read \in Seq(Bytes) /\ remaining \in 0 .. N /\ result \in -1 .. Len(read)
      BY <1>1
    <2>2. \A g \in Gaps : matchers[g].first \in 0 .. g /\ matchers[g].last \in g .. N
      BY <1>2 DEF MatcherInv
    <2>3. \A g \in Gaps : Passed(g, matchers[g]) <= N - remaining
      BY <1>1, <1>2
    <2>4. QED
      BY <1>1, <1>2, <2>1, <2>2, <2>3 DEF ScanInv
  <1>4. ReadsUpToToken
    <2>1. \A bytes \in Prefixes(read) : ~HasToken(bytes)
      <3>1. \A bytes \in Prefixes(read) : Len(bytes) = 0
        BY <1>1 DEF Prefixes
      <3>2. QED
        BY <3>1 DEF HasToken
    <2>2. QED
      BY <1>1, <2>1 DEF ReadsUpToToken
  <1>5. QED
    BY <1>3, <1>4 DEF Inv

LEMMA MoreRead ==
  ASSUME Inv, ReadMore
  PROVE  Inv'
  <1>1. /\ N \in Nat /\ N > 0 /\ remaining \in 1 .. N /\ read \in Seq(Bytes)
        /\ DOMAIN matchers = Gaps
        /\ \A g \in Gaps : /\ MatcherInv(g, matchers[g], read)
                           /\ Passed(g, matchers[g]) <= N - remaining
                           /\ Passed(g, matchers[g]) \in 0 .. N
    <2>1. remaining > 0 /\ ScanInv
      BY DEF ReadMore, Inv
    <2>2. QED
      BY <2>1, TokenFacts, PassedInRange DEF ScanInv
  <1>2. PICK bytes \in [1 .. remaining -> Bytes] :
            read' = read \o bytes /\ matchers' = Find(bytes)
    BY DEF ReadMore
  <1>3. /\ remaining' = N - MaxPass(matchers')
        /\ result' = IF remaining' = 0 THEN MatchStart(matchers') ELSE -1
    BY DEF ReadMore, Remaining
  <1>4. bytes \in Seq(Bytes) /\ Len(bytes) = remaining /\ read' \in Seq(Bytes)
    BY <1>1, <1>2
  <1> DEFINE found == [g \in Gaps |-> FindIn(g, matchers[g], bytes, Len(read))]
             part(j) == read \o SubSeq(bytes, 1, j)
  <1>5. ASSUME NEW g \in Gaps
        PROVE  /\ MatcherInv(g, found[g], read')
               /\ \A j \in 0 .. remaining - 1 : \A i \in 1 .. Len(part(j)) :
                     ~EndsWith(part(j), g, i)
    <2>1. PICK s : /\ FindIn(g, matchers[g], bytes, Len(read)) = s[Len(bytes)]
                   /\ \A j \in 0 .. Len(bytes) :
                         /\ MatcherInv(g, s[j], read \o SubSeq(bytes, 1, j))
                         /\ Passed(g, s[j]) <= Passed(g, matchers[g]) + j
      <3>1. Passed(g, matchers[g]) + Len(bytes) <= N
        BY <1>1, <1>4
      <3>2. QED
        BY <1>1, <1>4, <3>1, ScanRight
    <2>2. MatcherInv(g, found[g], read')
      <3>1. Len(bytes) \in 0 .. Len(bytes) /\ read \o SubSeq(bytes, 1, Len(bytes)) = read'
        <4>1. Len(bytes) \in 0 .. Len(bytes)
          BY <1>1, <1>4
        <4>2. read \o SubSeq(bytes, 1, Len(bytes)) = read \o bytes
          BY <1>1, <1>4, <4>1, PrefixFacts
        <4>3. QED
          BY <1>2, <4>1, <4>2
      <3>2. found[g] = s[Len(bytes)]
        BY <2>1
      <3>3. MatcherInv(g, s[Len(bytes)], read \o SubSeq(bytes, 1, Len(bytes)))
        BY <2>1, <3>1
      <3>4. QED
        BY <3>1, <3>2, <3>3
    <2>3. ASSUME NEW j \in 0 .. remaining - 1, NEW i \in 1 .. Len(part(j)),
                 EndsWith(part(j), g, i)
          PROVE  FALSE
      <3>1. j \in 0 .. Len(bytes) /\ part(j) \in Seq(Bytes)
        BY <1>1, <1>4, PrefixFacts
      <3>2. MatcherInv(g, s[j], part(j)) /\ Passed(g, s[j]) <= Passed(g, matchers[g]) + j
        BY <2>1, <3>1
      <3> HIDE DEF part
      <3>3. Passed(g, s[j]) = N
        BY <2>3, <3>1, <3>2, TokenMeansFull
      <3>4. QED
        BY <1>1, <3>2, <3>3
    <2>4. QED
      BY <2>2, <2>3
  <1>6. /\ DOMAIN matchers' = Gaps
        /\ \A g \in Gaps :
              matchers'[g] = IF \E h \in g + 1 .. N : FullMatch(h, found[h]) THEN matchers[g]
                             ELSE found[g]
    BY <1>2 DEF Find
  <1> HIDE DEF found
  <1>7. ASSUME NEW g \in Gaps
        PROVE  /\ Passed(g, found[g]) \in 0 .. N
               /\ Passed(g, found[g]) = N <=> FullMatch(g, found[g])
               /\ matchers'[g].first \in 0 .. g /\ matchers'[g].last \in g .. N
               /\ Passed(g, matchers'[g]) \in 0 .. N
               /\ Passed(g, matchers'[g]) = N <=> FullMatch(g, matchers'[g])
               /\ Passed(g, matchers'[g]) = N => matchers'[g] = found[g]
    <2>1. /\ found[g].first \in 0 .. g /\ found[g].last \in g .. N
          /\ matchers[g].first \in 0 .. g /\ matchers[g].last \in g .. N
      BY <1>1, <1>5 DEF MatcherInv
    <2>2. matchers'[g] = matchers[g] \/ matchers'[g] = found[g]
      BY <1>6
    <2>3. matchers'[g].first \in 0 .. g /\ matchers'[g].last \in g .. N
      BY <2>1, <2>2
    <2>4. Passed(g, matchers[g]) # N
      BY <1>1
    <2>5. QED
      BY <2>1, <2>2, <2>3, <2>4, PassedInRange
  <1>8. /\ MaxPass(matchers') \in 0 .. N
        /\ \A g \in Gaps : Passed(g, matchers'[g]) <= MaxPass(matchers')
        /\ \E g \in Gaps : MaxPass(matchers') = Passed(g, matchers'[g])
    BY <1>7, MaxPassIs
  <1>9. remaining' \in 0 .. N
    BY <1>1, <1>3, <1>8
  <1>10. ASSUME remaining' > 0
         PROVE  \A g \in Gaps : ~FullMatch(g, found[g]) /\ matchers'[g] = found[g]
    <2> DEFINE Full == {g \in Gaps : FullMatch(g, found[g])}
    <2>1. Full = {}
      <3>1. SUFFICES ASSUME Full # {}
                     PROVE  FALSE
        OBVIOUS
      <3>2. PICK h : h = Max(Full)
        OBVIOUS
      <3>3. h \in Full /\ \A k \in h + 1 .. N : k \notin Full
        <4>1. Full \subseteq Gaps
          OBVIOUS
        <4> HIDE DEF Full
        <4>2. QED
          BY <3>1, <3>2, <4>1, LargestGap
      <3>4. h \in Gaps /\ FullMatch(h, found[h])
        BY <3>3
      <3>5. \A k \in h + 1 .. N : ~FullMatch(k, found[k])
        <4>1. \A k \in h + 1 .. N : k \in Gaps
          BY <1>1, <3>4 DEF Gaps
        <4>2. QED
          BY <3>3, <4>1
      <3>6. matchers'[h] = found[h]
        BY <1>6, <3>4, <3>5
      <3>7. Passed(h, matchers'[h]) = N
        BY <1>7, <3>4, <3>6
      <3>8. QED
        BY <1>1, <1>3, <1>8, <1>10, <3>4, <3>7
    <2>2. \A g \in Gaps : ~FullMatch(g, found[g])
      BY <2>1
    <2>3. \A g \in Gaps : \A h \in g + 1 .. N : h \in Gaps
      BY <1>1 DEF Gaps
    <2>4. QED
      BY <1>6, <2>2, <2>3
  <1>11. ASSUME remaining' = 0
         PROVE  /\ \E g \in Gaps : EndsWith(read', g, result' + 1)
                /\ result' \in 0 .. Len(read')
    <2> DEFINE Full == {g \in Gaps : FullMatch(g, matchers'[g])}
    <2>1. Full # {}
      <3>1. PICK g \in Gaps : Passed(g, matchers'[g]) = N
        BY <1>1, <1>3, <1>8, <1>11
      <3>2. QED
        BY <1>7, <3>1
    <2>2. PICK h : h = Max(Full)
      OBVIOUS
    <2>3. h \in Full
      <3>1. Full \subseteq Gaps
        OBVIOUS
      <3> HIDE DEF Full
      <3>2. QED
        BY <2>1, <2>2, <3>1, LargestGap
    <2>4. h \in Gaps /\ FullMatch(h, matchers'[h])
      BY <2>3
    <2>5. matchers'[h] = found[h]
      BY <1>7, <2>4
    <2>6. result' = matchers'[h].start
      BY <1>3, <1>11, <2>2 DEF MatchStart
    <2>7. EndsWith(read', h, found[h].start + 1) /\ found[h].start \in 0 .. Len(read')
      BY <1>4, <1>5, <2>4, <2>5, FullMeansToken
    <2>8. QED
      BY <2>4, <2>5, <2>6, <2>7
  <1>12. ScanInv'
    <2>1. result' \in -1 .. Len(read')
      BY <1>3, <1>4, <1>9, <1>11
    <2>2. ASSUME remaining' > 0, NEW g \in Gaps
          PROVE  MatcherInv(g, matchers'[g], read') /\ Passed(g, matchers'[g]) <= N - remaining'
      <3>1. MatcherInv(g, matchers'[g], read')
        BY <1>5, <1>10, <2>2
      <3>2. QED
        BY <1>1, <1>3, <1>7, <1>8, <3>1
    <2>3. QED
      BY <1>4, <1>6, <1>7, <1>9, <2>1, <2>2 DEF ScanInv
  <1>13. ASSUME NEW p \in Prefixes(read'), HasToken(p)
         PROVE  p = read' /\ remaining' = 0
    <2>1. PICK l \in 0 .. Len(read') : p = SubSeq(read', 1, l)
      BY DEF Prefixes
    <2>2. PICK g \in Gaps, i \in 1 .. Len(p) : EndsWith(p, g, i)
      BY <1>13 DEF HasToken
    <2>3. Len(read') = Len(read) + remaining /\ Len(read) \in Nat
      <3>1. Len(read \o bytes) = Len(read) + Len(bytes) /\ Len(read) \in Nat
        <4>1. read \in Seq(Bytes) /\ bytes \in Seq(Bytes)
          BY <1>1, <1>4
        <4>2. QED
          BY <4>1
      <3>2. QED
        BY <1>2, <1>4, <3>1
    <2>4. ~(l < Len(read))
      <3>1. SUFFICES ASSUME l < Len(read)
                     PROVE  FALSE
        OBVIOUS
      <3>2. SubSeq(read \o bytes, 1, l) = SubSeq(read, 1, l)
        BY <1>1, <1>4, <2>3, <3>1
      <3>3. p \in Prefixes(read)
        BY <1>2, <2>1, <2>3, <3>1, <3>2 DEF Prefixes
      <3>4. QED
        BY <1>1, <1>13, <3>3 DEF Inv, ReadsUpToToken
    <2>5. PICK j \in 0 .. remaining : l = Len(read) + j
      <3>1. l - Len(read) \in 0 .. remaining /\ l = Len(read) + (l - Len(read))
        BY <1>1, <2>3, <2>4
      <3>2. QED
        BY <3>1
    <2>6. p = part(j)
      BY <1>1, <1>2, <1>4, <2>1, <2>5, PrefixFacts
    <2>7. j = remaining
      <3>1. SUFFICES ASSUME j # remaining
                     PROVE  FALSE
        OBVIOUS
      <3>2. j \in 0 .. remaining - 1
        BY <1>1, <2>5, <3>1
      <3>3. EndsWith(part(j), g, i) /\ i \in 1 .. Len(part(j))
        BY <2>2, <2>6
      <3> HIDE DEF part
      <3>4. QED
        BY <1>5, <3>2, <3>3
    <2>8. p = read'
      <3>1. Len(bytes) \in 0 .. Len(bytes) /\ j = Len(bytes)
        BY <1>1, <1>4, <2>7
      <3>2. read \o SubSeq(bytes, 1, j) = read \o bytes
        BY <1>1, <1>4, <3>1, PrefixFacts
      <3>3. QED
        BY <1>2, <2>6, <3>2
    <2>9. Passed(g, found[g]) = N
      BY <1>4, <1>5, <2>2, <2>8, TokenMeansFull
    <2>10. ~(remaining' > 0)
      BY <1>7, <1>10, <2>9
    <2>11. QED
      BY <1>9, <2>8, <2>10
  <1>14. ReadsUpToToken'
    <2>1. \A p \in Prefixes(read') : HasToken(p) => p = read' /\ remaining' = 0
      BY <1>13
    <2>2. remaining' = 0 => \E g \in Gaps : EndsWith(read', g, result' + 1)
      BY <1>11
    <2>3. QED
      BY <2>1, <2>2 DEF ReadsUpToToken
  <1>15. QED
    BY <1>12, <1>14 DEF Inv

LEMMA Reading == Spec => []Inv
  <1>1. Init => Inv
    BY InitialReading
  <1>2. Inv /\ [Next]_vars => Inv'
    <2>1. Inv /\ Next => Inv'
      BY MoreRead DEF Next
    <2>2. Inv /\ UNCHANGED vars => Inv'
      BY DEF Inv, ScanInv, ReadsUpToToken, vars
    <2>3. QED
      BY <2>1, <2>2
  <1>3. QED
    BY <1>1, <1>2, PTL DEF Spec

\* What the matchers have passed stays within their parts of the token, so that what is asked
\* for next, which is what the best one lacks (_remaining), is never negative.
THEOREM ReaderTypeCorrect == Spec => []TypeOK
  <1>1. Inv => TypeOK
    BY DEF Inv, ScanInv, TypeOK
  <1>2. QED
    BY <1>1, Reading, PTL

\* The reading ends at the first byte that ends a token, with a gap in it or without, and what
\* is returned is what comes before it (read_until_token): each byte that is asked for is one
\* that the best matcher lacks (_remaining), so no byte after the token is taken.
THEOREM ReadUpToToken == Spec => []ReadsUpToToken
  <1>1. Inv => ReadsUpToToken
    BY DEF Inv
  <1>2. QED
    BY <1>1, Reading, PTL
=============================================================================
