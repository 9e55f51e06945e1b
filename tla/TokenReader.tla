----------------------------- MODULE TokenReader -----------------------------
(****************************************************************************)
(* TokenReader and its SingleGapMatcher, with which chunks and the data of  *)
(* a remote file are found in what a terminal prints.  The terminal may put *)
(* something in the middle of the token: token[:g], a gap, token[g:].       *)
(*                                                                          *)
(* What is printed is read as it comes: nothing after the token may be      *)
(* taken, as it is the size that the caller reads next, and the token must  *)
(* not be missed, as nothing more may come.                                 *)
(****************************************************************************)
EXTENDS Integers, SequencesExt

CONSTANTS Token,      \* the token, of bytes that are all different
          Others,     \* bytes which are not in it
          MaxLength   \* bound on the bytes read

ASSUME ConstantsAssumption ==
    /\ Token \in Seq(Range(Token)) /\ Token # <<>> /\ IsInjective(Token)
    /\ Range(Token) \cap Others = {} /\ MaxLength \in Nat

N == Len(Token)
Bytes == Range(Token) \cup Others
Gaps == 1 .. N

VARIABLES
    read,      \* the bytes read since read_until_token began
    matchers,  \* the FixedGapMatcher of each gap
    remaining, \* _remaining
    result     \* the number of bytes before the token once it is found, or -1

vars == <<read, matchers, remaining, result>>

-----------------------------------------------------------------------------
\* FixedGapMatcher: the bytes of the token matched before the gap, those matched
\* in all before and after it, and where the match starts.

Reset(g) == [first |-> 0, last |-> g, start |-> -1]

FirstFound(g, m) == m.first >= g
FullMatch(g, m) == FirstFound(g, m) /\ m.last >= N
Passed(g, m) == m.first + m.last - g

UpdateLast(g, m, byte) ==
    IF ~FirstFound(g, m) \/ FullMatch(g, m) THEN m
    ELSE IF Token[m.last + 1] = byte THEN [m EXCEPT !.last = @ + 1]
    ELSE [m EXCEPT !.last = IF Token[g + 1] = byte THEN g + 1 ELSE g]

Begun(m, byte, at) ==
    IF Token[m.first + 1] = byte
    THEN [m EXCEPT !.first = @ + 1, !.start = IF @ = -1 THEN at ELSE @]
    ELSE [m EXCEPT !.first = 0, !.start = -1]
UpdateFirst(g, m, byte, at) ==
    IF FirstFound(g, m) THEN m
    ELSE IF m.first > 0 /\ Token[m.first + 1] # byte
         THEN Begun(Begun(m, byte, at), byte, at)
         ELSE Begun(m, byte, at)

\* Once the first part is found the same byte is not one of the last part.
FindIn(g, m, bytes, handled) ==
    LET after[i \in 0 .. Len(bytes)] ==
            IF i = 0 THEN m
            ELSE UpdateFirst(g, UpdateLast(g, after[i - 1], bytes[i]), bytes[i], handled + i - 1)
    IN after[Len(bytes)]

\* SingleGapMatcher: the matchers of smaller gaps are left when one has matched.
Find(bytes) ==
    LET found == [g \in Gaps |-> FindIn(g, matchers[g], bytes, Len(read))]
    IN [g \in Gaps |->
            IF \E h \in g + 1 .. N : FullMatch(h, found[h]) THEN matchers[g] ELSE found[g]]

MaxPass(ms) == Max({Passed(g, ms[g]) : g \in Gaps})
MatchStart(ms) == ms[Max({g \in Gaps : FullMatch(g, ms[g])})].start

\* read_until_token
WholeToken(ms) == IF MaxPass(ms) = N THEN 0 ELSE N  \* mutant: reads a token at a time
Remaining(ms) == N - MaxPass(ms)

ReadMore ==
    /\ remaining > 0 /\ Len(read) + remaining <= MaxLength
    /\ \E bytes \in [1 .. remaining -> Bytes] :
        /\ read' = read \o bytes
        /\ matchers' = Find(bytes)
    /\ remaining' = Remaining(matchers')
    /\ result' = IF remaining' = 0 THEN MatchStart(matchers') ELSE -1

Init ==
    /\ read = <<>> /\ matchers = [g \in Gaps |-> Reset(g)]
    /\ remaining = N /\ result = -1

Next == ReadMore
Spec == Init /\ [][Next]_vars

-----------------------------------------------------------------------------
\* What it is for: where the token is, with at most one gap.

IsPart(from, to, bytes, at) ==
    /\ at + to - from <= Len(bytes)
    /\ \A i \in from .. to : bytes[at + i - from] = Token[i]
\* The token's part up to the gap g is at i, and the other one ends bytes.
EndsWith(bytes, g, i) ==
    /\ i + g - 1 <= Len(bytes) - (N - g)
    /\ IsPart(1, g, bytes, i)
    /\ IsPart(g + 1, N, bytes, Len(bytes) - (N - g) + 1)
HasToken(bytes) == \E g \in Gaps, i \in 1 .. Len(bytes) : EndsWith(bytes, g, i)

\* The types of the matchers: what they have matched stays within their parts.
TypeOK ==
    /\ read \in Seq(Bytes) /\ remaining \in 0 .. N
    /\ \A g \in Gaps : matchers[g].first \in 0 .. g /\ matchers[g].last \in g .. N
    /\ result \in -1 .. Len(read)

\* The reading ends with the first byte that ends a token: none is passed over,
\* none is seen where there is none, and no byte after it is taken
\* (read_until_token, _remaining).  What is returned is all that comes before it.
ReadsUpToToken ==
    /\ remaining = 0 => \E g \in Gaps : EndsWith(read, g, result + 1)
    /\ \A bytes \in Prefixes(read) : HasToken(bytes) => bytes = read /\ remaining = 0
=============================================================================
