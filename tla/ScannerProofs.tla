---- MODULE ScannerProofs ----
(***************************************************************************)
(* For strings of every length: MatchesInOrder, and that the expressions   *)
(* found are exactly those with a closing bracket.                         *)
(***************************************************************************)
EXTENDS Scanner, WellFoundedInduction, TLAPS

(* The expression under way begins at an opening at or behind start, and   *)
(* what was found lies before start.                                       *)
ScanTypeOK ==
    /\ text \in Seq(STRING)
    /\ start \in Nat \ {0}
    /\ startIdx \in Nat
    /\ endIdx \in Nat
    /\ bracketCount \in Nat
    /\ inStringLiteral \in BOOLEAN
    /\ escapeNext \in BOOLEAN
    /\ matches \in Seq(Spans)
    /\ pc \in {"seek", "scan", "found", "nested"}

UnderWay ==
    pc = "scan" => /\ start <= startIdx
                   /\ OpensAt(text, startIdx)
                   /\ startIdx + 2 <= endIdx

AllBehind == \A i \in 1..Len(matches) : matches[i].last < start

ScanInv == ScanTypeOK /\ UnderWay /\ AllBehind /\ MatchesInOrder

(* Before the first step nothing is under way and nothing was found.       *)
LEMMA InitScan == Init => ScanInv
<1>1. SUFFICES ASSUME NEW t \in Texts, ScanOf(t) PROVE ScanInv
  BY DEF Init
<1>2. t \in Seq(STRING)
  BY TextsAssumption
<1>3. ScanTypeOK
  <2>1. inStringLiteral \in BOOLEAN /\ escapeNext \in BOOLEAN
    BY <1>1 DEF ScanOf
  <2>2. /\ text \in Seq(STRING) /\ matches \in Seq(Spans) /\ pc = "seek"
        /\ start \in Nat \ {0} /\ startIdx \in Nat /\ endIdx \in Nat /\ bracketCount \in Nat
    BY <1>1, <1>2 DEF ScanOf
  <2>3. QED
    BY <2>1, <2>2 DEF ScanTypeOK
<1>4. UnderWay
  BY <1>1 DEF ScanOf, UnderWay
<1>5. Len(matches) = 0
  BY <1>1 DEF ScanOf
<1>6. AllBehind /\ MatchesInOrder
  BY <1>5 DEF AllBehind, MatchesInOrder
<1>7. QED
  BY <1>3, <1>4, <1>6 DEF ScanInv

(* A step that leaves the string, start, the opening and the matches alone *)
(* and moves endIdx forward, if at all.                                    *)
LEMMA ReadScan ==
    ASSUME ScanInv,
           text' = text, start' = start, startIdx' = startIdx, matches' = matches,
           endIdx' \in {endIdx, endIdx + 1},
           bracketCount' \in Nat,
           inStringLiteral' \in BOOLEAN,
           escapeNext' \in BOOLEAN,
           pc' \in {pc, "found", "nested"}
    PROVE  ScanInv'
<1>1. ScanTypeOK'
  BY DEF ScanInv, ScanTypeOK
<1>2. UnderWay'
  BY DEF ScanInv, ScanTypeOK, UnderWay, OpensAt
<1>3. AllBehind' /\ MatchesInOrder'
  BY DEF ScanInv, AllBehind, MatchesInOrder, OpensAt
<1>4. QED
  BY <1>1, <1>2, <1>3 DEF ScanInv

(* A match is added behind the others, and the search goes on behind it.   *)
LEMMA CompleteScan == ASSUME ScanInv, Complete PROVE ScanInv'
<1> DEFINE m == [first |-> startIdx, last |-> endIdx]
<1> USE DEF ScanInv
<1>1. /\ pc = "scan" /\ endIdx <= Len(text) /\ text[endIdx] = RightBrace
      /\ matches' = Append(matches, m) /\ start' = endIdx + 1
      /\ text' = text /\ startIdx' = startIdx /\ endIdx' = endIdx
      /\ bracketCount' = 0 /\ pc' = "seek"
      /\ inStringLiteral' = inStringLiteral /\ escapeNext' = escapeNext
  BY DEF Complete, Code, Reading, ResumeAfterMatch
<1>2. /\ start \in Nat \ {0} /\ startIdx \in Nat /\ endIdx \in Nat
      /\ matches \in Seq(Spans) /\ m \in Spans
      /\ start <= startIdx /\ startIdx + 2 <= endIdx /\ OpensAt(text, startIdx)
  BY <1>1 DEF ScanTypeOK, UnderWay, Spans
<1>3. ScanTypeOK'
  BY <1>1, <1>2 DEF ScanTypeOK
<1>4. UnderWay'
  BY <1>1 DEF UnderWay
<1>5. /\ Len(matches') = Len(matches) + 1
      /\ \A i \in 1..Len(matches) : matches'[i] = matches[i]
      /\ matches'[Len(matches) + 1] = m
      /\ Len(matches) \in Nat
  BY <1>1, <1>2
<1>6. \A i \in 1..Len(matches) : matches[i] \in Spans
  BY <1>2
<1>7. AllBehind'
  <2>1. SUFFICES ASSUME NEW i \in 1..(Len(matches) + 1) PROVE matches'[i].last < start'
    BY <1>5 DEF AllBehind
  <2>2. CASE i = Len(matches) + 1
    BY <2>2, <1>1, <1>2, <1>5
  <2>3. CASE i \in 1..Len(matches)
    <3>1. matches[i].last < start /\ matches[i].last \in Nat
      BY <2>3, <1>6 DEF AllBehind, Spans
    <3>2. QED
      BY <2>3, <3>1, <1>1, <1>2, <1>5
  <2>4. QED
    BY <2>2, <2>3, <1>5
<1>8. MatchesInOrder'
  <2>1. ASSUME NEW i \in 1..Len(matches')
        PROVE  /\ OpensAt(text, matches'[i].first)
               /\ matches'[i].last \in (matches'[i].first + 2)..Len(text)
               /\ text[matches'[i].last] = RightBrace
    <3>1. CASE i = Len(matches) + 1
      <4>1. Len(text) \in Nat
        BY DEF ScanTypeOK
      <4>2. QED
        BY <3>1, <4>1, <1>1, <1>2, <1>5
    <3>2. CASE i \in 1..Len(matches)
      BY <3>2, <1>5 DEF MatchesInOrder
    <3>3. QED
      BY <2>1, <3>1, <3>2, <1>5
  <2>2. ASSUME NEW i \in 1..(Len(matches') - 1)
        PROVE  matches'[i].last < matches'[i + 1].first
    <3>1. CASE i = Len(matches)
      <4>1. matches[i].last < start /\ matches[i].last \in Nat
        BY <3>1, <2>2, <1>5, <1>6 DEF AllBehind, Spans
      <4>2. QED
        BY <3>1, <4>1, <2>2, <1>2, <1>5
    <3>2. CASE i \in 1..(Len(matches) - 1)
      BY <3>2, <1>5 DEF MatchesInOrder
    <3>3. QED
      BY <2>2, <3>1, <3>2, <1>5
  <2>3. QED
    BY <2>1, <2>2, <1>1 DEF MatchesInOrder, OpensAt
<1>9. QED
  BY <1>3, <1>4, <1>7, <1>8

(* Every step keeps the order of the matches.                              *)
LEMMA NextScan == ScanInv /\ [Next]_scanVars => ScanInv'
<1> SUFFICES ASSUME ScanInv, [Next]_scanVars PROVE ScanInv'
  OBVIOUS
<1>0. /\ start \in Nat \ {0} /\ endIdx \in Nat /\ bracketCount \in Nat
      /\ inStringLiteral \in BOOLEAN /\ escapeNext \in BOOLEAN
  BY DEF ScanInv, ScanTypeOK
<1>1. CASE Seek
  <2>1. PICK i \in Nearest(text, start) : startIdx' = i /\ endIdx' = i + 2
    BY <1>1 DEF Seek
  <2>2. i \in Nat /\ start <= i /\ OpensAt(text, i)
    BY <2>1, <1>0 DEF Nearest, ScanInv, ScanTypeOK
  <2>3. ScanTypeOK'
    <3>1. /\ text' = text /\ start' = start /\ matches' = matches
          /\ bracketCount' = 1 /\ pc' = "scan"
          /\ inStringLiteral' \in BOOLEAN /\ escapeNext' \in BOOLEAN
      BY <1>1 DEF Seek
    <3>2. startIdx' \in Nat /\ endIdx' \in Nat
      BY <2>1, <2>2
    <3>3. QED
      BY <3>1, <3>2 DEF ScanInv, ScanTypeOK
  <2>4. UnderWay'
    BY <1>1, <2>1, <2>2 DEF Seek, UnderWay, OpensAt
  <2>5. AllBehind' /\ MatchesInOrder'
    BY <1>1 DEF Seek, ScanInv, AllBehind, MatchesInOrder, OpensAt
  <2>6. QED
    BY <2>3, <2>4, <2>5 DEF ScanInv
<1>2. CASE Return
  BY <1>2, <1>0, ReadScan DEF Return
<1>3. CASE Escaped
  BY <1>3, <1>0, ReadScan DEF Escaped, Advance
<1>4. CASE Backslash
  BY <1>4, <1>0, ReadScan DEF Backslash, Advance
<1>5. CASE Quote
  BY <1>5, <1>0, ReadScan DEF Quote, Advance
<1>6. CASE InLiteral
  BY <1>6, <1>0, ReadScan DEF InLiteral, Advance
<1>7. CASE OpenBracket
  BY <1>7, <1>0, ReadScan DEF OpenBracket, Advance
<1>8. CASE CloseInner
  <2>1. bracketCount' \in Nat
    BY <1>8, <1>0 DEF CloseInner
  <2>2. QED
    BY <1>8, <1>0, <2>1, ReadScan DEF CloseInner, Advance
<1>9. CASE Complete
  BY <1>9, CompleteScan
<1>10. CASE Nested
  BY <1>10, <1>0, ReadScan DEF Nested
<1>11. CASE OtherCode
  BY <1>11, <1>0, ReadScan DEF OtherCode, Advance
<1>12. CASE Incomplete
  <2>1. ScanTypeOK' /\ UnderWay'
    BY <1>12 DEF Incomplete, ScanInv, ScanTypeOK, UnderWay
  <2>2. AllBehind'
    <3>1. SUFFICES ASSUME NEW i \in 1..Len(matches) PROVE matches[i].last < start + 1
      BY <1>12 DEF Incomplete, AllBehind
    <3>2. matches[i] \in Spans
      BY DEF ScanInv, ScanTypeOK
    <3>3. QED
      BY <3>2, <1>0 DEF ScanInv, AllBehind, Spans
  <2>3. MatchesInOrder'
    BY <1>12 DEF Incomplete, ScanInv, MatchesInOrder, OpensAt
  <2>4. QED
    BY <2>1, <2>2, <2>3 DEF ScanInv
<1>13. CASE UNCHANGED scanVars
  BY <1>13, <1>0, ReadScan DEF scanVars
<1>14. QED
  BY <1>1, <1>2, <1>3, <1>4, <1>5, <1>6, <1>7, <1>8, <1>9, <1>10, <1>11, <1>12, <1>13
     DEF Next

(* extractExpressions, on every string: the expressions it returns are     *)
(* delimited by ${ and }, in order and disjoint.                           *)
THEOREM ScannerOrder == Spec => []MatchesInOrder
<1>1. Init => ScanInv
  BY InitScan
<1>2. ScanInv /\ [Next]_scanVars => ScanInv'
  BY NextScan
<1>3. ScanInv => MatchesInOrder
  BY DEF ScanInv
<1>4. QED
  BY <1>1, <1>2, <1>3, PTL DEF Spec

----
(* What an expression is                                                   *)

(* The state in which a character behind an opening is read: how many      *)
(* brackets are open, and whether it is code, in a literal or escaped.     *)
Modes == {"code", "literal", "escaped"}
States == [depth : Nat, mode : Modes]
Opened == [depth |-> 1, mode |-> "code"]

ModeAfter(c, m) ==
    CASE m = "escaped" -> "literal"
      [] m = "literal" -> (IF c = ReverseSolidus THEN "escaped"
                           ELSE IF c = QuoteMark THEN "code" ELSE "literal")
      [] OTHER         -> IF c = QuoteMark THEN "literal" ELSE "code"

DepthAfter(c, s) ==
    IF s.mode # "code" THEN s.depth
    ELSE IF c = LeftBrace THEN s.depth + 1
    ELSE IF c = RightBrace THEN s.depth - 1
    ELSE s.depth

After(c, s) == [depth |-> DepthAfter(c, s), mode |-> ModeAfter(c, s.mode)]

(* The readings of t from the opening at a up to position b, with a        *)
(* bracket open all the way: the state before each character.              *)
Readings(t, a, b) ==
    {r \in [(a + 2)..b -> States] :
        /\ r[a + 2] = Opened
        /\ \A i \in (a + 2)..(b - 1) : r[i].depth > 0 /\ r[i + 1] = After(t[i], r[i])}

(* The bracket at b closes the opening at a.                               *)
Closes(t, a, b) ==
    /\ b \in (a + 2)..Len(t)
    /\ \E r \in Readings(t, a, b + 1) : r[b + 1].depth = 0

(* The text ends before the opening at a is closed.                        *)
Unclosed(t, a) == \E r \in Readings(t, a, Len(t) + 1) : r[Len(t) + 1].depth > 0

(* A nonempty set of positions has a least one.                            *)
LEMMA LeastPosition ==
    ASSUME NEW T \in SUBSET Nat, T # {}
    PROVE  \E x \in T : \A y \in T : x <= y
<1> DEFINE R == OpToRel(<, Nat)
<1>1. IsWellFoundedOn(R, Nat)
  BY NatLessThanWellFounded
<1>2. \A u, v \in Nat : u < v => <<u, v>> \in R
  BY DEF OpToRel
<1> HIDE DEF R
<1>3. PICK x \in T : \A y \in T : ~(<<y, x>> \in R)
  BY <1>1, WFMin
<1>4. \A y \in T : x \in Nat /\ y \in Nat /\ ~(y < x)
  BY <1>2, <1>3
<1> QED
  BY <1>4

(* A text is read in one way only, as far as two readings go.              *)
LEMMA ReadingsAgree ==
    ASSUME NEW t, NEW a \in Nat, NEW b \in Nat, NEW c \in Nat,
           NEW r \in Readings(t, a, b), NEW s \in Readings(t, a, c),
           NEW i \in Nat, a + 2 <= i, i <= b, i <= c
    PROVE  r[i] = s[i]
<1> DEFINE T == {k \in Nat : a + 2 <= k /\ k <= b /\ k <= c /\ r[k] # s[k]}
<1> SUFFICES ASSUME T # {} PROVE FALSE
  OBVIOUS
<1>1. PICK k \in T : \A l \in T : k <= l
  <2>1. T \in SUBSET Nat
    OBVIOUS
  <2> HIDE DEF T
  <2> QED
    BY <2>1, LeastPosition
<1>2. /\ k \in Nat /\ a + 2 <= k /\ k <= b /\ k <= c /\ r[k] # s[k]
      /\ r[a + 2] = Opened /\ s[a + 2] = Opened
  BY DEF Readings
<1>3. k # a + 2
  BY <1>2
<1>4. /\ k - 1 \in Nat /\ a + 2 <= k - 1 /\ k - 1 <= b - 1 /\ k - 1 <= c - 1
      /\ (k - 1) + 1 = k
  BY <1>2, <1>3
<1>5. r[k - 1] = s[k - 1]
  BY <1>1, <1>4
<1>6. k - 1 \in (a + 2)..(b - 1) /\ k - 1 \in (a + 2)..(c - 1)
  BY <1>4
<1>7. r[(k - 1) + 1] = After(t[k - 1], r[k - 1]) /\ s[(k - 1) + 1] = After(t[k - 1], s[k - 1])
  BY <1>6 DEF Readings
<1> QED
  BY <1>2, <1>4, <1>5, <1>7

(* An opening has one closing bracket at most, and none if it is unclosed. *)
LEMMA ClosesOnce ==
    ASSUME NEW t, Len(t) \in Nat, NEW a \in Nat, NEW b, Closes(t, a, b)
    PROVE  /\ \A c : Closes(t, a, c) => c = b
           /\ ~Unclosed(t, a)
<1>1. b \in Nat /\ a + 2 <= b /\ b <= Len(t)
  BY DEF Closes
<1>2. PICK r \in Readings(t, a, b + 1) : r[b + 1].depth = 0
  BY DEF Closes
<1>3. ASSUME NEW c, Closes(t, a, c) PROVE c = b
  <2>1. c \in Nat /\ a + 2 <= c /\ c <= Len(t)
    BY <1>3 DEF Closes
  <2>2. PICK s \in Readings(t, a, c + 1) : s[c + 1].depth = 0
    BY <1>3 DEF Closes
  <2>3. \A i \in (a + 2)..b : r[i].depth > 0
    <3>1. \A i \in (a + 2)..((b + 1) - 1) : r[i].depth > 0
      BY <1>2 DEF Readings
    <3> QED
      BY <1>1, <3>1
  <2>4. \A i \in (a + 2)..c : s[i].depth > 0
    <3>1. \A i \in (a + 2)..((c + 1) - 1) : s[i].depth > 0
      BY <2>2 DEF Readings
    <3> QED
      BY <2>1, <3>1
  <2>5. CASE b < c
    <3>1. r[b + 1] = s[b + 1]
      BY <1>1, <2>1, <2>5, <1>2, <2>2, ReadingsAgree
    <3>2. b + 1 \in (a + 2)..c
      BY <1>1, <2>1, <2>5
    <3> QED
      BY <1>2, <2>4, <3>1, <3>2
  <2>6. CASE c < b
    <3>1. r[c + 1] = s[c + 1]
      BY <1>1, <2>1, <2>6, <1>2, <2>2, ReadingsAgree
    <3>2. c + 1 \in (a + 2)..b
      BY <1>1, <2>1, <2>6
    <3> QED
      BY <2>2, <2>3, <3>1, <3>2
  <2> QED
    BY <1>1, <2>1, <2>5, <2>6
<1>4. ASSUME Unclosed(t, a) PROVE FALSE
  <2>1. PICK s \in Readings(t, a, Len(t) + 1) : s[Len(t) + 1].depth > 0
    BY <1>4 DEF Unclosed
  <2>2. \A i \in (a + 2)..((Len(t) + 1) - 1) : s[i].depth > 0
    BY <2>1 DEF Readings
  <2>3. r[b + 1] = s[b + 1]
    <3>1. /\ b + 1 \in Nat /\ Len(t) + 1 \in Nat
          /\ a + 2 <= b + 1 /\ b + 1 <= b + 1 /\ b + 1 <= Len(t) + 1
      BY <1>1
    <3> QED
      BY <3>1, <1>2, <2>1, ReadingsAgree
  <2>4. CASE b = Len(t)
    BY <1>2, <2>1, <2>3, <2>4
  <2>5. CASE b < Len(t)
    <3>1. b + 1 \in (a + 2)..((Len(t) + 1) - 1)
      BY <1>1, <2>5
    <3> QED
      BY <1>2, <2>2, <2>3, <3>1
  <2> QED
    BY <1>1, <2>4, <2>5
<1> QED
  BY <1>3, <1>4

(* A reading goes on by one character.                                     *)
LEMMA ReadOn ==
    ASSUME NEW t, NEW a \in Nat, NEW b \in Nat, a + 2 <= b,
           NEW r \in Readings(t, a, b), r[b].depth > 0,
           NEW s \in States, s = After(t[b], r[b])
    PROVE  \E q \in Readings(t, a, b + 1) : q[b + 1] = s
<1> DEFINE q == [i \in (a + 2)..(b + 1) |-> IF i = b + 1 THEN s ELSE r[i]]
<1>1. /\ r \in [(a + 2)..b -> States] /\ r[a + 2] = Opened
      /\ \A i \in (a + 2)..(b - 1) : r[i].depth > 0 /\ r[i + 1] = After(t[i], r[i])
  BY DEF Readings
<1>2. q \in [(a + 2)..(b + 1) -> States]
  BY <1>1
<1>3. \A i \in (a + 2)..b : q[i] = r[i]
  OBVIOUS
<1>4. q[b + 1] = s
  OBVIOUS
<1>5. q[a + 2] = Opened
  BY <1>1, <1>3
<1>6. ASSUME NEW i \in (a + 2)..((b + 1) - 1)
      PROVE  q[i].depth > 0 /\ q[i + 1] = After(t[i], q[i])
  <2>1. i \in (a + 2)..b /\ q[i] = r[i]
    BY <1>3
  <2>2. CASE i = b
    BY <2>1, <2>2, <1>4
  <2>3. CASE i # b
    <3>1. i \in (a + 2)..(b - 1) /\ i + 1 \in (a + 2)..b
      BY <2>1, <2>3
    <3> QED
      BY <2>1, <3>1, <1>1, <1>3
  <2> QED
    BY <2>2, <2>3
<1> HIDE DEF q
<1> QED
  BY <1>2, <1>4, <1>5, <1>6 DEF Readings

----
(* The scanner reads                                                       *)

(* The scanner's variables as a state.                                     *)
ScanMode == IF escapeNext THEN "escaped"
            ELSE IF inStringLiteral THEN "literal" ELSE "code"
ScanState == [depth |-> bracketCount, mode |-> ScanMode]

(* While an expression is read, the variables are where a reading from its *)
(* opening has led.                                                        *)
ReadSoFar ==
    pc = "scan" => /\ escapeNext => inStringLiteral
                   /\ endIdx <= Len(text) + 1
                   /\ bracketCount > 0
                   /\ \E r \in Readings(text, startIdx, endIdx) : r[endIdx] = ScanState

(* Its opening is the first one from start on.                             *)
FirstOpening == pc = "scan" => \A a \in start..(startIdx - 1) : ~OpensAt(text, a)

InMatch(a) == \E i \in 1..Len(matches) : matches[i].first <= a /\ a <= matches[i].last

(* Each opening before start is one of a match or within one, or unclosed. *)
Accounted ==
    \A a \in 1..(start - 1) : OpensAt(text, a) => InMatch(a) \/ Unclosed(text, a)

MatchesClose ==
    \A i \in 1..Len(matches) : Closes(text, matches[i].first, matches[i].last)

(* At the end that is all of them.                                         *)
NoneLeft == pc = "found" => \A a \in start..Len(text) : ~OpensAt(text, a)

ExactInv == ReadSoFar /\ FirstOpening /\ Accounted /\ MatchesClose /\ NoneLeft

(* The expressions of a string: whatever was found ends with the bracket   *)
(* that closes its opening, brackets in literals not counted, and when the *)
(* scanner returns, an opening outside of what it found has none.          *)
FindsTheExpressions ==
    /\ MatchesClose
    /\ pc = "found" =>
           \A a \in 1..Len(text) : OpensAt(text, a) =>
               InMatch(a) \/ ~(\E b \in 1..Len(text) : Closes(text, a, b))

(* The characters that are told apart are different ones.                  *)
LEMMA Characters ==
    /\ QuoteMark # LeftBrace /\ QuoteMark # RightBrace /\ LeftBrace # RightBrace
    /\ QuoteMark # ReverseSolidus
  BY Zenon DEF QuoteMark, LeftBrace, RightBrace, ReverseSolidus

(* A step that advances by a character as a reading does keeps the         *)
(* invariant.                                                              *)
LEMMA AdvanceExact ==
    ASSUME ScanInv, ExactInv, Reading, Advance,
           bracketCount' \in Nat, bracketCount' > 0,
           inStringLiteral' \in BOOLEAN, escapeNext' \in BOOLEAN,
           escapeNext' => inStringLiteral',
           bracketCount' = DepthAfter(text[endIdx], ScanState),
           ScanMode' = ModeAfter(text[endIdx], ScanMode)
    PROVE  ExactInv'
<1>1. /\ pc = "scan" /\ endIdx <= Len(text) /\ endIdx' = endIdx + 1
      /\ text' = text /\ start' = start /\ startIdx' = startIdx
      /\ matches' = matches /\ pc' = "scan"
  BY DEF Reading, Advance
<1>2. /\ startIdx \in Nat /\ endIdx \in Nat /\ startIdx + 2 <= endIdx /\ Len(text) \in Nat
      /\ bracketCount \in Nat
  BY <1>1 DEF ScanInv, ScanTypeOK, UnderWay
<1>3. bracketCount > 0
  BY <1>1 DEF ExactInv, ReadSoFar
<1>4. PICK r \in Readings(text, startIdx, endIdx) : r[endIdx] = ScanState
  BY <1>1 DEF ExactInv, ReadSoFar
<1>5. ScanState' \in States
  <2>1. ScanMode' \in Modes
    BY DEF ScanMode, Modes
  <2> QED
    BY <2>1 DEF ScanState, States
<1>6. ScanState' = After(text[endIdx], ScanState)
  BY DEF ScanState, After
<1>7. \E q \in Readings(text, startIdx, endIdx + 1) : q[endIdx + 1] = ScanState'
  <2>1. r[endIdx].depth > 0
    BY <1>3, <1>4 DEF ScanState
  <2> HIDE DEF ScanState
  <2> QED
    BY <1>2, <1>4, <1>5, <1>6, <2>1, ReadOn
<1>8. ReadSoFar'
  <2>1. endIdx' <= Len(text') + 1
    BY <1>1, <1>2
  <2> QED
    BY <1>1, <1>7, <2>1 DEF ReadSoFar
<1>9. FirstOpening' /\ NoneLeft'
  BY <1>1 DEF ExactInv, FirstOpening, NoneLeft
<1>10. Accounted' /\ MatchesClose'
  BY <1>1 DEF ExactInv, Accounted, MatchesClose, InMatch
<1> QED
  BY <1>8, <1>9, <1>10 DEF ExactInv

(* A reading starts at the nearest opening.                                *)
LEMMA SeekExact == ASSUME ScanInv, ExactInv, Seek PROVE ExactInv'
<1>1. PICK i \in Nearest(text, start) : startIdx' = i /\ endIdx' = i + 2
  BY DEF Seek
<1>2. /\ text' = text /\ start' = start /\ matches' = matches /\ pc' = "scan"
      /\ bracketCount' = 1 /\ ~inStringLiteral' /\ ~escapeNext'
  BY DEF Seek
<1>3. /\ Len(text) \in Nat /\ i \in Nat /\ i + 1 <= Len(text)
      /\ \A j \in start..(i - 1) : ~OpensAt(text, j)
  BY <1>1 DEF Nearest, OpensAt, ScanInv, ScanTypeOK
<1>4. ScanState' = Opened
  BY <1>2 DEF ScanState, ScanMode, Opened
<1>5. \E r \in Readings(text, i, i + 2) : r[i + 2] = Opened
  <2> DEFINE r == [k \in (i + 2)..(i + 2) |-> Opened]
  <2>1. Opened \in States
    BY DEF Opened, States, Modes
  <2>2. r \in [(i + 2)..(i + 2) -> States] /\ r[i + 2] = Opened
    BY <1>3, <2>1
  <2>3. \A k \in (i + 2)..((i + 2) - 1) : FALSE
    BY <1>3
  <2> HIDE DEF r
  <2> QED
    BY <2>2, <2>3 DEF Readings
<1>6. ReadSoFar'
  <2>1. endIdx' <= Len(text') + 1
    BY <1>1, <1>2, <1>3
  <2> QED
    BY <1>1, <1>2, <1>4, <1>5, <2>1 DEF ReadSoFar
<1>7. FirstOpening' /\ NoneLeft'
  BY <1>1, <1>2, <1>3 DEF FirstOpening, NoneLeft
<1>8. Accounted' /\ MatchesClose'
  BY <1>2 DEF ExactInv, Accounted, MatchesClose, InMatch
<1> QED
  BY <1>6, <1>7, <1>8 DEF ExactInv

(* The scanner returns when there is no opening any more.                  *)
LEMMA ReturnExact == ASSUME ScanInv, ExactInv, Return PROVE ExactInv'
<1>1. /\ pc' = "found" /\ Nearest(text, start) = {}
      /\ text' = text /\ start' = start /\ matches' = matches
  BY DEF Return
<1>2. start \in Nat /\ Len(text) \in Nat
  BY DEF ScanInv, ScanTypeOK
<1>3. \A a \in start..Len(text) : ~OpensAt(text, a)
  <2> DEFINE T == {a \in start..Len(text) : OpensAt(text, a)}
  <2> SUFFICES ASSUME T # {} PROVE FALSE
    OBVIOUS
  <2>1. T \in SUBSET Nat
    BY <1>2
  <2>2. PICK a \in T : \A c \in T : a <= c
    <3> HIDE DEF T
    <3> QED
      BY <2>1, LeastPosition
  <2>3. a \in start..Len(text) /\ OpensAt(text, a)
    OBVIOUS
  <2>4. \A c \in start..(a - 1) : ~OpensAt(text, c)
    BY <1>2, <2>2, <2>3
  <2> QED
    BY <1>1, <2>3, <2>4 DEF Nearest
<1>4. ReadSoFar' /\ FirstOpening' /\ NoneLeft'
  BY <1>1, <1>3 DEF ReadSoFar, FirstOpening, NoneLeft
<1>5. Accounted' /\ MatchesClose'
  BY <1>1 DEF ExactInv, Accounted, MatchesClose, InMatch
<1> QED
  BY <1>4, <1>5 DEF ExactInv

(* The bracket that completes a match closes its opening.                  *)
LEMMA CompleteExact == ASSUME ScanInv, ExactInv, Complete PROVE ExactInv'
<1> DEFINE m == [first |-> startIdx, last |-> endIdx]
<1>1. /\ pc = "scan" /\ endIdx <= Len(text) /\ text[endIdx] = RightBrace
      /\ ~escapeNext /\ ~inStringLiteral /\ bracketCount = 1
      /\ matches' = Append(matches, m) /\ start' = endIdx + 1
      /\ text' = text /\ pc' = "seek"
  BY DEF Complete, Code, Reading, ResumeAfterMatch
<1>2. /\ startIdx \in Nat /\ endIdx \in Nat /\ startIdx + 2 <= endIdx /\ Len(text) \in Nat
      /\ start \in Nat /\ start <= startIdx /\ matches \in Seq(Spans) /\ m \in Spans
  BY <1>1 DEF ScanInv, ScanTypeOK, UnderWay, Spans
<1>3. /\ Len(matches) \in Nat /\ Len(matches') = Len(matches) + 1
      /\ \A i \in 1..Len(matches) : matches'[i] = matches[i]
      /\ matches'[Len(matches) + 1] = m
  BY <1>1, <1>2
<1>4. Closes(text, startIdx, endIdx)
  <2>1. PICK r \in Readings(text, startIdx, endIdx) : r[endIdx] = ScanState
    BY <1>1 DEF ExactInv, ReadSoFar
  <2>2. ScanState = Opened
    BY <1>1 DEF ScanState, ScanMode, Opened
  <2>3. After(RightBrace, Opened) = [depth |-> 0, mode |-> "code"]
    <3>1. DepthAfter(RightBrace, Opened) = 0
      BY Characters DEF DepthAfter, Opened
    <3>2. ModeAfter(RightBrace, Opened.mode) = "code"
      BY Characters DEF ModeAfter, Opened
    <3> QED
      BY <3>1, <3>2 DEF After
  <2> DEFINE s == [depth |-> 0, mode |-> "code"]
  <2>4. s \in States /\ s.depth = 0
    BY DEF States, Modes
  <2>5. r[endIdx].depth > 0 /\ s = After(text[endIdx], r[endIdx])
    BY <1>1, <2>1, <2>2, <2>3 DEF Opened
  <2> HIDE DEF s
  <2>6. \E q \in Readings(text, startIdx, endIdx + 1) : q[endIdx + 1] = s
    BY <1>2, <2>1, <2>4, <2>5, ReadOn
  <2> QED
    BY <1>1, <1>2, <2>4, <2>6 DEF Closes
<1>5. MatchesClose'
  <2> SUFFICES ASSUME NEW i \in 1..Len(matches')
               PROVE  Closes(text, matches'[i].first, matches'[i].last)
    BY <1>1 DEF MatchesClose
  <2>1. CASE i = Len(matches) + 1
    BY <2>1, <1>3, <1>4
  <2>2. CASE i \in 1..Len(matches)
    BY <2>2, <1>3 DEF ExactInv, MatchesClose
  <2> QED
    BY <1>3, <2>1, <2>2
<1>6. Accounted'
  <2> SUFFICES ASSUME NEW a \in 1..endIdx, OpensAt(text, a)
               PROVE  InMatch(a)' \/ Unclosed(text, a)
    BY <1>1, <1>2 DEF Accounted
  <2>1. CASE a \in 1..(start - 1)
    <3>1. InMatch(a) => InMatch(a)'
      BY <1>3 DEF InMatch
    <3> QED
      BY <2>1, <3>1 DEF ExactInv, Accounted
  <2>2. CASE a \in start..(startIdx - 1)
    BY <2>2, <1>1 DEF ExactInv, FirstOpening
  <2>3. CASE a \in startIdx..endIdx
    <3>1. m.first <= a /\ a <= m.last
      BY <2>3, <1>2
    <3>2. Len(matches) + 1 \in 1..Len(matches')
      BY <1>3
    <3> QED
      BY <3>1, <3>2, <1>3 DEF InMatch
  <2> QED
    BY <1>2, <2>1, <2>2, <2>3
<1>7. ReadSoFar' /\ FirstOpening' /\ NoneLeft'
  BY <1>1 DEF ReadSoFar, FirstOpening, NoneLeft
<1> QED
  BY <1>5, <1>6, <1>7 DEF ExactInv

(* At the end of the text inside an expression, its opening is unclosed;   *)
(* the one position the search leaves behind is that opening or none.      *)
LEMMA IncompleteExact == ASSUME ScanInv, ExactInv, Incomplete PROVE ExactInv'
<1>1. /\ pc = "scan" /\ endIdx > Len(text) /\ start' = start + 1 /\ pc' = "seek"
      /\ text' = text /\ matches' = matches
  BY DEF Incomplete
<1>2. /\ startIdx \in Nat /\ endIdx \in Nat /\ Len(text) \in Nat
      /\ start \in Nat /\ start <= startIdx /\ bracketCount \in Nat
  BY <1>1 DEF ScanInv, ScanTypeOK, UnderWay
<1>3. endIdx = Len(text) + 1 /\ bracketCount > 0
  BY <1>1, <1>2 DEF ExactInv, ReadSoFar
<1>4. Unclosed(text, startIdx)
  <2>1. PICK r \in Readings(text, startIdx, endIdx) : r[endIdx] = ScanState
    BY <1>1 DEF ExactInv, ReadSoFar
  <2>2. ScanState.depth > 0
    BY <1>3 DEF ScanState
  <2> QED
    BY <1>3, <2>1, <2>2 DEF Unclosed
<1>5. Accounted'
  <2> SUFFICES ASSUME NEW a \in 1..start, OpensAt(text, a)
               PROVE  InMatch(a) \/ Unclosed(text, a)
    <3>1. \A a : InMatch(a)' <=> InMatch(a)
      BY <1>1 DEF InMatch
    <3> QED
      BY <1>1, <1>2, <3>1 DEF Accounted
  <2>1. CASE a \in 1..(start - 1)
    BY <2>1 DEF ExactInv, Accounted
  <2>2. CASE a = start
    <3>1. CASE start = startIdx
      BY <2>2, <3>1, <1>4
    <3>2. CASE start # startIdx
      <4>1. a \in start..(startIdx - 1)
        BY <2>2, <3>2, <1>2
      <4> QED
        BY <4>1, <1>1 DEF ExactInv, FirstOpening
    <3> QED
      BY <3>1, <3>2
  <2> QED
    BY <1>2, <2>1, <2>2
<1>6. MatchesClose'
  BY <1>1 DEF ExactInv, MatchesClose
<1>7. ReadSoFar' /\ FirstOpening' /\ NoneLeft'
  BY <1>1 DEF ReadSoFar, FirstOpening, NoneLeft
<1> QED
  BY <1>5, <1>6, <1>7 DEF ExactInv

(* Nothing is found at the start.                                          *)
LEMMA InitExact == Init => ExactInv
<1> SUFFICES ASSUME NEW t \in Texts, ScanOf(t) PROVE ExactInv
  BY DEF Init
<1>1. start = 1 /\ Len(matches) = 0 /\ pc = "seek"
  BY DEF ScanOf
<1>2. Accounted /\ MatchesClose
  BY <1>1 DEF Accounted, MatchesClose
<1> QED
  BY <1>1, <1>2 DEF ExactInv, ReadSoFar, FirstOpening, NoneLeft

(* Every step keeps the invariant; those of the inner loop read on.        *)
LEMMA NextExact == ScanInv /\ ExactInv /\ [Next]_scanVars => ExactInv'
<1> SUFFICES ASSUME ScanInv, ExactInv, [Next]_scanVars PROVE ExactInv'
  OBVIOUS
<1>0. /\ bracketCount \in Nat /\ inStringLiteral \in BOOLEAN /\ escapeNext \in BOOLEAN
      /\ pc = "scan" => bracketCount > 0 /\ (escapeNext => inStringLiteral)
  BY DEF ScanInv, ScanTypeOK, ExactInv, ReadSoFar
<1>1. ScanState.depth = bracketCount /\ ScanState.mode = ScanMode
  BY DEF ScanState
<1>2. CASE Seek
  BY <1>2, SeekExact
<1>3. CASE Return
  BY <1>3, ReturnExact
<1>4. CASE Escaped
  <2>1. /\ Reading /\ Advance /\ bracketCount' = bracketCount
        /\ inStringLiteral' = inStringLiteral /\ escapeNext' = FALSE /\ pc = "scan"
        /\ escapeNext /\ inStringLiteral
    BY <1>4, <1>0 DEF Escaped, Reading
  <2>2. ScanMode = "escaped" /\ ScanMode' = "literal"
    BY <2>1 DEF ScanMode
  <2>3. /\ bracketCount' = DepthAfter(text[endIdx], ScanState)
        /\ ScanMode' = ModeAfter(text[endIdx], ScanMode)
    BY <2>1, <2>2, <1>1 DEF DepthAfter, ModeAfter
  <2> QED
    BY <2>1, <2>3, <1>0, AdvanceExact
<1>5. CASE Backslash
  <2>1. /\ Reading /\ Advance /\ bracketCount' = bracketCount
        /\ inStringLiteral' = inStringLiteral /\ escapeNext' = TRUE /\ pc = "scan"
        /\ ~escapeNext /\ inStringLiteral /\ text[endIdx] = ReverseSolidus
    BY <1>5 DEF Backslash, Reading
  <2>2. ScanMode = "literal" /\ ScanMode' = "escaped"
    BY <2>1 DEF ScanMode
  <2>3. /\ bracketCount' = DepthAfter(text[endIdx], ScanState)
        /\ ScanMode' = ModeAfter(text[endIdx], ScanMode)
    BY <2>1, <2>2, <1>1 DEF DepthAfter, ModeAfter
  <2> QED
    BY <2>1, <2>3, <1>0, AdvanceExact
<1>6. CASE Quote
  <2>1. /\ Reading /\ Advance /\ bracketCount' = bracketCount
        /\ inStringLiteral' = ~inStringLiteral /\ escapeNext' = escapeNext /\ pc = "scan"
        /\ ~escapeNext /\ text[endIdx] = QuoteMark
    BY <1>6 DEF Quote, Reading
  <2>2. /\ inStringLiteral => ScanMode = "literal" /\ ScanMode' = "code"
        /\ ~inStringLiteral => ScanMode = "code" /\ ScanMode' = "literal"
    BY <2>1 DEF ScanMode
  <2>3. /\ bracketCount' = DepthAfter(text[endIdx], ScanState)
        /\ ScanMode' = ModeAfter(text[endIdx], ScanMode)
    BY <2>1, <2>2, <1>1, Characters DEF DepthAfter, ModeAfter
  <2> QED
    BY <2>1, <2>3, <1>0, AdvanceExact
<1>7. CASE InLiteral
  <2>1. /\ Reading /\ Advance /\ bracketCount' = bracketCount
        /\ inStringLiteral' = inStringLiteral /\ escapeNext' = escapeNext /\ pc = "scan"
        /\ ~escapeNext /\ inStringLiteral
        /\ text[endIdx] # ReverseSolidus /\ text[endIdx] # QuoteMark
    BY <1>7 DEF InLiteral, Reading
  <2>2. ScanMode = "literal" /\ ScanMode' = "literal"
    BY <2>1 DEF ScanMode
  <2>3. /\ bracketCount' = DepthAfter(text[endIdx], ScanState)
        /\ ScanMode' = ModeAfter(text[endIdx], ScanMode)
    BY <2>1, <2>2, <1>1 DEF DepthAfter, ModeAfter
  <2> QED
    BY <2>1, <2>3, <1>0, AdvanceExact
<1>8. CASE OpenBracket
  <2>1. /\ Reading /\ Advance /\ bracketCount' = bracketCount + 1
        /\ inStringLiteral' = inStringLiteral /\ escapeNext' = escapeNext /\ pc = "scan"
        /\ ~escapeNext /\ ~inStringLiteral /\ text[endIdx] = LeftBrace
    BY <1>8 DEF OpenBracket, Code, Reading
  <2>2. ScanMode = "code" /\ ScanMode' = "code"
    BY <2>1 DEF ScanMode
  <2>3. /\ bracketCount' = DepthAfter(text[endIdx], ScanState)
        /\ ScanMode' = ModeAfter(text[endIdx], ScanMode)
    BY <2>1, <2>2, <1>1, Characters DEF DepthAfter, ModeAfter
  <2> QED
    BY <2>1, <2>3, <1>0, AdvanceExact
<1>9. CASE CloseInner
  <2>1. /\ Reading /\ Advance /\ bracketCount' = bracketCount - 1 /\ bracketCount > 1
        /\ inStringLiteral' = inStringLiteral /\ escapeNext' = escapeNext /\ pc = "scan"
        /\ ~escapeNext /\ ~inStringLiteral /\ text[endIdx] = RightBrace
    BY <1>9 DEF CloseInner, Code, Reading
  <2>2. ScanMode = "code" /\ ScanMode' = "code"
    BY <2>1 DEF ScanMode
  <2>3. /\ bracketCount' = DepthAfter(text[endIdx], ScanState)
        /\ ScanMode' = ModeAfter(text[endIdx], ScanMode)
    BY <2>1, <2>2, <1>1, Characters DEF DepthAfter, ModeAfter
  <2>4. bracketCount' \in Nat /\ bracketCount' > 0
    BY <2>1, <1>0
  <2> QED
    BY <2>1, <2>3, <2>4, <1>0, AdvanceExact
<1>10. CASE Complete
  BY <1>10, CompleteExact
<1>11. CASE Nested
  BY <1>11 DEF Nested, ExactInv, ReadSoFar, FirstOpening, Accounted, MatchesClose,
               NoneLeft, InMatch
<1>12. CASE OtherCode
  <2>1. /\ Reading /\ Advance /\ bracketCount' = bracketCount
        /\ inStringLiteral' = inStringLiteral /\ escapeNext' = escapeNext /\ pc = "scan"
        /\ ~escapeNext /\ ~inStringLiteral
        /\ text[endIdx] \notin {QuoteMark, LeftBrace, RightBrace}
    BY <1>12 DEF OtherCode, Reading
  <2>2. ScanMode = "code" /\ ScanMode' = "code"
    BY <2>1 DEF ScanMode
  <2>3. /\ bracketCount' = DepthAfter(text[endIdx], ScanState)
        /\ ScanMode' = ModeAfter(text[endIdx], ScanMode)
    BY <2>1, <2>2, <1>1 DEF DepthAfter, ModeAfter
  <2> QED
    BY <2>1, <2>3, <1>0, AdvanceExact
<1>13. CASE Incomplete
  BY <1>13, IncompleteExact
<1>14. CASE UNCHANGED scanVars
  BY <1>14 DEF scanVars, ExactInv, ReadSoFar, FirstOpening, Accounted, MatchesClose,
               NoneLeft, InMatch, ScanState, ScanMode
<1> QED
  BY <1>2, <1>3, <1>4, <1>5, <1>6, <1>7, <1>8, <1>9, <1>10, <1>11, <1>12, <1>13, <1>14
     DEF Next

(* extractExpressions, on every string: what it returns is closed by the   *)
(* matching bracket, and it overlooks no expression that has one, though   *)
(* it gives up an opening at the end of the text and searches again.       *)
THEOREM ScannerFindsTheExpressions == Spec => []FindsTheExpressions
<1>1. Init => ScanInv /\ ExactInv
  BY InitScan, InitExact
<1>2. ScanInv /\ ExactInv /\ [Next]_scanVars => ScanInv' /\ ExactInv'
  BY NextScan, NextExact
<1>3. ScanInv /\ ExactInv => FindsTheExpressions
  <2> SUFFICES ASSUME ScanInv, ExactInv, pc = "found",
                      NEW a \in 1..Len(text), OpensAt(text, a), ~InMatch(a),
                      NEW b \in 1..Len(text), Closes(text, a, b)
               PROVE  FALSE
    BY DEF FindsTheExpressions, ExactInv
  <2>1. start \in Nat /\ Len(text) \in Nat
    BY DEF ScanInv, ScanTypeOK
  <2>2. a \in 1..(start - 1)
    BY <2>1 DEF ExactInv, NoneLeft
  <2>3. Unclosed(text, a)
    BY <2>2 DEF ExactInv, Accounted
  <2> QED
    BY <2>1, <2>3, ClosesOnce
<1> QED
  BY <1>1, <1>2, <1>3, PTL DEF Spec

====
