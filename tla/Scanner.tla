---- MODULE Scanner ----
(***************************************************************************)
(* extractExpressions (kro/graph/parser/cel.go): the search for ${...} in  *)
(* a string of a template, one character a step.  A text is a sequence of  *)
(* one-character strings, positions count from 1, and a match is the first *)
(* and the last position of an expression, brackets included.              *)
(***************************************************************************)
EXTENDS Naturals, Sequences

CONSTANT Texts   \* the strings that may be scanned

ASSUME TextsAssumption == \A t \in Texts : t \in Seq(STRING)

VARIABLES
    text,             \* the string
    start,            \* where the search for the next opening begins
    startIdx,         \* the opening found
    endIdx,           \* the character looked at
    bracketCount,     \* brackets open
    inStringLiteral,  \* between double quotes
    escapeNext,       \* behind a backslash of a literal
    matches,          \* the expressions found
    pc                \* seek, scan, found (returned) or nested (failed)

scanVars == <<text, start, startIdx, endIdx, bracketCount, inStringLiteral,
              escapeNext, matches, pc>>

(* The characters that matter                                              *)
DollarSign == "$"
LeftBrace == "{"
RightBrace == "}"
QuoteMark == "\""
ReverseSolidus == "\\"

Spans == [first : Nat, last : Nat]

(* "${" at position i                                                      *)
OpensAt(t, i) == i \in 1..(Len(t) - 1) /\ t[i] = DollarSign /\ t[i + 1] = LeftBrace

(* The openings at which strings.Index(str[start:], "${") may point: the   *)
(* nearest one.                                                            *)
Nearest(t, from) ==
    {i \in from..Len(t) : OpensAt(t, i) /\ \A j \in from..(i - 1) : ~OpensAt(t, j)}

(* The scanner about to read t                                             *)
ScanOf(t) ==
    /\ text = t
    /\ start = 1
    /\ startIdx = 0
    /\ endIdx = 0
    /\ bracketCount = 0
    /\ inStringLiteral = FALSE
    /\ escapeNext = FALSE
    /\ matches = <<>>
    /\ pc = "seek"

Init == \E t \in Texts : ScanOf(t)

(* The outer loop: the next opening, or the end.                           *)
Seek ==
    /\ pc = "seek"
    /\ \E i \in Nearest(text, start) :
           /\ startIdx' = i
           /\ endIdx' = i + 2
    /\ bracketCount' = 1
    /\ inStringLiteral' = FALSE
    /\ escapeNext' = FALSE
    /\ pc' = "scan"
    /\ UNCHANGED <<text, start, matches>>

Return ==
    /\ pc = "seek"
    /\ Nearest(text, start) = {}
    /\ pc' = "found"
    /\ UNCHANGED <<text, start, startIdx, endIdx, bracketCount, inStringLiteral,
                   escapeNext, matches>>

----
(* The inner loop                                                          *)

Reading == pc = "scan" /\ endIdx <= Len(text)
Advance == endIdx' = endIdx + 1 /\ UNCHANGED <<text, start, startIdx, matches, pc>>

Escaped ==
    /\ Reading
    /\ escapeNext
    /\ escapeNext' = FALSE
    /\ Advance
    /\ UNCHANGED <<bracketCount, inStringLiteral>>

Backslash ==
    /\ Reading
    /\ ~escapeNext
    /\ inStringLiteral
    /\ text[endIdx] = ReverseSolidus
    /\ escapeNext' = TRUE
    /\ Advance
    /\ UNCHANGED <<bracketCount, inStringLiteral>>

Quote ==
    /\ Reading
    /\ ~escapeNext
    /\ text[endIdx] = QuoteMark
    /\ inStringLiteral' = ~inStringLiteral
    /\ Advance
    /\ UNCHANGED <<bracketCount, escapeNext>>

(* Any other character of a literal                                        *)
InLiteral ==
    /\ Reading
    /\ ~escapeNext
    /\ inStringLiteral
    /\ text[endIdx] \notin {ReverseSolidus, QuoteMark}
    /\ Advance
    /\ UNCHANGED <<bracketCount, inStringLiteral, escapeNext>>

(* A character outside literals                                            *)
Code(c) == Reading /\ ~escapeNext /\ ~inStringLiteral /\ text[endIdx] = c

OpenBracket ==
    /\ Code(LeftBrace)
    /\ bracketCount' = bracketCount + 1
    /\ Advance
    /\ UNCHANGED <<inStringLiteral, escapeNext>>

CloseInner ==
    /\ Code(RightBrace)
    /\ bracketCount > 1
    /\ bracketCount' = bracketCount - 1
    /\ Advance
    /\ UNCHANGED <<inStringLiteral, escapeNext>>

\* Mutant: the search resumes as after an incomplete expression.
ResumeOneFurther == start + 1

ResumeAfterMatch == endIdx + 1

(* The matching bracket: the expression is complete, and the search        *)
(* resumes behind it.                                                      *)
Complete ==
    /\ Code(RightBrace)
    /\ bracketCount = 1
    /\ matches' = Append(matches, [first |-> startIdx, last |-> endIdx])
    /\ start' = ResumeAfterMatch
    /\ bracketCount' = 0
    /\ pc' = "seek"
    /\ UNCHANGED <<text, startIdx, endIdx, inStringLiteral, escapeNext>>

(* Another opening: an error, unless a literal has just been closed.       *)
NestedAt(i) == OpensAt(text, i) /\ text[i - 1] # QuoteMark

Nested ==
    /\ Code(DollarSign)
    /\ NestedAt(endIdx)
    /\ pc' = "nested"
    /\ UNCHANGED <<text, start, startIdx, endIdx, bracketCount, inStringLiteral,
                   escapeNext, matches>>

OtherCode ==
    /\ Reading
    /\ ~escapeNext
    /\ ~inStringLiteral
    /\ text[endIdx] \notin {QuoteMark, LeftBrace, RightBrace}
    /\ ~NestedAt(endIdx)
    /\ Advance
    /\ UNCHANGED <<bracketCount, inStringLiteral, escapeNext>>

\* Mutant: the search resumes where it began.
IncompleteAgain ==
    /\ pc = "scan"
    /\ endIdx > Len(text)
    /\ pc' = "seek"
    /\ UNCHANGED <<text, start, startIdx, endIdx, bracketCount, inStringLiteral,
                   escapeNext, matches>>

(* The end of the text inside an expression: the search resumes one        *)
(* character after the place it began at, which need not be behind the     *)
(* opening.                                                                *)
Incomplete ==
    /\ pc = "scan"
    /\ endIdx > Len(text)
    /\ start' = start + 1
    /\ pc' = "seek"
    /\ UNCHANGED <<text, startIdx, endIdx, bracketCount, inStringLiteral,
                   escapeNext, matches>>

Next ==
    \/ Seek \/ Return
    \/ Escaped \/ Backslash \/ Quote \/ InLiteral
    \/ OpenBracket \/ CloseInner \/ Complete \/ Nested \/ OtherCode
    \/ Incomplete

Spec == Init /\ [][Next]_scanVars

----
(* An expression that was found begins with an opening and ends with a     *)
(* bracket, and lies wholly behind the one found before it, though the     *)
(* search rescans text after an incomplete expression: no character of a   *)
(* string goes into two expressions (buildStringTemplate slices the string *)
(* at these positions and would panic or repeat text otherwise).           *)
MatchesInOrder ==
    /\ \A i \in 1..Len(matches) :
           /\ OpensAt(text, matches[i].first)
           /\ matches[i].last \in (matches[i].first + 2)..Len(text)
           /\ text[matches[i].last] = RightBrace
    /\ \A i \in 1..(Len(matches) - 1) : matches[i].last < matches[i + 1].first

====
