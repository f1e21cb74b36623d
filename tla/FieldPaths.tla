---- MODULE FieldPaths ----
(***************************************************************************)
(* How the parser writes the path of a field and how the resolver reads it *)
(* back (kro/graph/parser, kro/graph/fieldpath).  Paths and names are      *)
(* sequences of one-character strings.                                     *)
(***************************************************************************)
EXTENDS Integers, Sequences, SequencesExt

(* An array index has one digit in the model.                              *)
Digits == <<"0", "1", "2", "3", "4", "5", "6", "7", "8", "9">>

\* Mutant: a name with dots gets no brackets.
joinPathAndFieldNameEmptyOnly(path, fieldName) ==
    IF fieldName = <<>> THEN path \o <<"[", "\"">> \o fieldName \o <<"\"", "]">>
    ELSE IF path = <<>> THEN fieldName ELSE path \o <<".">> \o fieldName

joinPathAndFieldName(path, fieldName) ==
    IF fieldName = <<>> \/ Contains(fieldName, ".")
    THEN path \o <<"[", "\"">> \o fieldName \o <<"\"", "]">>
    ELSE IF path = <<>> THEN fieldName ELSE path \o <<".">> \o fieldName

(* i counts from 1, the index in the path from 0.                          *)
joinPathAndIndex(path, i) == path \o <<"[", Digits[i], "]">>

NewNamedSegment(name) == [Name |-> name, Index |-> -1]
NewIndexedSegment(i) == [Name |-> <<>>, Index |-> i]

----
(* fieldpath.Parse.  The result is the sequence of segments and whether it *)
(* was read to the end.                                                    *)

(* The first position from pos on with one of the characters               *)
Until(path, pos, chars) ==
    CHOOSE p \in pos..(Len(path) + 1) :
        /\ p <= Len(path) => path[p] \in chars
        /\ \A q \in pos..(p - 1) : path[q] \notin chars

CharAt(path, pos, c) == pos <= Len(path) /\ path[pos] = c

Failed == [ok |-> FALSE, segments |-> <<>>, pos |-> 0]
Read(segment, pos) == [ok |-> TRUE, segments |-> <<segment>>, pos |-> pos]

parseQuotedField(path, pos) ==
    LET q == Until(path, pos + 2, {"\""})
    IN  IF CharAt(path, q + 1, "]")
        THEN Read(NewNamedSegment(SubSeq(path, pos + 2, q - 1)), q + 2)
        ELSE Failed

parseUnquotedField(path, pos) ==
    LET e == Until(path, pos, {".", "["})
    IN  IF e > pos THEN Read(NewNamedSegment(SubSeq(path, pos, e - 1)), e) ELSE Failed

parseArrayIndex(path, pos) ==
    LET e == Until(path, pos + 1, {"]"})
    IN  IF e <= Len(path) /\ e = pos + 2 /\ Contains(Digits, path[pos + 1])
        THEN Read(NewIndexedSegment((CHOOSE d \in 1..10 : Digits[d] = path[pos + 1]) - 1),
                  e + 1)
        ELSE Failed

(* One turn of the loop: a field, then an index, then a dot, each if there *)
(* is one.                                                                 *)
FieldAt(path, pos) ==
    IF CharAt(path, pos, "[")
    THEN IF CharAt(path, pos + 1, "\"") THEN parseQuotedField(path, pos)
         ELSE [ok |-> TRUE, segments |-> <<>>, pos |-> pos]
    ELSE parseUnquotedField(path, pos)

IndexAt(path, pos) ==
    IF CharAt(path, pos, "[") /\ ~CharAt(path, pos + 1, "\"")
    THEN parseArrayIndex(path, pos)
    ELSE [ok |-> TRUE, segments |-> <<>>, pos |-> pos]

RECURSIVE ParseFrom(_, _)
ParseFrom(path, pos) ==
    IF pos > Len(path) THEN [ok |-> TRUE, segments |-> <<>>]
    ELSE LET field == FieldAt(path, pos)
             index == IndexAt(path, field.pos)
             rest  == ParseFrom(path, IF CharAt(path, index.pos, ".")
                                      THEN index.pos + 1 ELSE index.pos)
         IN  IF field.ok /\ index.ok
             THEN [ok |-> rest.ok,
                   segments |-> field.segments \o index.segments \o rest.segments]
             ELSE [ok |-> FALSE, segments |-> <<>>]

Parse(path) == ParseFrom(path, 1)

====
