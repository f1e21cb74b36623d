---- MODULE Templates ----
(***************************************************************************)
(* The life of a template: the parser walks it and collects the fields     *)
(* with expressions (kro/graph/parser), their values become available      *)
(* (kro/runtime), and the resolver writes them into a copy of the template *)
(* or, for the status, into an empty object (kro/runtime/resolver).        *)
(*                                                                         *)
(* A value is a record with the field k: a "map" of names, a "list", a     *)
(* "string", a "scalar", "null" or the sentinel "omit".  The maps are      *)
(* walked in Go's random order, here the choice of a member of todo; for   *)
(* elements of one array this allows more orders than the code has.        *)
(***************************************************************************)
EXTENDS Scanner, FieldPaths

CONSTANTS
    AllTemplates,  \* records [mode, schema, object, verdict]
    Value          \* the values of the expressions, by their text

VARIABLES
    template,     \* the template
    phase,        \* where it is, or how it ended
    todo,         \* fields, descriptors or results not yet visited
    field,        \* the field whose string is being scanned
    plain,        \* paths of the fields without expressions
    descriptors,  \* the fields with expressions
    known,        \* the expressions that could be evaluated
    object,       \* the object being resolved
    results,      \* descriptors resolved
    errors        \* descriptors that could not be

vars == <<scanVars, template, phase, todo, field, plain, descriptors, known,
          object, results, errors>>

NoField == [path |-> <<>>]
Ended == {"rejected", "pending", "error", "done"}

Map(f) == [k |-> "map", map |-> f]
List(s) == [k |-> "list", list |-> s]
String(t) == [k |-> "string", text |-> t]
Null == [k |-> "null"]
Omit == [k |-> "omit"]
StatusName == <<"status">>

(* A string of a template is written as the pieces it is made of: plain    *)
(* text, expressions, or raw text about which nothing is known.  The code  *)
(* sees only the characters.                                               *)
Characters(piece) ==
    IF piece.k = "expr" THEN <<"$", "{">> \o piece.text \o <<"}">> ELSE piece.text
TextOf(pieces) == FlattenSeq([i \in DOMAIN pieces |-> Characters(pieces[i])])

RECURSIVE Source(_)
Source(v) ==
    CASE v.k = "map" -> Map([f \in DOMAIN v.map |-> Source(v.map[f])])
      [] v.k = "list" -> List([i \in DOMAIN v.list |-> Source(v.list[i])])
      [] v.k = "template" -> String(TextOf(v.pieces))
      [] OTHER -> v

----
(* The walk (parser.go, schemaless.go).  It yields a set: the strings with *)
(* their paths and the types their schema allows, the paths of the fields  *)
(* that cannot hold an expression, and those that break the schema.        *)

StringAt(path, t, types) == {[k |-> "string", path |-> path, text |-> t, types |-> types]}
PlainAt(path) == {[k |-> "plain", path |-> path]}
Refused(path) == {[k |-> "refused", path |-> path]}

RECURSIVE parseSchemalessResource(_, _)
parseSchemalessResource(v, path) ==
    CASE v.k = "map" ->
           UNION {parseSchemalessResource(v.map[f], joinPathAndFieldName(path, f)) :
                      f \in DOMAIN v.map}
      [] v.k = "list" ->
           UNION {parseSchemalessResource(v.list[i], joinPathAndIndex(path, i)) :
                      i \in DOMAIN v.list}
      [] v.k = "string" -> StringAt(path, v.text, {"any"})
      [] OTHER -> PlainAt(path)

(* A schema: its types, the types its oneOf and anyOf collect, two markers *)
(* and the schemas of what is below it.  additional is "none", "any" (no   *)
(* schema) or "schema"; absent ones are NoSchema.                          *)
NoSchema == [types |-> {}, oneOf |-> {}, anyOf |-> {}, preserve |-> FALSE,
             intOrString |-> FALSE, props |-> [f \in {} |-> {}], additional |-> "none"]

validateSchema(s) ==
    s.preserve \/ s.types # {} \/ s.oneOf # {} \/ s.anyOf # {} \/ s.additional # "none"

(* The types of subschemas; one with required or not adds "object".        *)
collectTypesFromSubSchemas(subs) ==
    UNION {b.types \cup (IF b.structural THEN {"object"} ELSE {}) : b \in subs}

(* {} is the error "unknown schema type".                                  *)
getExpectedTypes(s) ==
    LET oneOf == collectTypesFromSubSchemas(s.oneOf)
        anyOf == collectTypesFromSubSchemas(s.anyOf)
    IN  CASE s.preserve -> {"any"}
          [] ~s.preserve /\ s.intOrString -> {"string", "integer"}
          [] OTHER -> IF oneOf # {} THEN oneOf
                      ELSE IF anyOf # {} THEN anyOf
                      ELSE IF s.types # {} THEN s.types
                      ELSE IF s.additional # "none" THEN {"any"} ELSE {}

(* An additionalProperties without a schema has an empty one, which        *)
(* validateSchema refuses.                                                 *)
LookupAdditionalProperties(s) ==
    IF s.additional = "schema" THEN s.additionalSchema ELSE NoSchema

getFieldSchema(s, f) ==
    IF f \in DOMAIN s.props THEN s.props[f] ELSE LookupAdditionalProperties(s)

ScalarNames(type) ==
    CASE type = "integer" -> {"any", "number", "int", "integer"}
      [] type = "float" -> {"any", "number"}
      [] type = "boolean" -> {"any", "boolean", "bool"}

RECURSIVE parseResource(_, _, _)

parseObject(v, s, path) ==
    CASE s.preserve -> parseSchemalessResource(v, path)
      [] ~s.preserve /\ "object" \notin getExpectedTypes(s) /\ s.additional = "none" -> Refused(path)
      [] OTHER -> UNION {parseResource(v.map[f], getFieldSchema(s, f),
                                       joinPathAndFieldName(path, f)) : f \in DOMAIN v.map}

parseArray(v, s, path) ==
    CASE s.preserve -> parseSchemalessResource(v, path)
      [] ~s.preserve /\ ("array" \notin getExpectedTypes(s) \/ "items" \notin DOMAIN s) -> Refused(path)
      [] OTHER -> UNION {parseResource(v.list[i], s.items, joinPathAndIndex(path, i)) :
                             i \in DOMAIN v.list}

parseScalarTypes(v, s, path) ==
    IF getExpectedTypes(s) \cap ScalarNames(v.type) # {} THEN {} ELSE Refused(path)

parseResource(v, s, path) ==
    IF ~validateSchema(s) \/ getExpectedTypes(s) = {} THEN Refused(path)
    ELSE CASE v.k = "map" -> parseObject(v, s, path)
           [] v.k = "list" -> parseArray(v, s, path)
           [] v.k = "string" -> StringAt(path, v.text, getExpectedTypes(s))
           [] v.k = "null" -> {}
           [] v.k = "scalar" -> parseScalarTypes(v, s, path)

(* buildRGResource, buildInstanceNode: the template of a resource has a    *)
(* schema, the status and an external reference have none.                 *)
Walk ==
    /\ phase = "walk"
    /\ \E source \in {Source(template.object)} :
           LET found == IF template.mode = "resource"
                        THEN parseResource(source, template.schema, <<>>)
                        ELSE parseSchemalessResource(source, <<>>)
           IN  /\ phase' = IF \E f \in found : f.k = "refused" THEN "rejected" ELSE "scan"
               /\ todo' = {f \in found : f.k = "string"}
               /\ plain' = {f.path : f \in {g \in found : g.k = "plain"}}
    /\ UNCHANGED <<scanVars, template, field, descriptors, known, object, results, errors>>

----
(* The strings (parseString)                                               *)

ScanField ==
    /\ phase = "scan"
    /\ field = NoField
    /\ \E f \in todo :
           /\ field' = f
           /\ todo' = todo \ {f}
           /\ text' = f.text
    /\ start' = 1 /\ startIdx' = 0 /\ endIdx' = 0 /\ bracketCount' = 0
    /\ inStringLiteral' = FALSE /\ escapeNext' = FALSE
    /\ matches' = <<>> /\ pc' = "seek"
    /\ UNCHANGED <<template, phase, plain, descriptors, known, object, results, errors>>

ScanStep ==
    /\ phase = "scan"
    /\ field # NoField
    /\ Next
    /\ UNCHANGED <<template, phase, todo, field, plain, descriptors, known, object,
                   results, errors>>

NestedExpression ==
    /\ phase = "scan"
    /\ field # NoField
    /\ pc = "nested"
    /\ phase' = "rejected"
    /\ UNCHANGED <<scanVars, template, todo, field, plain, descriptors, known, object,
                   results, errors>>

isStandaloneExpression ==
    Len(matches) = 1 /\ matches[1] = [first |-> 1, last |-> Len(text)]

Lit(t) == [k |-> "lit", text |-> t]
Expr(t) == [k |-> "expr", text |-> t]

\* Mutant: only the text is taken.
buildStringTemplateOfGaps == <<Lit(text)>>

(* The text between two matches is quoted, if there is any.                *)
buildStringTemplate ==
    LET n      == Len(matches)
        pos(i) == IF i = 0 THEN 1 ELSE matches[i].last + 1
        gap(i) == LET t == SubSeq(text, pos(i - 1), IF i > n THEN Len(text)
                                                    ELSE matches[i].first - 1)
                  IN  IF t = <<>> THEN <<>> ELSE <<Lit(t)>>
        expr(i) == <<Expr(SubSeq(text, matches[i].first + 2, matches[i].last - 1))>>
    IN  FlattenSeq([i \in 1..n |-> gap(i) \o expr(i)]) \o gap(n + 1)

Describe ==
    /\ phase = "scan"
    /\ field # NoField
    /\ pc = "found"
    /\ field' = NoField
    /\ LET allowed == isStandaloneExpression \/ field.types \cap {"string", "any"} # {}
           d       == [path |-> field.path, parts |-> buildStringTemplate]
       IN  /\ phase' = IF allowed THEN "scan" ELSE "rejected"
           /\ descriptors' = IF allowed /\ matches # <<>>
                             THEN descriptors \cup {d} ELSE descriptors
           /\ plain' = IF matches = <<>> THEN plain \cup {field.path} ELSE plain
    /\ UNCHANGED <<scanVars, template, todo, known, object, results, errors>>

(* Fields of the status must have expressions; their paths go below the    *)
(* status.  The expressions must compile, which those with a value do.     *)
ExprsOf(parts) == {parts[i].text : i \in {j \in DOMAIN parts : parts[j].k = "expr"}}

EndScan ==
    /\ phase = "scan"
    /\ field = NoField
    /\ todo = {}
    /\ LET status == template.mode = "status"
           valid  == \A d \in descriptors : ExprsOf(d.parts) \subseteq DOMAIN Value
       IN  /\ phase' = IF ~valid \/ (status /\ plain # {}) THEN "rejected" ELSE "evaluate"
           /\ descriptors' =
                  IF status THEN {[d EXCEPT !.path = StatusName \o <<".">> \o @] :
                                      d \in descriptors}
                  ELSE descriptors
    /\ UNCHANGED <<scanVars, template, todo, field, plain, known, object, results, errors>>

----
(* The values (evaluateExprsFiltered).  One expression is a value of any   *)
(* type, several parts are the concatenation of strings.                   *)

Evaluated(parts) ==
    IF Len(parts) = 1 /\ parts[1].k = "expr" THEN Value[parts[1].text]
    ELSE String(FlattenSeq([i \in DOMAIN parts |->
                                IF parts[i].k = "lit" THEN parts[i].text
                                ELSE Value[parts[i].text].text]))

(* hardResolveSingleResource waits for all expressions, softResolve goes   *)
(* on with the fields whose values are there.                              *)
Evaluate ==
    /\ phase = "evaluate"
    /\ LET exprs == UNION {ExprsOf(d.parts) : d \in descriptors}
       IN  \E K \in SUBSET exprs :
               /\ known' = K
               /\ phase' = IF template.mode # "status" /\ K # exprs
                           THEN "pending" ELSE "resolve"
               /\ todo' = {d \in descriptors : ExprsOf(d.parts) \subseteq K}
    /\ object' = IF template.mode = "status"
                 THEN Map(StatusName :> Source(template.object))
                 ELSE Source(template.object)
    /\ UNCHANGED <<scanVars, template, field, plain, descriptors, results, errors>>

----
(* The resolver (resolver.go)                                              *)

(* traverse: the segments lead to a value.                                 *)
RECURSIVE Leads(_, _)
Leads(v, segments) ==
    \/ segments = <<>>
    \/ LET s == Head(segments)
       IN  IF s.Index >= 0
           THEN v.k = "list" /\ s.Index < Len(v.list)
                /\ Leads(v.list[s.Index + 1], Tail(segments))
           ELSE v.k = "map" /\ s.Name \in DOMAIN v.map
                /\ Leads(v.map[s.Name], Tail(segments))

\* Mutant: a larger array does not get the elements of the old one.
handleArraySegmentFresh(list, index) ==
    IF index < Len(list) THEN list ELSE [i \in 1..(index + 1) |-> Null]

(* handleArraySegment keeps what was there.                                *)
handleArraySegment(list, index) ==
    IF index < Len(list) THEN list
    ELSE [i \in 1..(index + 1) |-> IF i <= Len(list) THEN list[i] ELSE Null]

(* getOrCreateNext, and the same for a key of a map                        *)
getOrCreateNext(v, next) ==
    IF v # Null THEN v
    ELSE IF next.Index >= 0 THEN List(<<>>) ELSE Map([f \in {} |-> Null])

(* setValueAtPath; the result is v with the value set, or Failure.         *)
Failure == [k |-> "failure"]

RECURSIVE setValueAtPath(_, _, _)
setValueAtPath(v, segments, value) ==
    LET s     == Head(segments)
        below == Tail(segments)
        put(old) == IF below = <<>> THEN value
                    ELSE setValueAtPath(getOrCreateNext(old, Head(below)), below, value)
    IN  IF segments = <<>> THEN v
        ELSE IF s.Index >= 0
        THEN IF v.k # "list" THEN Failure
             ELSE LET list == handleArraySegment(v.list, s.Index)
                      new  == put(list[s.Index + 1])
                  IN  IF new = Failure THEN Failure
                      ELSE List(ReplaceAt(list, s.Index + 1, new))
        ELSE IF v.k # "map" THEN Failure
             ELSE LET new == put(IF s.Name \in DOMAIN v.map THEN v.map[s.Name] ELSE Null)
                  IN  IF new = Failure THEN Failure
                      ELSE Map((s.Name :> new) @@ v.map)

RECURSIVE cleanMapsOnly(_)
\* Mutant: sentinels are taken out of maps only.
cleanMapsOnly(v) ==
    CASE v.k = "map" -> Map([f \in {g \in DOMAIN v.map : v.map[g] # Omit} |->
                                 cleanMapsOnly(v.map[f])])
      [] OTHER -> v

RECURSIVE cleanOmitSentinels(_)
cleanOmitSentinels(v) ==
    CASE v.k = "map" -> Map([f \in {g \in DOMAIN v.map : v.map[g] # Omit} |->
                                 cleanOmitSentinels(v.map[f])])
      [] v.k = "list" ->
           LET keep == SelectSeq(v.list, LAMBDA e : e # Omit)
           IN  List([i \in DOMAIN keep |-> cleanOmitSentinels(keep[i])])
      [] OTHER -> v

(* Resolve: field by field; a sentinel is written like any value.          *)
ResolveField ==
    /\ phase = "resolve"
    /\ \E d \in todo :
           LET path == Parse(d.path)
               ok   == path.ok /\ Leads(object, path.segments)
           IN  /\ todo' = todo \ {d}
               /\ object' = IF ok THEN setValueAtPath(object, path.segments, Evaluated(d.parts))
                            ELSE object
               /\ results' = IF ok THEN results \cup {d} ELSE results
               /\ errors' = IF ok THEN errors ELSE errors \cup {d}
    /\ UNCHANGED <<scanVars, template, phase, field, plain, descriptors, known>>

(* The clean-up pass ends Resolve.  softResolve goes on with an empty      *)
(* status.                                                                 *)
EndResolve ==
    /\ phase = "resolve"
    /\ todo = {}
    /\ phase' = CASE errors # {} -> "error"
                  [] errors = {} /\ template.mode = "status" -> "upsert"
                  [] OTHER -> "done"
    /\ object' = IF template.mode = "status"
                 THEN Map(StatusName :> Map([f \in {} |-> Null]))
                 ELSE cleanOmitSentinels(object)
    /\ todo' = IF template.mode = "status" THEN results ELSE {}
    /\ UNCHANGED <<scanVars, template, field, plain, descriptors, known, results, errors>>

UpsertValueAtPath ==
    /\ phase = "upsert"
    /\ \E d \in todo :
           LET path == Parse(d.path)
               new  == IF path.ok THEN setValueAtPath(object, path.segments, Evaluated(d.parts))
                       ELSE Failure
           IN  /\ todo' = todo \ {d}
               /\ phase' = IF new = Failure THEN "error" ELSE "upsert"
               /\ object' = IF new = Failure THEN object ELSE new
    /\ UNCHANGED <<scanVars, template, field, plain, descriptors, known, results, errors>>

EndUpsert ==
    /\ phase = "upsert"
    /\ todo = {}
    /\ phase' = "done"
    /\ UNCHANGED <<scanVars, template, todo, field, plain, descriptors, known, object,
                   results, errors>>

TemplateInit ==
    /\ ScanOf(<<>>)
    /\ template \in AllTemplates
    /\ phase = "walk"
    /\ todo = {} /\ field = NoField /\ plain = {} /\ descriptors = {}
    /\ known = {} /\ object = Null /\ results = {} /\ errors = {}

Stop == phase \in Ended /\ UNCHANGED vars

TemplateNext ==
    \/ Walk
    \/ ScanField \/ ScanStep \/ NestedExpression \/ Describe \/ EndScan
    \/ Evaluate
    \/ ResolveField \/ EndResolve
    \/ UpsertValueAtPath \/ EndUpsert
    \/ Stop

(* Weak fairness of TemplateNext, written out: a step is possible in every *)
(* phase but the last ones (the runs check that nothing else deadlocks),   *)
(* and the function works through a template without waiting for anything. *)
TemplateFairness == []<>(phase \in Ended) \/ []<><<TemplateNext>>_vars

TemplateSpec == TemplateInit /\ [][TemplateNext]_vars /\ TemplateFairness

----
(* What a template means, without paths, positions or an order of steps    *)

(* A template, or a part of it, that stands for one value                  *)
Standalone(v) == v.k = "template" /\ Len(v.pieces) = 1 /\ v.pieces[1].k = "expr"
Omitted(v) == v = Omit \/ (Standalone(v) /\ Value[v.pieces[1].text] = Omit)

Filled(pieces) ==
    String(FlattenSeq([i \in DOMAIN pieces |->
               IF pieces[i].k = "expr" THEN Value[pieces[i].text].text ELSE pieces[i].text]))

(* o is v with its expressions replaced by their values and without        *)
(* whatever is omitted                                                     *)
RECURSIVE Renders(_, _)
Renders(o, v) ==
    CASE v.k = "map" ->
           /\ o.k = "map"
           /\ DOMAIN o.map = {f \in DOMAIN v.map : ~Omitted(v.map[f])}
           /\ \A f \in DOMAIN o.map : Renders(o.map[f], v.map[f])
      [] v.k = "list" ->
           LET kept == SelectSeq(v.list, LAMBDA e : ~Omitted(e))
           IN  /\ o.k = "list"
               /\ Len(o.list) = Len(kept)
               /\ \A i \in DOMAIN kept : Renders(o.list[i], kept[i])
      [] v.k = "template" ->
           IF Standalone(v) THEN Renders(o, Value[v.pieces[1].text]) ELSE o = Filled(v.pieces)
      [] OTHER -> o = v

(* Something of v is known                                                 *)
RECURSIVE KnownIn(_)
KnownIn(v) ==
    CASE v.k = "map" -> \E f \in DOMAIN v.map : KnownIn(v.map[f])
      [] v.k = "list" -> \E i \in DOMAIN v.list : KnownIn(v.list[i])
      [] v.k = "template" -> \A i \in DOMAIN v.pieces :
                                 v.pieces[i].k = "expr" => v.pieces[i].text \in known

(* o is the part of v that is known; an array ends with its last element   *)
(* of which something is.                                                  *)
RECURSIVE RendersKnown(_, _)
RendersKnown(o, v) ==
    CASE v.k = "map" ->
           /\ o.k = "map"
           /\ DOMAIN o.map = {f \in DOMAIN v.map : KnownIn(v.map[f])}
           /\ \A f \in DOMAIN o.map : RendersKnown(o.map[f], v.map[f])
      [] v.k = "list" ->
           /\ o.k = "list"
           /\ Len(o.list) = Max({i \in DOMAIN v.list : KnownIn(v.list[i])})
           /\ \A i \in DOMAIN o.list :
                  IF KnownIn(v.list[i]) THEN RendersKnown(o.list[i], v.list[i])
                  ELSE o.list[i] = Null
      [] v.k = "template" -> Renders(o, v)

(* A descriptor has at least one expression, and a result or an error is a *)
(* descriptor.                                                             *)
TemplatesTypeOK ==
    /\ phase \in {"walk", "scan", "evaluate", "resolve", "upsert"} \cup Ended
    /\ \A d \in descriptors : ExprsOf(d.parts) # {}
    /\ results \cup errors \subseteq descriptors
    /\ results \cap errors = {}

(* The object that is desired is the template with every expression        *)
(* replaced by its value, and nothing else changed: expressions are found  *)
(* whatever brackets and quotes are in or around them, two expressions in  *)
(* a string stay apart, and removing omitted elements of an array does not *)
(* shift the values meant for its other elements.                          *)
RendersTheTemplate ==
    phase = "done" /\ template.mode # "status" /\ template.verdict # "any" =>
        Renders(object, template.object)

(* The path the parser writes for a field leads the resolver back to it,   *)
(* and setting the values of the status one after the other never meets a  *)
(* value of another shape ("Resolution errors on filtered fields indicate  *)
(* bugs (template/path mismatch)", node_resolve.go).  Names contain no     *)
(* opening bracket, which joinPathAndFieldName does not protect.           *)
PathsLeadBack == phase # "error"

(* The status is made of exactly the fields whose expressions are all      *)
(* known.  An element of an array that is not known is null as long as one *)
(* behind it is, whatever the order in which the values are written.       *)
StatusIsWhatIsKnown ==
    phase = "done" /\ template.mode = "status" =>
        /\ object.k = "map" /\ DOMAIN object.map = {StatusName}
        /\ RendersKnown(object.map[StatusName], template.object)

(* The parser comes to an end on every string, though it goes back after   *)
(* an incomplete expression; it refuses the templates that break their     *)
(* schema, nest expressions or lack one in the status, and no others.      *)
EveryTemplateIsDecided ==
    <>(/\ phase \in Ended
       /\ template.verdict = "good" => phase # "rejected"
       /\ template.verdict = "faulty" => phase = "rejected")

====
