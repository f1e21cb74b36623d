---- MODULE MCTemplates ----
(***************************************************************************)
(* Templates on four families: strings made of a few pieces, all short     *)
(* strings, nested objects and statuses, and objects against schemas.      *)
(***************************************************************************)
EXTENDS Templates

(* Expressions by their text, and what they evaluate to: a string, an      *)
(* object with an omitted field, literals with brackets, quotes and an     *)
(* opening in them, a dictionary, and omit().                              *)
A == <<"a">>
B == <<"b">>
O == <<"o">>
Bracket == <<"\"", "}", "\"">>
Escape == <<"\"", "\\", "\"", "{", "\"">>
Quoted == <<"\"", "$", "{", "a", "}", "\"">>
Dictionary == <<"{", "{", "}", "}">>

Number == [k |-> "scalar", type |-> "integer"]
Float == [k |-> "scalar", type |-> "float"]
Truth == [k |-> "scalar", type |-> "boolean"]

MCValue ==
    (A :> String(<<"v", "w">>)) @@
    (B :> Map((<<"x">> :> Number) @@ (<<"y">> :> Omit))) @@
    (O :> Omit) @@
    (Bracket :> String(<<"}">>)) @@
    (Escape :> String(<<"\"", "{">>)) @@
    (Quoted :> String(<<"$", "{", "a", "}">>)) @@
    (Dictionary :> String(<<"d">>))

Plain(t) == [k |-> "plain", text |-> t]
Raw(t) == [k |-> "raw", text |-> t]
Leaf(pieces) == [k |-> "template", pieces |-> pieces]
X(e) == Leaf(<<Expr(e)>>)

(* Names that need brackets in a path, and names that do not               *)
F == <<"f">>
G == <<"g">>
Dotted == <<"f", ".", "g">>
Empty == <<>>

Schema(types) == [NoSchema EXCEPT !.types = types]
Object(props) == [Schema({"object"}) EXCEPT !.props = props]
Array(items) == Schema({"array"}) @@ [items |-> items]
Preserve == [NoSchema EXCEPT !.preserve = TRUE]

Resource(schema, o, verdict) ==
    [mode |-> "resource", schema |-> schema, object |-> o, verdict |-> verdict]
External(o) ==
    [mode |-> "external", schema |-> NoSchema, object |-> o, verdict |-> "good"]
Status(o, verdict) ==
    [mode |-> "status", schema |-> NoSchema, object |-> o, verdict |-> verdict]

----
(* Strings of up to three pieces.  Plain text never opens an expression.   *)
Pieces ==
    {Plain(<<c>>) : c \in {"a", "$", "{", "}", "\""}} \cup
    {Expr(e) : e \in {A, Bracket, Escape, Quoted, Dictionary}}
OpensByChance(p) ==
    \E i \in 1..(Len(p) - 1) :
        p[i] = Plain(<<"$">>) /\ p[i + 1] = Plain(<<"{">>)
StringTemplates ==
    {Resource(Object(F :> Schema({"string"})), Map(F :> Leaf(p)), "good") :
         p \in {q \in UNION {[1..n -> Pieces] : n \in 1..3} : ~OpensByChance(q)}}

(* All short strings behind an opening                                     *)
RawTexts ==
    {<<"$", "{">> \o s : s \in UNION {[1..n -> {"a", "$", "{", "}", "\"", "\\"}] : n \in 0..4}}
RawTemplates ==
    {Resource(Object(F :> Schema({"string"})), Map(F :> Leaf(<<Raw(t)>>)), "any") :
         t \in {s \in RawTexts : \E i \in DOMAIN s : s[i] = "}"} \cup
               {<<"a", "$", "{", "a">>, <<"$", "{", "\"", "$", "{">>}}

(* Nested objects: lists of which elements are omitted, lists of lists,    *)
(* and names below names                                                   *)
Leaves == {X(A), X(B), X(O), Leaf(<<Plain(<<"a">>), Expr(A)>>), Number}
Lists == {List(<<x, y, z>>) : x, y, z \in {X(A), X(O), X(B)}}
NestedObjects ==
    {Map(n :> l) : n \in {F, Dotted, Empty}, l \in Lists} \cup
    {Map(F :> List(<<List(<<x, y>>), y>>)) : x, y \in Leaves} \cup
    {Map((n :> x) @@ (G :> Map(m :> y))) :
         n, m \in {F, Dotted, Empty}, x, y \in {X(A), X(O), Number}} \cup
    {Map(n :> Map(m :> List(<<Map(n :> x), Null>>))) : n, m \in {F, Dotted, Empty}, x \in Leaves}
ObjectTemplates ==
    {External(o) : o \in NestedObjects} \cup
    {Resource(Preserve, Map(F :> l), "good") : l \in Lists}

StatusLeaves == {X(A), X(Bracket), Leaf(<<Plain(<<"a">>), Expr(A)>>)}
StatusObjects ==
    {Map(n :> List(<<x, y, X(Dictionary)>>)) :
         n \in {F, Dotted, Empty}, x, y \in StatusLeaves} \cup
    {Map(F :> List(<<List(<<x, y>>), List(<<y, x>>)>>)) : x, y \in StatusLeaves} \cup
    {Map((n :> x) @@ (G :> Map((m :> y) @@ (F :> Map([f \in {} |-> Null]))))) :
         n, m \in {F, Dotted, Empty}, x, y \in {X(A), X(Bracket)}} \cup
    {Map(n :> List(<<Map(m :> x), Map(F :> y)>>)) :
         n, m \in {F, Dotted, Empty}, x, y \in {X(A), X(Bracket)}}
StatusTemplates ==
    {Status(o, "good") : o \in StatusObjects} \cup
    {Status(Map((F :> X(A)) @@ (G :> x)), "faulty") :
         x \in {Leaf(<<Plain(<<"a">>)>>), Number, Null, List(<<X(A), Truth>>)}}

(* Objects that fit their schemas, and objects that do not                 *)
Subschema(types, structural) == [types |-> types, structural |-> structural]
IntOrString == [Schema({"object"}) EXCEPT !.intOrString = TRUE]
OneOf == [Schema({"string"}) EXCEPT !.oneOf = {Subschema({}, TRUE), Subschema({"integer"}, FALSE)}]
AnyOf == [Schema({"object"}) EXCEPT !.oneOf = {Subschema({}, FALSE)},
                                    !.anyOf = {Subschema({"integer"}, FALSE),
                                               Subschema({"string"}, FALSE)}]
Additional == [NoSchema EXCEPT !.additional = "schema"] @@ [additionalSchema |-> Schema({"integer"})]
Anything == [NoSchema EXCEPT !.additional = "any"]

(* Schema of F, a value that fits it or not                                *)
Fitting == {
    <<Schema({"integer"}), X(A)>>, <<Schema({"integer"}), Number>>, <<Schema({"number"}), Float>>,
    <<Schema({"boolean"}), Truth>>, <<Schema({"boolean"}), Null>>,
    <<IntOrString, Leaf(<<Plain(<<"a">>)>>)>>, <<OneOf, Map([f \in {} |-> Null])>>,
    <<OneOf, Number>>, <<AnyOf, Leaf(<<Plain(<<"a">>)>>)>>,
    <<Additional, Map(Dotted :> X(A))>>, <<Additional, Leaf(<<Plain(<<"a">>)>>)>>,
    <<Array(Schema({"string"})), List(<<X(A), X(O)>>)>>,
    <<Object(G :> Preserve), Map(G :> List(<<Map(Empty :> X(O)), Truth>>))>>}
Unfitting == {
    <<Schema({"integer"}), Leaf(<<Plain(<<"a">>), Expr(A)>>)>>, <<Schema({"integer"}), Float>>,
    <<Schema({"string"}), Number>>, <<Schema({"string"}), Leaf(<<Raw(<<"$", "{", "a", "$", "{", "b", "}">>)>>)>>,
    <<OneOf, Leaf(<<Plain(<<"a">>)>>)>>, <<Schema({"string"}), List(<<X(A)>>)>>,
    <<Schema({"array"}), List(<<X(A)>>)>>, <<Schema({"string"}), Map(G :> X(A))>>,
    <<Object(F :> Schema({"string"})), Map(G :> X(A))>>, <<NoSchema, X(A)>>,
    <<Anything, Map(G :> X(A))>>, <<[NoSchema EXCEPT !.oneOf = {Subschema({}, FALSE)}], X(A)>>,
    <<Array(Schema({"string"})), List(<<X(A), Truth>>)>>}
SchemaTemplates ==
    {Resource(Object(F :> p[1]), Map(F :> p[2]), "good") : p \in Fitting} \cup
    {Resource(Object(F :> p[1]), Map(F :> p[2]), "faulty") : p \in Unfitting}

MCTemplateSet ==
    StringTemplates \cup RawTemplates \cup ObjectTemplates \cup StatusTemplates \cup SchemaTemplates
MCTexts == RawTexts

====
