---- MODULE MCBuilder ----
(***************************************************************************)
(* Builder on families of small definitions.  Expressions are parsed ones, *)
(* looked at by the inspector of module Inspector; they carry the types    *)
(* they want of the names in them and the type they return, which is       *)
(* compared with that of the field as module Compatibility does.           *)
(***************************************************************************)
EXTENDS Builder, Inspector, Compatibility

----
(* Expressions                                                             *)

Lit == [t |-> "lit"]
Ident(n) == [t |-> "ident", name |-> n]
Select(x) == [t |-> "select", operand |-> x, field |-> "f"]
Call(f, args) == [t |-> "call", fn |-> f, args |-> args]
Member(x, f) == [t |-> "member", target |-> x, fn |-> f, args |-> <<>>]
ListOf(args) == [t |-> "list", elems |-> args]

(* The expansions of range.map(x, body) and cel.bind(x, init, body).       *)
MapMacro(x, range, body) ==
    [t |-> "comp", iterVars |-> {x}, accuVar |-> "@result", range |-> range,
     init |-> ListOf(<<>>), cond |-> Lit,
     step |-> Call("_+_", <<Ident("@result"), ListOf(<<body>>)>>), result |-> Ident("@result")]
BindMacro(x, init, body) ==
    [t |-> "comp", iterVars |-> {"#unused"}, accuVar |-> x, range |-> ListOf(<<>>),
     init |-> init, cond |-> Lit, step |-> Ident(x), result |-> body]

MCFunctions == {<<"_+_">>, <<"omit">>, <<"lib", "make">>}
MCInternal == {"@result"}

NoWants == [v \in {} |-> String]

Expr(ast, type) == [ast |-> ast, wants |-> NoWants, type |-> type]
Wanting(n, t, type) == [ast |-> Select(Ident(n)), wants |-> [v \in {n} |-> t], type |-> type]

MCNames(e) == FreeNames(e.ast)
MCInspect(e, known) == InspectAST(e.ast, known)

MCCheck(e, env) ==
    IF \A v \in FreeNames(e.ast) :
           v \in DOMAIN env /\ (v \in DOMAIN e.wants => env[v] = e.wants[v])
    THEN e.type ELSE IllTyped

(* Schemas of fields, by their paths                                       *)
Of(type) == [AnySchema EXCEPT !.type = type]
ObjectOf(props) == [Of("object") EXCEPT !.props = props]
MapOf(x) == [Of("object") EXCEPT !.additional = {x}]
ArrayOf(x) == [Of("array") EXCEPT !.items = {x}]
Text1 == ObjectOf([f \in {"f"} |-> Of("string")])
Text2 == ObjectOf([f \in {"f", "g"} |-> Of("string")])

FieldSchemas ==
    [text |-> Of("string"), count |-> Of("integer"), flag |-> Of("boolean"), share |-> Of("number"),
     anything |-> AnySchema, time |-> [Of("string") EXCEPT !.format = "date-time"],
     port |-> [AnySchema EXCEPT !.intOrString = TRUE],
     array |-> Of("array"), texts |-> ArrayOf(Of("string")), objects |-> ArrayOf(Text1),
     matrix |-> ArrayOf(ArrayOf(Of("string"))), labels |-> MapOf(Of("string")),
     values |-> MapOf(AnySchema), entries |-> MapOf(Text1), object |-> Of("object"),
     open |-> [Text1 EXCEPT !.preserve = TRUE], one |-> Text1, two |-> Text2,
     nested |-> ObjectOf([f \in {"f"} |-> Text1]),
     listed |-> ObjectOf([f \in {"f"} |-> ArrayOf(Of("string"))])]

(* The fields of these are below a map, under a key of it.                 *)
EntrySchemas == [entry |-> Text1, entry2 |-> Text2]

(* The schema at a path, the same in all kinds                             *)
SchemaAt(path) ==
    CASE path \in DOMAIN FieldSchemas -> FieldSchemas[path]
      [] path \in DOMAIN EntrySchemas -> EntrySchemas[path]
      [] OTHER -> Of("string")

MCFieldType(kind, path) == ExpectedType(SchemaAt(path), path \in DOMAIN EntrySchemas)

(* Types without structure that are assignable to one another have the     *)
(* same name here, so this also stands for IsAssignableType.               *)
MCFits(out, expected) == AreTypesStructurallyCompatible(out, expected)

Text(n) == Expr(Select(Ident(n)), String)
Flag(n) == Expr(Select(Ident(n)), Bool)
Many(n) == Expr(Select(Ident(n)), ListType(String))
OmitOr(n) == Expr(Call("omit", <<Ident(n)>>), String)

----
(* Definitions                                                             *)

Field(p, e) == [path |-> p, expr |-> e]
Dim(n, e) == [name |-> n, expr |-> e]

Resource(n) ==
    [id |-> n, kind |-> "App", form |-> "template", object |-> "ok",
     fields |-> <<Field("metadata.name", Text("schema"))>>,
     includeWhen |-> <<>>, readyWhen |-> <<>>, forEach |-> <<>>]

Collection(n, e) ==
    [Resource(n) EXCEPT !.forEach = <<Dim("i", e)>>,
                        !.fields = <<Field("metadata.name", Text("i"))>>]

With(r, e) == [r EXCEPT !.fields = Append(@, Field("spec", e))]

Answers == [k \in {"XR", "App", "Db", "CRD", "Gone"} |->
               IF k \in {"CRD", "Gone"} THEN "none" ELSE "good"]

Define(rs) == [xr |-> "XR", capability |-> TRUE, seeded |-> FALSE, omitGate |-> TRUE,
               answers |-> Answers, resources |-> rs, status |-> <<>>]

(* What Crossplane answers, through schemas or CRDs.                       *)
Negotiations ==
    {[Define(<<Resource("a"), [Resource("b") EXCEPT !.kind = "Db"]>>)
        EXCEPT !.answers = [k \in DOMAIN Answers |-> IF k \in DOMAIN ans THEN ans[k] ELSE "none"],
               !.capability = TRUE] :
        ans \in [{"XR", "App", "Db"} -> {"good", "none", "bad"}]}
    \cup
    {[Define(<<Resource("a"), [Resource("b") EXCEPT !.kind = kind]>>)
        EXCEPT !.answers = [k \in DOMAIN Answers |-> IF k \in DOMAIN ans THEN ans[k] ELSE "none"],
               !.capability = FALSE, !.seeded = seed] :
        kind \in {"Db", "CRD"}, seed \in BOOLEAN,
        ans \in [{"XR", "App", "Db"} -> {"good", "none", "bad", "other"}]}

(* Names of resources and iterators.                                       *)
Namings ==
    {Define(<<Resource(x), [Collection(y, Many("schema")) EXCEPT
                               !.forEach = <<Dim(i, Many("schema")), Dim(j, Many("schema"))>>,
                               !.fields = <<Field("metadata.name", Text(i)),
                                            Field("metadata.namespace", Text(j))>>]>>) :
        x \in {"a", "b", "schema", "Bad"}, y \in {"a", "b"},
        i \in {"i", "a", "Bad"}, j \in {"i", "j", "each"}}
    \cup {Define(<<[Collection("a", Many("schema")) EXCEPT
                        !.forEach = [k \in 1..n |-> Dim(<<"i", "j", "k">>[k], Many("schema"))],
                        !.fields = [k \in 1..n |-> Field("metadata.name", Text(<<"i", "j", "k">>[k]))]]>>) :
             n \in 0..3}

(* What a resource consists of.                                            *)
Shapes ==
    {Define(<<[Resource("a") EXCEPT
                  !.form = form, !.object = IF form \in {"template", "both"} THEN obj ELSE "ok",
                  !.kind = kind,
                  !.fields = <<Field("metadata.name", Text("schema")), Field(p, Text("schema"))>>,
                  !.includeWhen = inc]>>) :
        form \in {"template", "externalRef", "selector", "both", "neither"},
        obj \in {"ok", "offSchema", "notAnObject", "unreadable"},
        kind \in {"App", "CRD", "Gone"},
        p \in {"spec", "metadata.labels"},
        inc \in {<<>>, <<NotStandalone>>}}
    \cup {Define(<<[Collection("a", Many("schema")) EXCEPT !.form = f]>>) :
             f \in {"externalRef", "selector"}}

(* Which of three resources refers to which, and in what place.            *)
References == {"none"} \cup ({"a", "b", "c"} \X {"template", "forEach", "includeWhen"})

Referring(n, ref) ==
    IF ref = "none" THEN Resource(n)
    ELSE CASE ref[2] = "template"    -> With(Resource(n), Text(ref[1]))
           [] ref[2] = "forEach"     -> Collection(n, Many(ref[1]))
           [] ref[2] = "includeWhen" -> [Resource(n) EXCEPT !.includeWhen = <<Flag(ref[1])>>]

Shaped ==
    {Define(<<Referring("c", x), Referring("a", y), Referring("b", z)>>) :
        x \in References, y \in References, z \in References}

----
(* One expression of every small form, in a place of its own.              *)
Atoms == {Ident(n) : n \in {"a", "i", "u", "schema"}} \cup {Lit}
Small == Atoms \cup {Select(x) : x \in Atoms}
               \cup {Member(x, "make") : x \in {Ident("a"), Ident("lib"), Select(Ident("lib"))}}
               \cup {Call(f, <<x>>) : f \in {"omit", "nope"}, x \in {Ident("a"), Lit}}
               \cup {MapMacro(v, x, y) : v \in {"a", "x"}, x \in Atoms, y \in Atoms \cup {Ident("x")}}
               \cup {BindMacro(v, x, y) : v \in {"u", "x"}, x \in Atoms, y \in Atoms \cup {Ident("x")}}
Nested == {MapMacro(v, x, y) : v \in {"a", "x"}, x \in {Ident("schema"), MapMacro("x", Ident("i"), Ident("x"))},
                               y \in Small}
              \cup {ListOf(<<x, y>>) : x \in Small, y \in {Ident("x"), Ident("a")}}

Asts == {x \in Small \cup Nested : Hygienic(x)}

Inspections ==
    {Define(<<Resource("a"), With(Collection("b", Many("schema")), Expr(x, String))>>) : x \in Asts}

----
(* Conditions, omit() and status                                           *)

Conditions == {<<>>, <<Flag("a")>>, <<Flag("b")>>, <<Flag("schema")>>, <<Flag("each")>>,
               <<Text("a")>>, <<Flag("u")>>, <<Expr(Call("nope", <<>>), Bool)>>,
               <<Expr(Call("omit", <<>>), Bool)>>, <<Flag("schema"), Flag("a")>>}

Typed(n, type) ==
    CASE type = "resource"   -> Resource(n)
      [] type = "collection" -> Collection(n, Many("schema"))
      [] type = "selector"   -> [Resource(n) EXCEPT !.form = "selector"]
      [] type = "external"   -> [Resource(n) EXCEPT !.form = "externalRef"]

Conditioned ==
    {Define(<<[Typed("a", x) EXCEPT !.readyWhen = r],
              [With(Resource("b"), Text("a")) EXCEPT !.includeWhen = i, !.readyWhen = q]>>) :
        x \in {"resource", "collection", "selector", "external"},
        r \in Conditions, i \in Conditions, q \in {<<>>, <<Flag("b")>>}}

(* Templates that share the text of a readyWhen, and iterations of their   *)
(* own, next to other expressions.                                         *)
Mixed == {Text("schema"), Text("a"), Text("i"), Expr(ListOf(<<Ident("i"), Ident("a")>>), String)}

Shared ==
    {Define(<<[Resource("a") EXCEPT !.readyWhen = <<Flag("a")>>],
              [Typed("b", x) EXCEPT !.fields = @ \o <<Field("flag", f), Field("spec", s),
                                                        Field("metadata.labels", t)>>,
                                    !.includeWhen = i]>>) :
        x \in {"resource", "collection"}, f \in {Flag("a"), Flag("schema")},
        s \in Mixed, t \in Mixed, i \in {<<>>, <<Flag("schema")>>}}

(* Types: of lists, iterators, fields and what they are taken from.        *)
App == ObjectType("App")
Typings ==
    {Define(<<Typed("a", x),
              [Collection("b", e) EXCEPT !.fields = Append(@, Field("spec", s)),
                                         !.readyWhen = <<Wanting("each", o, Bool)>>]>>) :
        x \in {"resource", "collection", "selector"},
        e \in {Many("a"), Text("a"), Wanting("a", App, ListType(App)),
               Wanting("a", ListType(App), ListType(App)), OmitOr("a")},
        s \in {Text("i"), Flag("i"), Wanting("i", App, String), Wanting("i", String, String)},
        o \in {App, ObjectType("Db")}}

(* An expression of each type, for a field of each schema.                 *)
OutputTypes ==
    {SchemaDeclTypeWithMetadata(FieldSchemas[p], TRUE) :
         p \in DOMAIN FieldSchemas \ {"anything", "array"}}
        \cup {Optional(String), Optional(Struct([f \in {"f"} |-> String])), List(Optional(Integer)),
              List(Map(String, String)), Map(Integer, String), Map(String, Integer), Map(String, Optional(String)),
              Struct([f \in {"f"} |-> Integer]), Struct([f \in {"f"} |-> Dyn]),
              Struct([f \in {"f"} |-> Struct([g \in {"f", "g"} |-> String])])}

Assignments ==
    {Define(<<[Resource("a") EXCEPT !.fields = Append(@, Field(p, Expr(Select(Ident("schema")), type)))]>>) :
        p \in DOMAIN FieldSchemas \cup DOMAIN EntrySchemas, type \in OutputTypes}

Omissions ==
    {[Define(<<[Resource("a") EXCEPT !.fields = <<Field(p, e), Field("metadata.labels", f)>>]>>)
         EXCEPT !.omitGate = g] :
        p \in {"metadata.name", "metadata.namespace", "spec"},
        e \in {Text("schema"), OmitOr("schema")}, f \in {Text("schema"), OmitOr("schema")},
        g \in BOOLEAN}

Statuses ==
    {[Define(<<[Resource("a") EXCEPT !.readyWhen = <<Flag("a")>>], Collection("b", Many("a"))>>)
         EXCEPT !.status = <<s, t>>] :
        s \in {Text("a"), Text("b"), Flag("a"), Expr(ListOf(<<Ident("a"), Ident("b")>>), String)},
        t \in {Plain, Text("b"), Text("schema"), Text("each"), Text("u"), OmitOr("a"), Expr(Lit, String),
               Wanting("a", App, String), Wanting("b", App, String)}}
    \cup {Define(<<>>), [Define(<<>>) EXCEPT !.status = <<Text("a")>>]}

MCDefinitions ==
    Negotiations \cup Namings \cup Shapes \cup Shaped \cup Inspections \cup Conditioned
        \cup Shared \cup Typings \cup Assignments \cup Omissions \cup Statuses

(* Definitions in which an includeWhen has the text of a readyWhen.        *)
SharedConditions ==
    {Define(<<[Resource("a") EXCEPT !.readyWhen = <<Flag("a")>>],
              [With(Resource("b"), Text("schema")) EXCEPT !.includeWhen = <<Flag(n)>>]>>) :
        n \in {"a", "schema"}}

----
(* A field of a graph that was built is given only values its schema       *)
(* admits, by the type of its expression, unless the comparison of types   *)
(* overlooks the pair.                                                     *)
ValuesFitFields ==
    phase = "done" =>
        \A n \in Nodes : \A f \in Elems(Res(def, n).fields) :
            LET out == Check(f.expr, TemplateEnv(def, Res(def, n)))
            IN  Overlooked(out, FieldType(Res(def, n).kind, f.path))
                    \/ \A v \in ValuesOf(out) : Admits(SchemaAt(f.path), v)
====
