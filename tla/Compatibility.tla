---- MODULE Compatibility ----
(***************************************************************************)
(* Types of expressions and of the fields they are written to: the CEL     *)
(* type a schema is declared as (kro/cel/schemas.go) and when a type may   *)
(* be assigned to another (kro/cel/compatibility.go).                      *)
(*                                                                         *)
(* A type is a record tagged by t: a scalar, "dyn", "optional" [of],       *)
(* "list" [of], "map" [key, of] or "struct" [fields, open, resolves]; open *)
(* is x-kubernetes-preserve-unknown-fields, and resolves says that the     *)
(* type provider finds the fields by the name of the type.                 *)
(*                                                                         *)
(* A schema is a record [type, format, intOrString, preserve, items,       *)
(* additional, props], where items and additional are sets of at most one  *)
(* schema or, for an additionalProperties without one, {AnySchema}.        *)
(***************************************************************************)
EXTENDS Sequences

Scalar(t) == [t |-> t]
String == Scalar("string")
Bool == Scalar("bool")
Integer == Scalar("int")
Dyn == Scalar("dyn")
Optional(type) == [t |-> "optional", of |-> type]
List(type) == [t |-> "list", of |-> type]
Map(key, type) == [t |-> "map", key |-> key, of |-> type]
Struct(fields) == [t |-> "struct", fields |-> fields, open |-> FALSE, resolves |-> TRUE]

AnySchema == [type |-> "any", format |-> "", intOrString |-> FALSE, preserve |-> FALSE,
              items |-> {}, additional |-> {}, props |-> <<>>]
NoType == Scalar("nil")

----
(* Declared types                                                          *)

ScalarType(s) ==
    CASE s.type = "string" /\ s.format = "byte"     -> Scalar("bytes")
      [] s.type = "string" /\ s.format = "duration" -> Scalar("duration")
      [] s.type = "string" /\ s.format \in {"date", "date-time"} -> Scalar("timestamp")
      [] s.type = "string" /\ s.format \notin {"byte", "duration", "date", "date-time"} -> String
      [] s.type = "boolean" -> Bool
      [] s.type = "number"  -> Scalar("double")
      [] s.type = "integer" -> Integer
      [] OTHER -> NoType

RECURSIVE SchemaDeclTypeWithMetadata(_, _)

(* An array without items, or with items of no type, has no type; neither  *)
(* has a property of no type, which is left out.  A map whose values have  *)
(* none is a map of dyn.                                                   *)
SchemaDeclTypeWithMetadata(s, resolves) ==
    LET decl(x) == SchemaDeclTypeWithMetadata(x, resolves)
        typed   == {f \in DOMAIN s.props : decl(s.props[f]) # NoType}
    IN  IF s.intOrString THEN Dyn
        ELSE CASE s.type = "array" ->
                    IF \E x \in s.items : decl(x) # NoType
                    THEN List(decl(CHOOSE x \in s.items : TRUE)) ELSE NoType
               [] s.type = "object" /\ s.additional # {} ->
                    LET x == CHOOSE x \in s.additional : TRUE
                    IN  Map(String, IF decl(x) = NoType THEN Dyn ELSE decl(x))
               [] s.type = "object" /\ s.additional = {} ->
                    [t |-> "struct", fields |-> [f \in typed |-> decl(s.props[f])],
                     open |-> s.preserve, resolves |-> resolves]
               [] OTHER -> ScalarType(s)

(* expectedTypeForField and celTypeFromSchema.  The name the builder gives *)
(* a type below a map (its key, not "@elem") is not found again.           *)
ExpectedType(s, belowMap) ==
    LET type == SchemaDeclTypeWithMetadata(s, ~belowMap)
    IN  IF type = NoType THEN Dyn ELSE type

----
(* AreTypesStructurallyCompatible                                          *)

Parameters(type) ==
    CASE type.t \in {"list", "optional"} -> <<type.of>>
      [] type.t = "map" -> <<type.key, type.of>>
      [] OTHER -> <<>>

RECURSIVE AreTypesStructurallyCompatible(_, _)

(* The kind of the output is not looked at, only its first parameter.      *)
areListTypesCompatible(out, exp) ==
    Parameters(out) # <<>> /\ AreTypesStructurallyCompatible(Parameters(out)[1], exp.of)

areMapTypesCompatible(out, exp) ==
    /\ out.t = "map"
    /\ AreTypesStructurallyCompatible(out.key, exp.key)
    /\ AreTypesStructurallyCompatible(out.of, exp.of)

\* Mutant: fields the expected type does not have are passed over.
areStructFieldsCompatibleIfShared(out, exp) ==
    exp.open \/ \A f \in DOMAIN out.fields \cap DOMAIN exp.fields :
                    AreTypesStructurallyCompatible(out.fields[f], exp.fields[f])

(* Subset semantics.                                                       *)
areStructFieldsCompatible(out, exp) ==
    exp.open \/ \A f \in DOMAIN out.fields :
                    /\ f \in DOMAIN exp.fields
                    /\ AreTypesStructurallyCompatible(out.fields[f], exp.fields[f])

(* A scalar has no fields and a list is not found by its name: both pass.  *)
areStructTypesCompatible(out, exp) ==
    (out.t = "struct" /\ out.resolves /\ exp.resolves) => areStructFieldsCompatible(out, exp)

areMapTypesAssignableToStruct(out, exp) ==
    exp.resolves =>
        /\ out.key = String
        /\ \A f \in DOMAIN exp.fields : AreTypesStructurallyCompatible(out.of, exp.fields[f])

areStructTypesAssignableToMap(out, exp) ==
    out.resolves =>
        /\ exp.key = String
        /\ \A f \in DOMAIN out.fields : AreTypesStructurallyCompatible(out.fields[f], exp.of)

AreTypesStructurallyCompatible(out, exp) ==
    CASE "dyn" \in {out.t, exp.t} -> TRUE
      [] out.t = "optional" /\ exp.t # "dyn" -> AreTypesStructurallyCompatible(out.of, exp)
      [] OTHER ->
           CASE exp.t = "struct" /\ out.t = "map" -> areMapTypesAssignableToStruct(out, exp)
             [] exp.t = "map" /\ out.t = "struct" -> areStructTypesAssignableToMap(out, exp)
             [] exp.t = "list" -> areListTypesCompatible(out, exp)
             [] exp.t = "map" /\ out.t # "struct" -> areMapTypesCompatible(out, exp)
             [] exp.t = "struct" /\ out.t # "map" -> areStructTypesCompatible(out, exp)
             [] OTHER -> out.t = exp.t

----
(* The reference: the values of a type, and the values a schema admits.    *)

FieldNames == {"f", "g"}
Entries(fs) == [k |-> "map", entries |-> fs]
Items(vs) == [k |-> "list", items |-> vs]

RECURSIVE ValuesOf(_)
ValuesOf(type) ==
    CASE type.t = "optional" -> ValuesOf(type.of)
      [] type.t = "list" -> {Items(vs) : vs \in {{}} \cup {{v} : v \in ValuesOf(type.of)}}
      [] type.t = "map" -> {Entries([f \in K |-> v]) : K \in SUBSET FieldNames, v \in ValuesOf(type.of)}
      [] type.t = "struct" ->
             UNION {{Entries(fs) : fs \in {g \in [K -> UNION {ValuesOf(type.fields[f]) : f \in K}] :
                                              \A f \in K : g[f] \in ValuesOf(type.fields[f])}} :
                        K \in SUBSET DOMAIN type.fields}
      [] OTHER -> {[k |-> type.t]}

RECURSIVE Admits(_, _)
Admits(s, v) ==
    CASE s.intOrString -> v.k \in {"int", "string"}
      [] ~s.intOrString /\ s.type = "array" ->
             v.k = "list" /\ \A x \in v.items : \A i \in s.items : Admits(i, x)
      [] ~s.intOrString /\ s.type = "object" ->
             /\ v.k = "map"
             /\ \A f \in DOMAIN v.entries :
                    IF f \in DOMAIN s.props THEN Admits(s.props[f], v.entries[f])
                    ELSE s.preserve \/ \E x \in s.additional : Admits(x, v.entries[f])
      [] OTHER -> s.type = "any" \/ v.k = ScalarType(s).t

RECURSIVE Overlooked(_, _)
(* What AreTypesStructurallyCompatible does not compare: dynamic types, a  *)
(* struct expected of something else, of a name it cannot resolve or with  *)
(* unknown fields (its known fields are not compared either), and a list   *)
(* expected of a map.                                                      *)
Overlooked(out, exp) ==
    \/ "dyn" \in {out.t, exp.t}
    \/ out.t = "optional" /\ Overlooked(out.of, exp)
    \/ exp.t = "struct" /\ (out.t \notin {"struct", "optional"} \/ ~exp.resolves \/ exp.open)
    \/ exp.t = "list" /\ out.t = "map"
    \/ exp.t = out.t /\ exp.t \in {"list", "map"} /\ Overlooked(out.of, exp.of)
    \/ exp.t = "map" /\ out.t = "struct" /\ \E f \in DOMAIN out.fields : Overlooked(out.fields[f], exp.of)
    \/ exp.t = "struct" /\ out.t = "struct"
          /\ \E f \in DOMAIN out.fields \cap DOMAIN exp.fields : Overlooked(out.fields[f], exp.fields[f])
====
