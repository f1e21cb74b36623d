---- MODULE Inspector ----
(***************************************************************************)
(* The inspector of CEL expressions (kro/cel/ast): which identifiers and   *)
(* functions a parsed expression uses.                                     *)
(*                                                                         *)
(* An AST is a record tagged by t: "ident" [name], "select" [operand,      *)
(* field], "call" [fn, args], "member" [target, fn, args], "comp" (a       *)
(* comprehension: [iterVars, accuVar, range, init, cond, step, result]),   *)
(* "list" [elems] (also a map or a message) and "lit".  A function name is *)
(* a sequence of identifiers; access paths and the printed form of the     *)
(* calls, which only serve messages, are left out.                         *)
(***************************************************************************)
EXTENDS Digraphs

CONSTANTS
    Functions,   \* the functions of the CEL environment
    Internal     \* the identifiers isInternalIdentifier recognises

Omit == <<"omit">>

(* An ExpressionInspection is a set of findings [kind, name], so that      *)
(* merging two of them is their union.                                     *)
Found(kind, name) == {[kind |-> kind, name |-> name]}

RECURSIVE QualifiedName(_)
(* exprToString, as far as it can name a function: the dotted name of a    *)
(* chain of selections, <<>> for anything else.                            *)
QualifiedName(ast) ==
    CASE ast.t = "ident"  -> <<ast.name>>
      [] ast.t = "select" -> IF QualifiedName(ast.operand) = <<>> THEN <<>>
                             ELSE Append(QualifiedName(ast.operand), ast.field)
      [] OTHER            -> <<>>

(* The member function of a namespace, such as lib.make.                   *)
IsNamespaced(ast) ==
    /\ QualifiedName(ast.target) # <<>>
    /\ Append(QualifiedName(ast.target), ast.fn) \in Functions

\* Mutant: loop variables are not tracked.
inspectIdentFlat(name, known, loopVars) ==
    IF name \in known THEN Found("resource", <<name>>)
    ELSE IF name \in Internal THEN {} ELSE Found("unknown", <<name>>)

inspectIdent(name, known, loopVars) ==
    IF name \in loopVars THEN {}
    ELSE IF name \in known THEN Found("resource", <<name>>)
    ELSE IF name \in Internal THEN {} ELSE Found("unknown", <<name>>)

RECURSIVE inspectExpr(_, _, _)
inspectAll(s, known, loopVars) ==
    UNION {inspectExpr(s[i], known, loopVars) : i \in DOMAIN s}

(* The arguments, then the function itself: a member function is inspected *)
(* with its target, unless the two name a function of the environment.     *)
inspectCall(ast, known, loopVars) ==
    inspectAll(ast.args, known, loopVars) \cup
        (IF ast.t = "member"
         THEN Found("call", Append(QualifiedName(ast.target), ast.fn))
                 \cup (IF IsNamespaced(ast) THEN {} ELSE inspectExpr(ast.target, known, loopVars))
         ELSE Found(IF <<ast.fn>> \in Functions THEN "call" ELSE "unknownFunction", <<ast.fn>>))

(* The variables of the comprehension are loop variables in all its parts, *)
(* also in the accumulator's initial value and the range, which CEL        *)
(* evaluates outside their scope.                                          *)
inspectComprehension(ast, known, loopVars) ==
    inspectAll(<<ast.init, ast.range, ast.cond, ast.step, ast.result>>,
               known, loopVars \cup ast.iterVars \cup {ast.accuVar})

inspectExpr(ast, known, loopVars) ==
    CASE ast.t = "ident"  -> inspectIdent(ast.name, known, loopVars)
      [] ast.t = "select" -> inspectExpr(ast.operand, known, loopVars)
      [] ast.t \in {"call", "member"} -> inspectCall(ast, known, loopVars)
      [] ast.t = "comp"   -> inspectComprehension(ast, known, loopVars)
      [] ast.t = "list"   -> inspectAll(ast.elems, known, loopVars)
      [] OTHER            -> {}

NamesFound(found, kind) == {f.name[1] : f \in {g \in found : g.kind = kind}}

(* Inspector.Inspect and UsesOmit.                                         *)
InspectAST(ast, known) ==
    LET found == inspectExpr(ast, known, {})
    IN  [parses           |-> TRUE,
         refs             |-> NamesFound(found, "resource"),
         unknown          |-> NamesFound(found, "unknown"),
         unknownFunctions |-> NamesFound(found, "unknownFunction") # {},
         omit             |-> [kind |-> "call", name |-> Omit] \in found]

----
(* The reference: the names that are free in an expression.                *)

RECURSIVE FreeNames(_)
FreeNames(ast) ==
    CASE ast.t = "ident"  -> {ast.name}
      [] ast.t = "select" -> FreeNames(ast.operand)
      [] ast.t = "call"   -> UNION {FreeNames(a) : a \in Elems(ast.args)}
      [] ast.t = "member" ->
             (UNION {FreeNames(a) : a \in Elems(ast.args)})
                \cup (IF IsNamespaced(ast) THEN {} ELSE FreeNames(ast.target))
      [] ast.t = "comp"   ->
             FreeNames(ast.init) \cup FreeNames(ast.range)
                \cup ((FreeNames(ast.cond) \cup FreeNames(ast.step))
                         \ (ast.iterVars \cup {ast.accuVar}))
                \cup (FreeNames(ast.result) \ {ast.accuVar})
      [] ast.t = "list"   -> UNION {FreeNames(a) : a \in Elems(ast.elems)}
      [] OTHER            -> {}

RECURSIVE Hygienic(_)
(* No comprehension binds a name that its own range or initial value uses. *)
Hygienic(ast) ==
    CASE ast.t = "select" -> Hygienic(ast.operand)
      [] ast.t = "call"   -> \A a \in Elems(ast.args) : Hygienic(a)
      [] ast.t = "member" -> /\ Hygienic(ast.target)
                             /\ \A a \in Elems(ast.args) : Hygienic(a)
      [] ast.t = "comp"   ->
             /\ \A i \in 1..5 :
                    Hygienic(<<ast.init, ast.range, ast.cond, ast.step, ast.result>>[i])
             /\ (ast.iterVars \cup {ast.accuVar})
                   \cap (FreeNames(ast.init) \cup FreeNames(ast.range)) = {}
      [] ast.t = "list"   -> \A a \in Elems(ast.elems) : Hygienic(a)
      [] OTHER            -> TRUE
====
