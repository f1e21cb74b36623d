---- MODULE AdmissionProofs ----
(***************************************************************************)
(* Building a graph implements the abstract specification of admission     *)
(* (its safety part), for every set of definitions and every order in      *)
(* which Go walks the nodes.                                               *)
(***************************************************************************)
EXTENDS BuilderProofs, FiniteSetTheorems

----
(* The abstract specification speaks of definitions in the same words.     *)

(* A resource is the same in both.                                         *)
LEMMA SameResources ==
    ASSUME NEW r
    PROVE  /\ Decision!HasTemplate(r) <=> HasTemplate(r)
           /\ Decision!HasExternalRef(r) <=> HasExternalRef(r)
           /\ Decision!NodeType(r) = NodeType(r)
           /\ Decision!Iterators(r) = Iterators(r)
           /\ Decision!TemplateExprs(r) = TemplateExprs(r)
           /\ Decision!ForEachExprs(r) = ForEachExprs(r)
           /\ Decision!IncludeExprs(r) = IncludeExprs(r)
           /\ Decision!ReadyExprs(r) = ReadyExprs(r)
           /\ Decision!DependencyExprs(r) = DependencyExprs(r)
           /\ Decision!Elems(r) = Elems(r)
  BY DEF Decision!HasTemplate, HasTemplate, Decision!HasExternalRef, HasExternalRef,
         Decision!NodeType, NodeType, Decision!Iterators, Iterators,
         Decision!TemplateExprs, TemplateExprs, Decision!ForEachExprs, ForEachExprs,
         Decision!IncludeExprs, IncludeExprs, Decision!ReadyExprs, ReadyExprs,
         Decision!DependencyExprs, DependencyExprs, Decision!Elems, Elems

(* So are the types of CEL and the paths of fields.                        *)
LEMMA SameTypes ==
    /\ \A k : Decision!ObjectType(k) = ObjectType(k)
    /\ \A t : Decision!ListType(t) = ListType(t)
    /\ \A t : Decision!IsBoolOrOptionalBool(t) <=> IsBoolOrOptionalBool(t)
    /\ Decision!IllTyped = IllTyped
    /\ Decision!MetadataNamePath = MetadataNamePath
    /\ Decision!IdentityPaths = IdentityPaths
    /\ Decision!MetadataPaths = MetadataPaths
  BY DEF Decision!ObjectType, ObjectType, Decision!ListType, ListType,
         Decision!IsBoolOrOptionalBool, IsBoolOrOptionalBool, Decision!IllTyped, IllTyped,
         Decision!MetadataNamePath, MetadataNamePath, Decision!MetadataNamespacePath,
         MetadataNamespacePath, Decision!IdentityPaths, IdentityPaths,
         Decision!MetadataPaths, MetadataPaths

(* So is a definition.                                                     *)
LEMMA SameWords ==
    ASSUME NEW d
    PROVE  /\ Decision!Resources(d) = Resources(d)
           /\ Decision!IDs(d) = IDs(d)
           /\ Decision!GVKs(d) = GVKs(d)
           /\ Decision!Resolvable(d) = Resolvable(d)
           /\ Decision!Known(d) = Known(d)
           /\ \A n : Decision!Res(d, n) = Res(d, n)
           /\ Decision!NodeSchemas(d) = NodeSchemas(d)
           /\ \A r : Decision!TemplateEnv(d, r) = TemplateEnv(d, r)
<1>1. Decision!Resources(d) = Resources(d)
  BY SameResources DEF Decision!Resources, Resources
<1>2. Decision!IDs(d) = IDs(d)
  BY <1>1 DEF Decision!IDs, IDs
<1>3. Decision!GVKs(d) = GVKs(d)
  BY <1>1 DEF Decision!GVKs, GVKs
<1>4. Decision!Resolvable(d) = Resolvable(d)
  BY <1>3 DEF Decision!Resolvable, Resolvable
<1>5. Decision!Known(d) = Known(d)
  BY <1>2 DEF Decision!Known, Known
<1>6. \A n : Decision!Res(d, n) = Res(d, n)
  BY <1>1 DEF Decision!Res, Res
<1>7. Decision!NodeSchemas(d) = NodeSchemas(d)
  BY <1>2, <1>6, SameResources, SameTypes DEF Decision!NodeSchemas, NodeSchemas
<1>8. \A r : Decision!TemplateEnv(d, r) = TemplateEnv(d, r)
  BY DEF Decision!TemplateEnv, TemplateEnv, Decision!NodeSchemas, NodeSchemas,
         Decision!IDs, IDs, Decision!Resources, Resources, Decision!Res, Res,
         Decision!Iterators, Iterators, Decision!Elems, Elems, Decision!NodeType, NodeType,
         Decision!HasExternalRef, HasExternalRef, Decision!ObjectType, ObjectType,
         Decision!ListType, ListType
<1> QED
  BY <1>1, <1>2, <1>3, <1>4, <1>5, <1>6, <1>7, <1>8

----
(* The checks of the builder, and what of an acceptable definition each    *)
(* one establishes                                                         *)

Collectable ==
    \A r \in Resources(def) : HasExternalRef(r) \/ (HasTemplate(r) /\ r.object # "unreadable")

SchemasFound ==
    /\ Collectable
    /\ \A k \in GVKs(def) : def.answers[k] # "bad"
    /\ def.xr \in Resolvable(def)

NamesValid ==
    /\ \A i \in DOMAIN def.resources :
          /\ ValidName(def.resources[i].id)
          /\ \A j \in 1..(i - 1) : def.resources[j].id # def.resources[i].id
    /\ \A r \in Resources(def) : validateForEachDimensions(r)

(* The two kinds of definitions that the builder decides otherwise: those  *)
(* that meet an unrelated schema before Crossplane answers, and those with *)
(* collections of different kinds that share the environment of "each".    *)
Ordinary ==
    /\ ~(def.capability /\ def.seeded)
    /\ \A r, s \in Resources(def) : UsesEach(r) /\ UsesEach(s) => r.kind = s.kind

(* A usable schema is that of the composite resource.                      *)
LEMMA NegotiableMeans ==
    ASSUME def \in Definitions
    PROVE  Decision!Negotiable(def) <=> SchemasFound
<1>1. def.xr \in GVKs(def) /\ def.xr \notin CoreKinds
  BY BuilderAssumption DEF GVKs
<1>2. def.xr \in Resolvable(def) => def.answers[def.xr] = "good"
  BY <1>1 DEF Resolvable
<1>3. Decision!Negotiable(def) <=>
        /\ Collectable
        /\ \A k \in GVKs(def) : def.answers[k] # "bad"
        /\ \E k \in GVKs(def) : def.answers[k] \in {"good", "other"}
        /\ def.xr \in Resolvable(def)
  BY SameResources, SameWords DEF Decision!Negotiable, Collectable
<1> QED
  BY <1>1, <1>2, <1>3 DEF SchemasFound

(* Names are compared with those before them, or with all others.          *)
LEMMA WellNamedMeans ==
    ASSUME def \in Definitions
    PROVE  Decision!WellNamed(def) <=> NamesValid
<1> DEFINE Usable == LowerCamelCase \ ReservedWords
<1>1. /\ def.resources \in Seq(Resources(def))
      /\ \A r \in Resources(def) : r.forEach \in Seq(Elems(r.forEach))
  BY BuilderAssumption
<1>2. DOMAIN def.resources = 1..Len(def.resources) /\ Len(def.resources) \in Nat
  BY <1>1
<1>3. \A r \in Resources(def) : DOMAIN r.forEach = 1..Len(r.forEach) /\ Len(r.forEach) \in Nat
  BY <1>1
<1>4. IDs(def) \subseteq Usable <=> \A i \in DOMAIN def.resources : ValidName(def.resources[i].id)
  BY <1>2 DEF IDs, Resources, Elems, ValidName
<1>5. (\A i, j \in DOMAIN def.resources : def.resources[i].id = def.resources[j].id => i = j)
        <=> \A i \in DOMAIN def.resources : \A j \in 1..(i - 1) :
                def.resources[j].id # def.resources[i].id
  BY <1>2
<1>6. ASSUME NEW r \in Resources(def)
      PROVE  validateForEachDimensions(r) <=>
               /\ Len(r.forEach) <= MaxCollectionDimensionSize
               /\ Iterators(r) \subseteq Usable \ IDs(def)
               /\ \A i, j \in DOMAIN r.forEach : r.forEach[i].name = r.forEach[j].name => i = j
  <2>1. Iterators(r) \subseteq Usable \ IDs(def) <=>
          \A i \in DOMAIN r.forEach : /\ ValidName(r.forEach[i].name)
                                      /\ r.forEach[i].name \notin Nodes
    BY <1>3 DEF Iterators, Elems, ValidName, Nodes
  <2>2. (\A i, j \in DOMAIN r.forEach : r.forEach[i].name = r.forEach[j].name => i = j)
          <=> \A i \in DOMAIN r.forEach : \A j \in 1..(i - 1) :
                  r.forEach[j].name # r.forEach[i].name
    BY <1>3
  <2> QED
    BY <2>1, <2>2 DEF validateForEachDimensions
<1>7. Decision!WellNamed(def) <=>
        /\ IDs(def) \subseteq Usable
        /\ \A i, j \in DOMAIN def.resources : def.resources[i].id = def.resources[j].id => i = j
        /\ \A r \in Resources(def) :
              /\ Len(r.forEach) <= MaxCollectionDimensionSize
              /\ Iterators(r) \subseteq Usable \ IDs(def)
              /\ \A i, j \in DOMAIN r.forEach : r.forEach[i].name = r.forEach[j].name => i = j
  BY SameResources, SameWords DEF Decision!WellNamed, Decision!UsableNames
<1> HIDE DEF Usable
<1> QED
  BY <1>4, <1>5, <1>6, <1>7 DEF NamesValid

(* Iterators are new names, and no node has a reserved one.                *)
LEMMA NewNames ==
    ASSUME def \in Definitions, NamesValid
    PROVE  /\ Schema \notin Nodes /\ Each \notin Nodes /\ Schema # Each
           /\ \A r \in Resources(def) : Iterators(r) \cap Known(def) = {}
           /\ \A r \in Resources(def) : r.id \in Nodes /\ Res(def, r.id) = r
<1>1. IDs(def) \cap ReservedWords = {}
      /\ \A r \in Resources(def) : Iterators(r) \cap (ReservedWords \cup IDs(def)) = {}
  BY WellNamedMeans, SameWords, SameResources DEF Decision!WellNamed, Decision!UsableNames
<1>2. \A i, j \in DOMAIN def.resources : def.resources[i].id = def.resources[j].id => i = j
  BY WellNamedMeans DEF Decision!WellNamed
<1>3. ASSUME NEW r \in Resources(def) PROVE r.id \in Nodes /\ Res(def, r.id) = r
  <2>1. r.id \in IDs(def)
    BY DEF IDs
  <2>2. Res(def, r.id) \in Resources(def) /\ Res(def, r.id).id = r.id
    BY <2>1, ResOf
  <2>3. DOMAIN def.resources = 1..Len(def.resources)
    BY BuilderAssumption
  <2>4. PICK i \in DOMAIN def.resources : def.resources[i] = r
    BY <2>3 DEF Resources, Elems
  <2>5. PICK j \in DOMAIN def.resources : def.resources[j] = Res(def, r.id)
    BY <2>2, <2>3 DEF Resources, Elems
  <2> QED
    BY <1>2, <2>1, <2>2, <2>4, <2>5 DEF Nodes
<1> QED
  BY <1>1, <1>3, ResourceGraphsAssumption DEF Nodes, Known

(* A resource has the right form.                                          *)
LEMMA WellFormedMeans ==
    ASSUME def \in Definitions, Collectable, NEW r \in Resources(def)
    PROVE  Decision!WellFormed(def, r) <=> buildRGResource(r)
<1>1. r.object \in {"ok", "offSchema", "notAnObject", "unreadable"}
  BY BuilderAssumption
<1>2. Decision!WellFormed(def, r) <=>
        /\ r.form \in {"template", "externalRef", "selector"}
        /\ HasExternalRef(r) => r.forEach = <<>>
        /\ HasTemplate(r) => r.object # "notAnObject"
        /\ r.object = "offSchema" => HasExternalRef(r) \/ r.kind = CRDKind
        /\ r.kind \in Resolvable(def)
        /\ HasTemplate(r) /\ r.kind = CRDKind => \A f \in Elems(r.fields) : f.path \in MetadataPaths
        /\ NotStandalone \notin IncludeExprs(r) \cup ReadyExprs(r) \cup ForEachExprs(r)
  BY SameResources, SameWords, SameTypes DEF Decision!WellFormed
<1>3. HasExternalRef(r) \/ (HasTemplate(r) /\ r.object # "unreadable")
  BY DEF Collectable
<1>4. r.form \in {"template", "externalRef", "selector"}
        <=> (HasTemplate(r) \/ HasExternalRef(r)) /\ ~(HasTemplate(r) /\ HasExternalRef(r))
  BY DEF HasTemplate, HasExternalRef
<1>5. NotStandalone \notin IncludeExprs(r) \cup ReadyExprs(r) \cup ForEachExprs(r)
        <=> NotStandalone \notin ReadyExprs(r) \cup IncludeExprs(r) \cup ForEachExprs(r)
  OBVIOUS
<1> QED
  BY <1>1, <1>2, <1>3, <1>4, <1>5
     DEF buildRGResource, validateCombinableResourceFields, FieldsParse

(* The inspector reports the names in the expressions of a resource that   *)
(* has the right form.                                                     *)
LEMMA Reported ==
    ASSUME def \in Definitions, InspectsTheFreeNames, NEW r \in Resources(def),
           buildRGResource(r), NEW e \in DependencyExprs(r) \cup ReadyExprs(r)
    PROVE  /\ Inspected(e).refs = Names(e) \cap Known(def)
           /\ Inspected(e).unknown = Names(e) \ Known(def)
<1>1. e # NotStandalone
  BY BuilderAssumption DEF buildRGResource, DependencyExprs
<1>2. e # Plain
  BY BuilderAssumption
<1>3. e \in Exprs(def)
  BY DEF Exprs
<1> QED
  BY <1>1, <1>2, <1>3 DEF InspectsTheFreeNames, Exact, Inspected

(* Both read the same report.                                              *)
LEMMA SameReports ==
    ASSUME NEW e
    PROVE  /\ Decision!Legible(def, e) <=> Inspected(e).parses /\ ~Inspected(e).unknownFunctions
           /\ Decision!Omits(def, e) <=> Inspected(e).omit
  BY SameWords DEF Decision!Legible, Decision!Omits, Inspected

(* The dependencies that the expressions of a node declare                 *)
Declares(r) ==
    (UNION {Names(e) : e \in DependencyExprs(r)}) \ ({Schema} \cup Iterators(r))

(* The expressions of an acceptable resource pass extraction, which finds  *)
(* the dependencies they declare.                                          *)
LEMMA ScopedIsExtractable ==
    ASSUME def \in Definitions, InspectsTheFreeNames, NamesValid,
           NEW r \in Resources(def), buildRGResource(r),
           Decision!WellScoped(def, r), Decision!WellWritten(def, r)
    PROVE  /\ Extractable(r)
           /\ Dependencies(r) = Declares(r)
           /\ Declares(r) \subseteq Nodes
<1>1. /\ \A e \in TemplateExprs(r) : Names(e) \subseteq IDs(def) \cup {Schema} \cup Iterators(r)
      /\ \A e \in ForEachExprs(r) \cup IncludeExprs(r) : Names(e) \subseteq IDs(def) \cup {Schema}
      /\ Iterators(r) \subseteq UNION {Names(f.expr) : f \in {g \in Elems(r.fields) :
                                                                 g.path \in IdentityPaths}}
  BY SameResources, SameWords, SameTypes DEF Decision!WellScoped
<1>2. /\ \A e \in DependencyExprs(r) : Inspected(e).parses /\ ~Inspected(e).unknownFunctions
      /\ \A e \in TemplateExprs(r) \cup IncludeExprs(r) : Inspected(e).omit => def.omitGate
      /\ \A e \in ForEachExprs(r) : ~Inspected(e).omit
  BY SameResources, SameReports DEF Decision!WellWritten
<1>3. \A e \in DependencyExprs(r) : /\ Inspected(e).refs = Names(e) \cap Known(def)
                                    /\ Inspected(e).unknown = Names(e) \ Known(def)
  BY Reported
<1>4. Iterators(r) \cap Known(def) = {} /\ Schema \notin IDs(def) /\ Each \notin IDs(def)
      /\ Schema # Each
  BY NewNames DEF Nodes
<1>5. /\ \A e \in TemplateExprs(r) : Inspected(e).unknown \subseteq Iterators(r)
      /\ \A e \in ForEachExprs(r) \cup IncludeExprs(r) : Inspected(e).unknown = {}
  BY <1>1, <1>3 DEF DependencyExprs, Known
<1>6. Iterators(r) \subseteq UsedInIdentity(r)
  <2> SUFFICES ASSUME NEW v \in Iterators(r) PROVE v \in UsedInIdentity(r)
    OBVIOUS
  <2>1. PICK f \in Elems(r.fields) : f.path \in IdentityPaths /\ v \in Names(f.expr)
    BY <1>1
  <2>2. f.expr \in DependencyExprs(r)
    BY <2>1 DEF DependencyExprs, TemplateExprs
  <2>3. v \in Inspected(f.expr).unknown
    BY <1>3, <1>4, <2>1, <2>2
  <2> QED
    BY <2>1, <2>3 DEF UsedInIdentity
<1>7. Extractable(r)
  BY <1>2, <1>5, <1>6 DEF Extractable, Extracts, DependencyExprs
<1>8. \A e \in DependencyExprs(r) :
        Inspected(e).refs \ {Schema} = Names(e) \ ({Schema} \cup Iterators(r))
  <2> SUFFICES ASSUME NEW e \in DependencyExprs(r)
               PROVE  Inspected(e).refs \ {Schema} = Names(e) \ ({Schema} \cup Iterators(r))
    OBVIOUS
  <2>1. Names(e) \subseteq IDs(def) \cup {Schema} \cup Iterators(r)
    BY <1>1 DEF DependencyExprs
  <2> QED
    BY <1>3, <1>4, <2>1 DEF Known
<1>9. Dependencies(r) = Declares(r)
  <2>1. \A x : x \in Dependencies(r) <=> \E e \in DependencyExprs(r) : x \in Inspected(e).refs \ {Schema}
    BY DEF Dependencies
  <2>2. \A x : x \in Declares(r) <=>
                 \E e \in DependencyExprs(r) : x \in Names(e) \ ({Schema} \cup Iterators(r))
    BY DEF Declares
  <2> QED
    BY <1>8, <2>1, <2>2
<1>10. Declares(r) \subseteq Nodes
  BY <1>1 DEF Declares, DependencyExprs, Nodes
<1> QED
  BY <1>7, <1>9, <1>10

(* A node is what is checked when the walks over the nodes reach it.       *)
IdentityOk(r) ==
    def.omitGate => \A f \in Elems(r.fields) : f.path = MetadataNamePath => ~Inspected(f.expr).omit

ReadyNamesOf(r) == IF NodeType(r) = "collection" THEN {Each} ELSE {r.id}

(* The environment of its readyWhen expressions, with "each" of its kind   *)
ReadyEnvOf(r) ==
    IF NodeType(r) = "collection"
    THEN [v \in IDs(def) \cup {Schema, Each} |->
             IF v = Each THEN ObjectType(r.kind) ELSE NodeSchemas(def)[v]]
    ELSE NodeSchemas(def)

(* It is the one of the abstract specification.                            *)
LEMMA SameReadyEnv == \A r : Decision!ReadyEnv(def, r) = ReadyEnvOf(r)
  BY DEF Decision!ReadyEnv, ReadyEnvOf, Decision!NodeSchemas, NodeSchemas,
         Decision!IDs, IDs, Decision!Resources, Resources, Decision!Res, Res,
         Decision!Elems, Elems, Decision!NodeType, NodeType,
         Decision!HasExternalRef, HasExternalRef, Decision!ObjectType, ObjectType,
         Decision!ListType, ListType

(* What compiling a node establishes, with the environment of "each" made  *)
(* for it                                                                  *)
Compiled(r) ==
    /\ validateAndCompileForEach(r)
    /\ validateAndCompileTemplates(r)
    /\ \A e \in IncludeExprs(r) : IsBoolOrOptionalBool(Check(e, NodeSchemas(def)))
    /\ \A e \in ReadyExprs(r) : /\ Restricted(e, ReadyNamesOf(r))
                                /\ IsBoolOrOptionalBool(Check(e, ReadyEnvOf(r)))

(* A resource that has passed every check is acceptable.                   *)
LEMMA CheckedIsAcceptable ==
    ASSUME def \in Definitions, InspectsTheFreeNames, NamesValid,
           NEW r \in Resources(def), buildRGResource(r),
           Extractable(r), Dependencies(r) \subseteq Nodes, IdentityOk(r), Compiled(r)
    PROVE  /\ Decision!WellScoped(def, r) /\ Decision!WellWritten(def, r)
           /\ Decision!WellTyped(def, r)
           /\ Dependencies(r) = Declares(r)
<1>1. \A e \in DependencyExprs(r) \cup ReadyExprs(r) :
          /\ Inspected(e).refs = Names(e) \cap Known(def)
          /\ Inspected(e).unknown = Names(e) \ Known(def)
  BY Reported
<1>2. Iterators(r) \cap Known(def) = {} /\ Schema \notin IDs(def) /\ Each \notin IDs(def)
      /\ Schema # Each
  BY NewNames DEF Nodes
<1>3. \A e \in DependencyExprs(r) : Inspected(e).refs \subseteq IDs(def) \cup {Schema}
  BY DEF Dependencies, Nodes
<1>4. /\ \A e \in TemplateExprs(r) : Names(e) \subseteq IDs(def) \cup {Schema} \cup Iterators(r)
      /\ \A e \in ForEachExprs(r) \cup IncludeExprs(r) : Names(e) \subseteq IDs(def) \cup {Schema}
  <2>1. /\ \A e \in TemplateExprs(r) : Inspected(e).unknown \subseteq Iterators(r)
        /\ \A e \in ForEachExprs(r) \cup IncludeExprs(r) : Inspected(e).unknown \subseteq {}
    BY DEF Extractable, Extracts
  <2> QED
    BY <1>1, <1>3, <2>1 DEF DependencyExprs
<1>5. \A e \in ReadyExprs(r) : Names(e) \subseteq ReadyNamesOf(r)
  BY <1>1 DEF Compiled, Restricted
<1>6. Iterators(r) \subseteq UNION {Names(f.expr) : f \in {g \in Elems(r.fields) :
                                                              g.path \in IdentityPaths}}
  <2> SUFFICES ASSUME NEW v \in Iterators(r)
               PROVE  v \in UNION {Names(f.expr) : f \in {g \in Elems(r.fields) :
                                                             g.path \in IdentityPaths}}
    OBVIOUS
  <2>1. PICK f \in Elems(r.fields) : f.path \in IdentityPaths /\ v \in Inspected(f.expr).unknown
    BY DEF Extractable, UsedInIdentity
  <2>2. f.expr \in DependencyExprs(r)
    BY <2>1 DEF DependencyExprs, TemplateExprs
  <2>3. v \in Names(f.expr)
    BY <1>1, <2>1, <2>2
  <2> QED
    BY <2>1, <2>3
<1>7. Decision!WellScoped(def, r)
  BY <1>4, <1>5, <1>6, SameResources, SameWords, SameTypes
     DEF Decision!WellScoped, Decision!ReadyNames, ReadyNamesOf
<1>8. Decision!WellWritten(def, r)
  <2>1. \A e \in DependencyExprs(r) \cup ReadyExprs(r) :
            Inspected(e).parses /\ ~Inspected(e).unknownFunctions
    BY DEF Extractable, Extracts, Compiled, Restricted, DependencyExprs
  <2>2. \A e \in TemplateExprs(r) \cup IncludeExprs(r) : Inspected(e).omit => def.omitGate
    BY DEF Extractable, Extracts
  <2>3. \A e \in ForEachExprs(r) \cup ReadyExprs(r) : ~Inspected(e).omit
    BY DEF Compiled, validateAndCompileForEach, Restricted
  <2>4. \A f \in Elems(r.fields) : f.path = MetadataNamePath => ~Inspected(f.expr).omit
    BY <2>2 DEF IdentityOk, TemplateExprs
  <2> QED
    BY <2>1, <2>2, <2>3, <2>4, SameResources, SameTypes, SameReports DEF Decision!WellWritten
<1>9. Decision!WellTyped(def, r)
  BY SameResources, SameWords, SameTypes, SameReadyEnv
     DEF Compiled, validateAndCompileForEach, validateAndCompileTemplates, Decision!WellTyped
<1> QED
  BY <1>7, <1>8, <1>9, ScopedIsExtractable

(* And an acceptable resource passes when its node is compiled.            *)
LEMMA AcceptableCompiles ==
    ASSUME def \in Definitions, InspectsTheFreeNames, NamesValid,
           NEW r \in Resources(def), buildRGResource(r),
           Decision!WellScoped(def, r), Decision!WellWritten(def, r), Decision!WellTyped(def, r)
    PROVE  IdentityOk(r) /\ Compiled(r)
<1>1. /\ \A e \in ForEachExprs(r) \cup ReadyExprs(r) : ~Inspected(e).omit
      /\ \A e \in ReadyExprs(r) : Inspected(e).parses /\ ~Inspected(e).unknownFunctions
      /\ \A f \in Elems(r.fields) : f.path = MetadataNamePath => ~Inspected(f.expr).omit
  BY SameResources, SameTypes, SameReports DEF Decision!WellWritten
<1>2. \A e \in ReadyExprs(r) : Names(e) \subseteq ReadyNamesOf(r)
  BY SameResources DEF Decision!WellScoped, Decision!ReadyNames, ReadyNamesOf
<1>3. ReadyNamesOf(r) \subseteq Known(def)
  BY DEF ReadyNamesOf, Known, IDs
<1>4. \A e \in ReadyExprs(r) : Restricted(e, ReadyNamesOf(r))
  BY <1>1, <1>2, <1>3, Reported DEF Restricted
<1>5. /\ \A e \in ForEachExprs(r) : Check(e, NodeSchemas(def)).t = "list"
      /\ \A f \in Elems(r.fields) :
            /\ Check(f.expr, TemplateEnv(def, r)) # IllTyped
            /\ Fits(Check(f.expr, TemplateEnv(def, r)), FieldType(r.kind, f.path))
      /\ \A e \in IncludeExprs(r) : IsBoolOrOptionalBool(Check(e, NodeSchemas(def)))
      /\ \A e \in ReadyExprs(r) : IsBoolOrOptionalBool(Check(e, ReadyEnvOf(r)))
  BY SameResources, SameWords, SameTypes, SameReadyEnv DEF Decision!WellTyped
<1> QED
  BY <1>1, <1>4, <1>5
     DEF IdentityOk, Compiled, validateAndCompileForEach, validateAndCompileTemplates

----
(* What the builder knows of a definition that it has not yet refused      *)

SchemasKnown ==
    /\ phase = "schemas" => Collectable
    /\ phase \in Named \cup {"names"} => SchemasFound

NamesKnown == phase \in Named => NamesValid

(* The edges added so far close no cycle, and the nodes still to be        *)
(* visited have none.                                                      *)
EdgesSoFar ==
    phase # "fatal" =>
        /\ ~Cyclic(Nodes, deps)
        /\ \A n \in Nodes : phase \notin Built \/ (phase = "extract" /\ n \in todo) => deps[n] = {}

IdentityChecked ==
    /\ phase = "identity" => \A n \in Nodes \ todo : IdentityOk(Res(def, n))
    /\ phase \in {"compile", "wire", "done"} => \A n \in Nodes : IdentityOk(Res(def, n))

EachEnvOf == eachEnv = NoEnv \/ \E s \in Resources(def) : UsesEach(s) /\ eachEnv = ObjectType(s.kind)

TypesChecked ==
    /\ EachEnvOf
    /\ phase = "compile" => \A n \in Nodes \ todo : Compiled(Res(def, n))

PlacedOnce == \A i, j \in 1..Len(order) : order[i] = order[j] => i = j

AdmissionInv ==
    /\ SchemasKnown
    /\ NamesKnown
    /\ EdgesSoFar
    /\ IdentityChecked
    /\ TypesChecked
    /\ PlacedOnce

(* None of this looks at more than the definition.                         *)
LEMMA RigidChecks ==
    ASSUME def' = def
    PROVE  /\ Collectable' <=> Collectable
           /\ SchemasFound' <=> SchemasFound
           /\ NamesValid' <=> NamesValid
           /\ \A r : IdentityOk(r)' <=> IdentityOk(r)
           /\ \A r : Compiled(r)' <=> Compiled(r)
<1>0. /\ Nodes' = Nodes /\ \A e : Inspected(e)' = Inspected(e)
      /\ \A e, a : Restricted(e, a)' <=> Restricted(e, a)
  BY Rigid
<1>1. (Collectable' <=> Collectable) /\ (SchemasFound' <=> SchemasFound)
  BY DEF SchemasFound, Collectable
<1>2. \A r : validateForEachDimensions(r)' <=> validateForEachDimensions(r)
  BY <1>0 DEF validateForEachDimensions
<1>3. NamesValid' <=> NamesValid
  BY <1>2 DEF NamesValid
<1>4. \A r : IdentityOk(r)' <=> IdentityOk(r)
  BY <1>0 DEF IdentityOk
<1>5. \A r : ReadyEnvOf(r)' = ReadyEnvOf(r)
  BY DEF ReadyEnvOf
<1>6. \A r : /\ validateAndCompileForEach(r)' <=> validateAndCompileForEach(r)
             /\ validateAndCompileTemplates(r)' <=> validateAndCompileTemplates(r)
  BY <1>0 DEF validateAndCompileForEach, validateAndCompileTemplates
<1>7. \A r : Compiled(r)' <=> Compiled(r)
  BY <1>0, <1>5, <1>6 DEF Compiled
<1> QED
  BY <1>1, <1>3, <1>4, <1>7

(* The cached environment of "each" is the right one, if there is only one *)
(* kind of collections with a readyWhen.                                   *)
LEMMA OneEachEnv ==
    ASSUME Ordinary, EachEnvOf, NEW r \in Resources(def)
    PROVE  /\ \A e \in ReadyExprs(r) : readyEnv(r) = ReadyEnvOf(r)
           /\ UsesEach(r) => extendWithTypedVar(r) = ObjectType(r.kind)
<1>1. UsesEach(r) => extendWithTypedVar(r) = ObjectType(r.kind)
  BY DEF Ordinary, EachEnvOf, extendWithTypedVar
<1>2. ASSUME NEW e \in ReadyExprs(r) PROVE readyEnv(r) = ReadyEnvOf(r)
  <2>1. r.readyWhen # <<>>
    BY DEF ReadyExprs, Elems
  <2>2. CASE NodeType(r) = "collection"
    BY <1>1, <2>1, <2>2 DEF readyEnv, ReadyEnvOf, UsesEach, Nodes
  <2>3. CASE NodeType(r) # "collection"
    BY <2>3 DEF readyEnv, ReadyEnvOf, UsesEach
  <2> QED
    BY <2>2, <2>3
<1> QED
  BY <1>1, <1>2

(* A graph with fewer edges has fewer cycles.                              *)
LEMMA FewerEdges ==
    ASSUME NEW V, NEW f, NEW g, \A n \in V : f[n] \subseteq g[n], Cyclic(V, f)
    PROVE  Cyclic(V, g)
<1>1. PICK S \in SUBSET V : S # {} /\ \A n \in S : f[n] \cap S # {}
  BY DEF Cyclic
<1>2. \A n \in S : g[n] \cap S # {}
  BY <1>1
<1> QED
  BY <1>1, <1>2 DEF Cyclic

----
(* Each part is kept by every step.                                        *)

(* What the builder has found of the kinds and the names.                  *)
LEMMA KnownNext ==
    ASSUME BuilderInv, AdmissionInv, [Next]_vars
    PROVE  SchemasKnown' /\ NamesKnown'
<1>0. def' = def
  BY SameDefinition
<1>1. (Collectable' <=> Collectable) /\ (SchemasFound' <=> SchemasFound)
      /\ (NamesValid' <=> NamesValid)
  BY <1>0, RigidChecks
<1>2. SchemasKnown /\ NamesKnown
  BY DEF AdmissionInv
<1>3. CASE CollectGVKs
  BY <1>1, <1>3 DEF CollectGVKs, Proceed, Collectable, SchemasKnown, NamesKnown, Named
<1>4. CASE BuildResolverFromSchemas \/ BuildResolverFromCRDs
  <2>1. phase = "schemas" /\ phase' \in {"waiting", "names", "fatal"}
    BY <1>4 DEF BuildResolverFromSchemas, BuildResolverFromCRDs, Proceed
  <2>2. phase' = "names" => SchemasFound
    BY <1>2, <1>4, <2>1
       DEF BuildResolverFromSchemas, BuildResolverFromCRDs, Proceed, SchemasUsable, CRDsUsable,
           SchemasKnown, SchemasFound
  <2> QED
    BY <1>1, <2>1, <2>2 DEF SchemasKnown, NamesKnown, Named
<1>5. CASE ValidateResourceIDs
  <2>1. phase = "names" /\ phase' \in {"resources", "fatal"}
    BY <1>5 DEF ValidateResourceIDs, Proceed
  <2>2. phase' = "resources" => NamesValid
    BY <1>5, <2>1 DEF ValidateResourceIDs, Proceed, NamesValid
  <2> QED
    BY <1>1, <1>2, <2>1, <2>2 DEF SchemasKnown, NamesKnown, Named
<1>6. CASE phase' = phase \/ phase' \in {"fatal", "collect"} \/ (phase \in Named /\ phase' \in Named)
  BY <1>1, <1>2, <1>6 DEF SchemasKnown, NamesKnown, Named
<1> QED
  BY <1>3, <1>4, <1>5, <1>6
     DEF Named, Proceed, vars, Next, CallAgain, BuildResource, StartDependencyGraph,
         ExtractNode, PlaceNode, StartIdentityFields, ValidateIdentityFields,
         StartCompile, CompileNode, BuildInstance, WireNode, WireInstance

(* AddDependencies refuses a node whose edges would close a cycle.         *)
LEMMA EdgesNext ==
    ASSUME BuilderInv, AdmissionInv, [Next]_vars
    PROVE  EdgesSoFar'
<1>0. Nodes' = Nodes
  BY SameDefinition, Rigid
<1>1. EdgesSoFar /\ deps \in [Nodes -> SUBSET Known(def)]
  BY DEF AdmissionInv, BuilderInv, TypeOK
<1>2. ASSUME NEW n \in Nodes, ExtractNode(n)
      PROVE  EdgesSoFar'
  <2> SUFFICES ASSUME phase' # "fatal" PROVE EdgesSoFar'
    BY DEF EdgesSoFar
  <2>1. /\ phase = "extract" /\ phase' = "extract" /\ todo' = todo \ {n}
        /\ deps' = [deps EXCEPT ![n] = Dependencies(Res(def, n))]
        /\ Linkable(n, Dependencies(Res(def, n)))
    BY <1>2 DEF ExtractNode, Proceed
  <2>2. ~Cyclic(Nodes, deps')
    BY <2>1 DEF Linkable
  <2>3. \A m \in Nodes : m \in todo' => deps'[m] = {}
    BY <1>1, <2>1 DEF EdgesSoFar
  <2> QED
    BY <1>0, <2>1, <2>2, <2>3 DEF EdgesSoFar, Built
<1>3. CASE StartDependencyGraph
  BY <1>0, <1>1, <1>3 DEF StartDependencyGraph, EdgesSoFar, Built
<1>4. CASE deps' = deps /\ phase' = phase /\ (phase = "extract" => todo' = todo)
  BY <1>0, <1>1, <1>4 DEF EdgesSoFar
<1>5. CASE /\ deps' = deps /\ phase # "fatal" /\ phase' # "extract"
           /\ phase \in Built => phase' \in Built \cup {"fatal"}
  BY <1>0, <1>1, <1>5 DEF EdgesSoFar
<1> QED
  BY <1>2, <1>3, <1>4, <1>5
     DEF Built, Proceed, vars, Next, CollectGVKs, BuildResolverFromSchemas,
         BuildResolverFromCRDs, CallAgain, ValidateResourceIDs, BuildResource, PlaceNode,
         StartIdentityFields, ValidateIdentityFields, StartCompile, CompileNode,
         BuildInstance, WireNode, WireInstance

(* The walk over the identity fields.                                      *)
LEMMA IdentityNext ==
    ASSUME BuilderInv, AdmissionInv, [Next]_vars
    PROVE  IdentityChecked'
<1>0. def' = def /\ Nodes' = Nodes /\ \A n : IdentityOk(Res(def, n))' <=> IdentityOk(Res(def, n))
  BY SameDefinition, Rigid, RigidChecks
<1>1. IdentityChecked
  BY DEF AdmissionInv
<1>2. CASE StartIdentityFields
  <2>1. phase' = "identity" /\ todo' = IF def.omitGate THEN Nodes ELSE {}
    BY <1>2 DEF StartIdentityFields
  <2>2. ~def.omitGate => \A n \in Nodes : IdentityOk(Res(def, n))
    BY DEF IdentityOk
  <2>3. \A n \in Nodes \ todo' : IdentityOk(Res(def, n))
    BY <2>1, <2>2
  <2> QED
    BY <1>0, <2>1, <2>3 DEF IdentityChecked
<1>3. ASSUME NEW n \in Nodes, ValidateIdentityFields(n)
      PROVE  IdentityChecked'
  <2>1. /\ phase = "identity" /\ phase' \in {"identity", "fatal"} /\ todo' = todo \ {n}
        /\ phase' = "identity" => IdentityOk(Res(def, n))
    BY <1>3 DEF ValidateIdentityFields, Proceed, IdentityOk
  <2> QED
    BY <1>0, <1>1, <2>1 DEF IdentityChecked
<1>4. CASE StartCompile
  BY <1>0, <1>1, <1>4 DEF StartCompile, IdentityChecked
<1>5. CASE phase' = phase /\ (phase = "identity" => todo' = todo)
  BY <1>0, <1>1, <1>5 DEF IdentityChecked
<1>6. CASE \/ phase' \notin {"identity", "compile", "wire", "done"}
           \/ phase' \in {"compile", "wire", "done"} /\ phase \in {"compile", "wire", "done"}
  BY <1>0, <1>1, <1>6 DEF IdentityChecked
<1> QED
  BY <1>2, <1>3, <1>4, <1>5, <1>6
     DEF Proceed, vars, Next, CollectGVKs, BuildResolverFromSchemas,
         BuildResolverFromCRDs, CallAgain, ValidateResourceIDs, BuildResource,
         StartDependencyGraph, ExtractNode, PlaceNode, CompileNode, BuildInstance,
         WireNode, WireInstance

(* The walk that compiles the nodes, whichever of them makes the           *)
(* environment of "each".                                                  *)
LEMMA TypesNext ==
    ASSUME BuilderInv, AdmissionInv, Ordinary, [Next]_vars
    PROVE  TypesChecked'
<1>0. /\ def' = def /\ Nodes' = Nodes
      /\ \A n : Compiled(Res(def, n))' <=> Compiled(Res(def, n))
      /\ Resources(def') = Resources(def)
  BY SameDefinition, Rigid, RigidChecks
<1>1. TypesChecked /\ EachEnvOf
  BY DEF AdmissionInv, TypesChecked
<1>2. ASSUME NEW n \in Nodes, CompileNode(n)
      PROVE  TypesChecked'
  <2> DEFINE r == Res(def, n)
  <2>1. r \in Resources(def) /\ r.id = n
    BY ResOf DEF Nodes
  <2>2. /\ phase = "compile" /\ phase' \in {"compile", "fatal"} /\ todo' = todo \ {n}
        /\ phase' = "compile" => /\ validateAndCompileForEach(r)
                                 /\ validateAndCompileTemplates(r)
                                 /\ validateAndCompileIncludeWhen(n, r)
                                 /\ validateAndCompileReadyWhen(n, r)
        /\ eachEnv' = IF UsesEach(r) THEN extendWithTypedVar(r) ELSE eachEnv
    BY <1>2 DEF CompileNode, Proceed
  <2> HIDE DEF r
  <2>3. EachEnvOf'
    <3>1. \A s : UsesEach(s)' <=> UsesEach(s)
      BY DEF UsesEach
    <3>2. UsesEach(r) => eachEnv' = ObjectType(r.kind)
      BY <1>1, <2>1, <2>2, OneEachEnv
    <3> QED
      BY <1>0, <1>1, <2>1, <2>2, <3>1, <3>2 DEF EachEnvOf
  <2>4. ASSUME phase' = "compile" PROVE Compiled(r)
    <3>1. \A e \in ReadyExprs(r) : /\ Restricted(e, ReadyNamesOf(r))
                                   /\ IsBoolOrOptionalBool(Check(e, readyEnv(r)))
      <4>1. ReadyNamesOf(r) = {IF NodeType(r) = "collection" THEN Each ELSE n}
        BY <2>1 DEF ReadyNamesOf
      <4> QED
        BY <2>2, <2>4, <4>1 DEF validateAndCompileReadyWhen
    <3>2. \A e \in ReadyExprs(r) : readyEnv(r) = ReadyEnvOf(r)
      BY <1>1, <2>1, OneEachEnv
    <3>3. \A e \in IncludeExprs(r) : IsBoolOrOptionalBool(Check(e, NodeSchemas(def)))
      BY <2>2, <2>4 DEF validateAndCompileIncludeWhen
    <3> QED
      BY <2>2, <2>4, <3>1, <3>2, <3>3 DEF Compiled
  <2>5. phase' = "compile" => \A m \in Nodes \ todo' : Compiled(Res(def, m))
    BY <1>1, <2>2, <2>4 DEF TypesChecked, r
  <2> QED
    BY <1>0, <2>3, <2>5 DEF TypesChecked
<1>3. CASE eachEnv' = eachEnv
  <2>1. EachEnvOf'
    BY <1>0, <1>1, <1>3 DEF EachEnvOf, UsesEach
  <2>2. CASE phase' # "compile" \/ (phase' = phase /\ todo' = todo)
    BY <1>0, <1>1, <2>1, <2>2 DEF TypesChecked
  <2>3. CASE StartCompile
    BY <1>0, <2>1, <2>3 DEF TypesChecked, StartCompile
  <2>4. CASE \E n \in Nodes : CompileNode(n)
    BY <1>2, <2>4
  <2> QED
    BY <2>2, <2>3, <2>4
       DEF Proceed, vars, Next, CollectGVKs, BuildResolverFromSchemas,
         BuildResolverFromCRDs, CallAgain, ValidateResourceIDs, BuildResource,
         StartDependencyGraph, ExtractNode, PlaceNode, StartIdentityFields,
         ValidateIdentityFields, BuildInstance, WireNode, WireInstance
<1> QED
  BY <1>2, <1>3
     DEF vars, Next, CollectGVKs, BuildResolverFromSchemas, BuildResolverFromCRDs,
         CallAgain, ValidateResourceIDs, BuildResource, StartDependencyGraph,
         ExtractNode, PlaceNode, StartIdentityFields, ValidateIdentityFields,
         StartCompile, BuildInstance, WireNode, WireInstance

(* TopologicalSort places no node twice.                                   *)
LEMMA PlacedNext ==
    ASSUME BuilderInv, AdmissionInv, [Next]_vars
    PROVE  PlacedOnce'
<1>1. CASE PlaceNode
  <2>1. PICK n \in Nodes \ Elems(order) : order' = Append(order, n)
    BY <1>1 DEF PlaceNode, Placeable
  <2>2. order \in Seq(Nodes) /\ PlacedOnce
    BY DEF BuilderInv, TypeOK, AdmissionInv
  <2>3. /\ Len(order') = Len(order) + 1 /\ Len(order) \in Nat
        /\ order'[Len(order) + 1] = n
        /\ \A i \in 1..Len(order) : order'[i] = order[i]
    BY <2>1, <2>2
  <2>4. \A i \in 1..Len(order) : order[i] # n
    BY <2>1 DEF Elems
  <2>5. ASSUME NEW i \in 1..Len(order'), NEW j \in 1..Len(order'), order'[i] = order'[j]
        PROVE  i = j
    <3>1. i \in 1..Len(order) \/ i = Len(order) + 1
      BY <2>3
    <3>2. j \in 1..Len(order) \/ j = Len(order) + 1
      BY <2>3
    <3> QED
      BY <2>2, <2>3, <2>4, <2>5, <3>1, <3>2 DEF PlacedOnce
  <2> QED
    BY <2>5 DEF PlacedOnce
<1>2. CASE order' = order
  BY <1>2 DEF AdmissionInv, PlacedOnce
<1> QED
  BY <1>1, <1>2
     DEF vars, Next, CollectGVKs, BuildResolverFromSchemas, BuildResolverFromCRDs,
         CallAgain, ValidateResourceIDs, BuildResource, StartDependencyGraph,
         ExtractNode, StartIdentityFields, ValidateIdentityFields, StartCompile,
         CompileNode, BuildInstance, WireNode, WireInstance

(* Nothing is known at the start.                                          *)
LEMMA AdmissionInit == Init => AdmissionInv
<1> SUFFICES ASSUME Init PROVE AdmissionInv
  OBVIOUS
<1>1. phase = "collect" /\ order = <<>> /\ eachEnv = NoEnv /\ deps = [n \in Nodes |-> {}]
  BY DEF Init, NoDeps, Nodes
<1>2. SchemasKnown /\ NamesKnown /\ IdentityChecked /\ TypesChecked
  BY <1>1 DEF SchemasKnown, NamesKnown, IdentityChecked, TypesChecked, EachEnvOf, Named
<1>3. EdgesSoFar
  BY <1>1 DEF EdgesSoFar, Cyclic
<1>4. PlacedOnce
  <2>1. Len(order) = 0
    BY <1>1
  <2> QED
    BY <2>1 DEF PlacedOnce
<1> QED
  BY <1>2, <1>3, <1>4 DEF AdmissionInv

(* The invariant, on the definitions that the builder decides as the       *)
(* abstract specification does.                                            *)
LEMMA AdmissionInvariance == Spec /\ []Ordinary => [](BuilderInv /\ AdmissionInv)
<1>1. Init => BuilderInv /\ AdmissionInv
  BY InitInv, AdmissionInit
<1>2. BuilderInv /\ AdmissionInv /\ Ordinary /\ [Next]_vars => (BuilderInv /\ AdmissionInv)'
  <2> SUFFICES ASSUME BuilderInv, AdmissionInv, Ordinary, [Next]_vars
               PROVE  (BuilderInv /\ AdmissionInv)'
    OBVIOUS
  <2>1. BuilderInv'
    BY NextInv
  <2> QED
    BY <2>1, KnownNext, EdgesNext, IdentityNext, TypesNext, PlacedNext DEF AdmissionInv
<1> QED
  BY <1>1, <1>2, PTL DEF Spec

----
(* The decision                                                            *)

(* Status fields are acceptable if the instance node can be built.         *)
StatusOk ==
    \A e \in StatusExprs : /\ e # Plain
                           /\ Restricted(e, Nodes)
                           /\ Check(e, NodeSchemas(def)) # IllTyped
                           /\ Inspected(e).refs # {}

LEMMA StatusMeans ==
    ASSUME def \in Definitions, InspectsTheFreeNames
    PROVE  /\ Decision!StatusAcceptable(def) <=> StatusOk
           /\ StatusOk => StatusDeps = UNION {Names(e) : e \in StatusExprs}
<1>1. \A e \in StatusExprs : e # Plain => /\ Inspected(e).refs = Names(e) \cap Known(def)
                                          /\ Inspected(e).unknown = Names(e) \ Known(def)
  BY BuilderAssumption DEF InspectsTheFreeNames, Exprs, Exact, Inspected, StatusExprs
<1>2. Nodes \subseteq Known(def) /\ Nodes = IDs(def)
  BY DEF Nodes, Known
<1>3. Decision!StatusAcceptable(def) <=>
        \A e \in StatusExprs :
            /\ e # Plain
            /\ Inspected(e).parses /\ ~Inspected(e).unknownFunctions
            /\ ~Inspected(e).omit
            /\ Names(e) # {}
            /\ Names(e) \subseteq IDs(def)
            /\ Check(e, NodeSchemas(def)) # IllTyped
  BY SameResources, SameWords, SameTypes, SameReports
     DEF Decision!StatusAcceptable, StatusExprs
<1>4. \A e \in StatusExprs : e # Plain =>
        (/\ Names(e) # {} /\ Names(e) \subseteq IDs(def)
         <=> /\ Inspected(e).refs # {} /\ Inspected(e).refs \subseteq Nodes
             /\ Inspected(e).unknown = {})
  BY <1>1, <1>2
<1>5. Decision!StatusAcceptable(def) <=> StatusOk
  BY <1>3, <1>4 DEF StatusOk, Restricted
<1>6. ASSUME StatusOk PROVE StatusDeps = UNION {Names(e) : e \in StatusExprs}
  <2>1. \A e \in StatusExprs : Inspected(e).refs = Names(e)
    BY <1>1, <1>6 DEF StatusOk, Restricted
  <2> QED
    BY <2>1 DEF StatusDeps
<1> QED
  BY <1>5, <1>6

(* The declared graph, in the builder's words.                             *)
LEMMA DeclaredMeans ==
    /\ Decision!DeclaredDeps(def) = [n \in Nodes |-> Declares(Res(def, n))]
    /\ \A V, f : Decision!Cyclic(V, f) <=> Cyclic(V, f)
<1>1. Decision!DeclaredDeps(def) = [n \in Nodes |-> Declares(Res(def, n))]
  BY DEF Decision!DeclaredDeps, Declares, Nodes, Decision!IDs, IDs, Decision!Resources, Resources,
         Decision!Res, Res, Decision!Elems, Elems, Decision!DependencyExprs, DependencyExprs,
         Decision!TemplateExprs, TemplateExprs, Decision!ForEachExprs, ForEachExprs,
         Decision!IncludeExprs, IncludeExprs, Decision!Iterators, Iterators
<1>2. \A V, f : Decision!Cyclic(V, f) <=> Cyclic(V, f)
  BY DEF Decision!Cyclic, Cyclic
<1> QED
  BY <1>1, <1>2

(* What there is to know of an acceptable definition.                      *)
LEMMA AcceptableParts ==
    ASSUME def \in Definitions, InspectsTheFreeNames, Decision!Acceptable(def)
    PROVE  /\ SchemasFound /\ NamesValid /\ StatusOk
           /\ ~Cyclic(Nodes, [n \in Nodes |-> Declares(Res(def, n))])
           /\ \A r \in Resources(def) :
                  /\ buildRGResource(r)
                  /\ Extractable(r)
                  /\ Dependencies(r) = Declares(r)
                  /\ Declares(r) \subseteq Nodes
                  /\ IdentityOk(r)
                  /\ Compiled(r)
<1>1. /\ Decision!Negotiable(def) /\ Decision!WellNamed(def) /\ Decision!StatusAcceptable(def)
      /\ \A r \in Resources(def) : /\ Decision!WellFormed(def, r) /\ Decision!WellScoped(def, r)
                                   /\ Decision!WellWritten(def, r) /\ Decision!WellTyped(def, r)
      /\ ~Decision!Cyclic(Decision!IDs(def), Decision!DeclaredDeps(def))
  BY SameWords DEF Decision!Acceptable
<1>2. SchemasFound /\ NamesValid /\ StatusOk
  BY <1>1, NegotiableMeans, WellNamedMeans, StatusMeans
<1>3. ~Cyclic(Nodes, [n \in Nodes |-> Declares(Res(def, n))])
  BY <1>1, SameWords, DeclaredMeans DEF Nodes
<1>4. \A r \in Resources(def) : buildRGResource(r)
  BY <1>1, <1>2, WellFormedMeans DEF SchemasFound
<1>5. ASSUME NEW r \in Resources(def)
      PROVE  /\ Extractable(r) /\ Dependencies(r) = Declares(r) /\ Declares(r) \subseteq Nodes
             /\ IdentityOk(r) /\ Compiled(r)
  BY <1>1, <1>2, <1>4, ScopedIsExtractable, AcceptableCompiles
<1> QED
  BY <1>2, <1>3, <1>4, <1>5

(* The edges of a node of an acceptable definition can always be added.    *)
LEMMA AcceptableLinks ==
    ASSUME BuilderInv, AdmissionInv, InspectsTheFreeNames, Decision!Acceptable(def),
           phase = "extract", NEW n \in todo
    PROVE  Extractable(Res(def, n)) /\ Linkable(n, Dependencies(Res(def, n)))
<1> DEFINE g == [m \in Nodes |-> Declares(Res(def, m))]
           ds == Dependencies(Res(def, n))
<1>1. n \in Nodes /\ def \in Definitions /\ deps \in [Nodes -> SUBSET Known(def)]
  BY DEF BuilderInv, TypeOK
<1>2. \A m \in Nodes : Res(def, m) \in Resources(def)
  BY ResOf DEF Nodes
<1>3. ~Cyclic(Nodes, g)
  BY <1>1, AcceptableParts
<1>4. \A m \in Nodes : /\ Extractable(Res(def, m))
                       /\ Dependencies(Res(def, m)) = Declares(Res(def, m))
                       /\ Declares(Res(def, m)) \subseteq Nodes
  BY <1>1, <1>2, AcceptableParts
<1>5. ds \subseteq Nodes /\ ds = g[n]
  BY <1>1, <1>4
<1>6. n \notin ds
  <2> SUFFICES ASSUME n \in ds PROVE FALSE
    OBVIOUS
  <2>1. {n} \in SUBSET Nodes /\ \A m \in {n} : g[m] \cap {n} # {}
    BY <1>1, <1>5
  <2> HIDE DEF g
  <2> QED
    BY <1>3, <2>1 DEF Cyclic
<1>7. ~Cyclic(Nodes, [deps EXCEPT ![n] = ds])
  <2> DEFINE f == [deps EXCEPT ![n] = ds]
  <2>1. ASSUME NEW m \in Nodes PROVE f[m] \subseteq g[m]
    <3>1. CASE m = n
      BY <1>1, <1>5, <3>1
    <3>2. CASE m # n /\ m \in todo
      BY <1>1, <3>2 DEF AdmissionInv, EdgesSoFar
    <3>3. CASE m # n /\ m \notin todo
      <4>1. deps[m] = Dependencies(Res(def, m))
        BY <3>3 DEF BuilderInv, NodesExtracted, NodeExtracted
      <4> QED
        BY <1>1, <1>4, <3>3, <4>1
    <3> QED
      BY <3>1, <3>2, <3>3
  <2> HIDE DEF f, g
  <2>2. ~Cyclic(Nodes, f)
    BY <1>3, <2>1, FewerEdges
  <2> QED
    BY <2>2 DEF f
<1> QED
  BY <1>1, <1>4, <1>5, <1>6, <1>7 DEF Linkable

(* A definition is refused only if it is not acceptable.                   *)
LEMMA RefusesTheUnacceptable ==
    ASSUME BuilderInv, AdmissionInv, Ordinary, InspectsTheFreeNames, Next, phase' = "fatal"
    PROVE  phase \notin {"fatal", "wire", "done"} /\ ~Decision!Acceptable(def)
<1>0. phase \notin {"fatal", "wire", "done"}
  BY DEF Next, CollectGVKs, BuildResolverFromSchemas, BuildResolverFromCRDs, CallAgain,
         ValidateResourceIDs, BuildResource, StartDependencyGraph, ExtractNode, PlaceNode,
         StartIdentityFields, ValidateIdentityFields, StartCompile, CompileNode, BuildInstance,
         WireNode, WireInstance
<1> SUFFICES ASSUME Decision!Acceptable(def) PROVE FALSE
  BY <1>0
<1>1. def \in Definitions
  BY DEF BuilderInv
<1>2. SchemasFound /\ NamesValid /\ StatusOk
  BY <1>1, AcceptableParts
<1>3. \A r \in Resources(def) : /\ buildRGResource(r) /\ IdentityOk(r) /\ Compiled(r)
                                /\ Extractable(r)
  BY <1>1, AcceptableParts
<1>4. \A n \in Nodes : Res(def, n) \in Resources(def) /\ Res(def, n).id = n
  BY ResOf DEF Nodes
<1>5. CASE CollectGVKs
  BY <1>2, <1>5 DEF CollectGVKs, Proceed, SchemasFound, Collectable
<1>6. CASE BuildResolverFromSchemas \/ BuildResolverFromCRDs
  <2>1. def.xr \in GVKs(def) /\ def.answers[def.xr] = "good"
    BY <1>1, <1>2, BuilderAssumption DEF GVKs, SchemasFound, Resolvable
  <2>2. answered => SchemasUsable /\ CRDsUsable /\ def.xr \in Resolvable(def)
    BY <1>2, <2>1 DEF SchemasUsable, CRDsUsable, SchemasFound
  <2>3. def.capability => ~def.seeded
    BY DEF Ordinary
  <2> QED
    BY <1>6, <2>2, <2>3 DEF BuildResolverFromSchemas, BuildResolverFromCRDs, Proceed
<1>7. CASE ValidateResourceIDs
  BY <1>2, <1>7 DEF ValidateResourceIDs, Proceed, NamesValid
<1>8. CASE BuildResource
  <2>1. phase = "resources" /\ at <= Len(def.resources) /\ ~buildRGResource(def.resources[at])
    BY <1>8 DEF BuildResource, Proceed
  <2>2. at \in 1..Len(def.resources)
    BY <1>1, <2>1, BuilderAssumption DEF BuilderInv, TypeOK
  <2>3. def.resources[at] \in Resources(def)
    BY <2>2 DEF Resources, Elems
  <2> QED
    BY <1>3, <2>1, <2>3
<1>9. ASSUME NEW n \in Nodes, ExtractNode(n) PROVE FALSE
  <2>1. phase = "extract" /\ n \in todo
        /\ ~(Extractable(Res(def, n)) /\ Linkable(n, Dependencies(Res(def, n))))
    BY <1>9 DEF ExtractNode, Proceed
  <2> QED
    BY <2>1, AcceptableLinks
<1>10. ASSUME NEW n \in Nodes, ValidateIdentityFields(n) PROVE FALSE
  <2>1. /\ phase = "identity" /\ n \in todo
        /\ ~ \A f \in Elems(Res(def, n).fields) : f.path = MetadataNamePath => ~Inspected(f.expr).omit
    BY <1>10 DEF ValidateIdentityFields, Proceed
  <2>2. IdentityOk(Res(def, n)) /\ Extractable(Res(def, n))
    BY <1>3, <1>4
  <2> QED
    BY <2>1, <2>2 DEF IdentityOk, Extractable, Extracts, TemplateExprs
<1>11. ASSUME NEW n \in Nodes, CompileNode(n) PROVE FALSE
  <2> DEFINE r == Res(def, n)
  <2>1. phase = "compile" /\ ~(/\ validateAndCompileForEach(r)
                               /\ validateAndCompileTemplates(r)
                               /\ validateAndCompileIncludeWhen(n, r)
                               /\ validateAndCompileReadyWhen(n, r))
    BY <1>11 DEF CompileNode, Proceed
  <2>2. Compiled(r) /\ r \in Resources(def) /\ r.id = n
    BY <1>3, <1>4
  <2>3. NodeExtracted(n)
    BY <2>1 DEF BuilderInv, NodesExtracted, Sorted
  <2> HIDE DEF r
  <2>4. validateAndCompileIncludeWhen(n, r)
    <3>1. \A e \in IncludeExprs(r) : Inspected(e).refs \subseteq deps[n] \cup {Schema}
      BY <2>3 DEF NodeExtracted, Dependencies, DependencyExprs, r
    <3> QED
      BY <2>2, <3>1 DEF validateAndCompileIncludeWhen, Compiled
  <2>5. validateAndCompileReadyWhen(n, r)
    <3>1. ReadyNamesOf(r) = {IF NodeType(r) = "collection" THEN Each ELSE n}
      BY <2>2 DEF ReadyNamesOf
    <3>2. EachEnvOf
      BY DEF AdmissionInv, TypesChecked
    <3>3. \A e \in ReadyExprs(r) : readyEnv(r) = ReadyEnvOf(r)
      BY <2>2, <3>2, OneEachEnv
    <3> QED
      BY <2>2, <3>1, <3>3 DEF validateAndCompileReadyWhen, Compiled
  <2> QED
    BY <2>1, <2>2, <2>4, <2>5 DEF Compiled
<1>12. CASE BuildInstance
  BY <1>2, <1>12 DEF BuildInstance, Proceed, StatusOk
<1>13. CASE CallAgain \/ StartDependencyGraph \/ PlaceNode \/ StartIdentityFields \/ StartCompile
            \/ WireNode \/ WireInstance
  BY <1>0, <1>13 DEF CallAgain, StartDependencyGraph, PlaceNode, StartIdentityFields,
                     StartCompile, WireNode, WireInstance
<1> QED
  BY <1>5, <1>6, <1>7, <1>8, <1>9, <1>10, <1>11, <1>12, <1>13 DEF Next

(* The order has as many nodes as the definition has resources.            *)
LEMMA SameLength ==
    ASSUME BuilderInv, AdmissionInv, phase \in Sorted
    PROVE  Len(order) = Len(def.resources)
<1>1. /\ order \in Seq(Nodes) /\ PlacedOnce /\ Elems(order) = Nodes /\ NamesValid
      /\ def \in Definitions /\ def.resources \in Seq(Resources(def))
  BY BuilderAssumption
     DEF BuilderInv, TypeOK, OrderSorted, AdmissionInv, NamesKnown, Sorted, Named
<1>2. Len(order) \in Nat /\ Len(def.resources) \in Nat
  BY <1>1
<1>3. Cardinality(Nodes) = Len(order)
  <2> DEFINE f == [i \in 1..Len(order) |-> order[i]]
  <2>1. f \in Bijection(1..Len(order), Nodes)
    BY <1>1 DEF Bijection, Injection, Surjection, IsInjective, Elems, PlacedOnce
  <2> HIDE DEF f
  <2> QED
    BY <1>2, <2>1, FS_CountingElements DEF ExistsBijection
<1>4. Cardinality(Nodes) = Len(def.resources)
  <2> DEFINE f == [i \in 1..Len(def.resources) |-> def.resources[i].id]
  <2>1. DOMAIN def.resources = 1..Len(def.resources)
    BY <1>1
  <2>2. \A i, j \in 1..Len(def.resources) : def.resources[i].id = def.resources[j].id => i = j
    BY <1>1, <2>1, WellNamedMeans DEF Decision!WellNamed
  <2>3. Nodes = {def.resources[i].id : i \in 1..Len(def.resources)}
    BY DEF Nodes, IDs, Resources, Elems
  <2>4. f \in Bijection(1..Len(def.resources), Nodes)
    BY <2>2, <2>3 DEF Bijection, Injection, Surjection, IsInjective
  <2> HIDE DEF f
  <2> QED
    BY <1>2, <2>4, FS_CountingElements DEF ExistsBijection
<1> QED
  BY <1>3, <1>4

(* A definition is accepted only if it is acceptable, with the graph that  *)
(* its expressions declare.                                                *)
LEMMA AcceptsTheAcceptable ==
    ASSUME BuilderInv, AdmissionInv, InspectsTheFreeNames, BuildInstance, phase' = "wire"
    PROVE  /\ Decision!Acceptable(def)
           /\ Decision!Declared(def, [deps |-> deps, statusDeps |-> StatusDeps, order |-> order])
<1>1. phase = "compile" /\ todo = {} /\ StatusOk /\ def \in Definitions
  BY DEF BuildInstance, Proceed, StatusOk, BuilderInv
<1>2. SchemasFound /\ NamesValid /\ ~Cyclic(Nodes, deps)
  BY <1>1 DEF AdmissionInv, SchemasKnown, NamesKnown, EdgesSoFar, Named
<1>3. \A r \in Resources(def) : r.id \in Nodes /\ Res(def, r.id) = r /\ buildRGResource(r)
  BY <1>1, <1>2, NewNames DEF BuilderInv, ResourcesBuilt, Built
<1>4. \A n \in Nodes : /\ Extractable(Res(def, n)) /\ Dependencies(Res(def, n)) \subseteq Nodes
                       /\ deps[n] = Dependencies(Res(def, n))
                       /\ IdentityOk(Res(def, n)) /\ Compiled(Res(def, n))
  BY <1>1 DEF BuilderInv, NodesExtracted, NodeExtracted, Sorted, AdmissionInv, IdentityChecked,
              TypesChecked
<1>5. \A r \in Resources(def) : /\ Decision!WellScoped(def, r) /\ Decision!WellWritten(def, r)
                                /\ Decision!WellTyped(def, r) /\ Decision!WellFormed(def, r)
                                /\ Dependencies(r) = Declares(r)
  <2> SUFFICES ASSUME NEW r \in Resources(def)
               PROVE  /\ Decision!WellScoped(def, r) /\ Decision!WellWritten(def, r)
                      /\ Decision!WellTyped(def, r) /\ Decision!WellFormed(def, r)
                      /\ Dependencies(r) = Declares(r)
    OBVIOUS
  <2>1. /\ Extractable(r) /\ Dependencies(r) \subseteq Nodes /\ IdentityOk(r) /\ Compiled(r)
        /\ buildRGResource(r)
    BY <1>3, <1>4
  <2>2. Decision!WellFormed(def, r)
    BY <1>1, <1>2, <2>1, WellFormedMeans DEF SchemasFound
  <2> QED
    BY <1>1, <1>2, <2>1, <2>2, CheckedIsAcceptable
<1>6. deps = [n \in Nodes |-> Declares(Res(def, n))]
  <2>1. \A n \in Nodes : deps[n] = Declares(Res(def, n))
    BY <1>4, <1>5, ResOf DEF Nodes
  <2>2. deps \in [Nodes -> SUBSET Known(def)]
    BY DEF BuilderInv, TypeOK
  <2> QED
    BY <2>1, <2>2
<1>7. deps = Decision!DeclaredDeps(def)
  BY <1>6, DeclaredMeans
<1>8. Decision!Acceptable(def)
  <2>1. ~Decision!Cyclic(Decision!IDs(def), Decision!DeclaredDeps(def))
    BY <1>2, <1>7, DeclaredMeans, SameWords DEF Nodes
  <2> QED
    BY <1>1, <1>2, <1>5, <2>1, NegotiableMeans, WellNamedMeans, StatusMeans, SameWords
       DEF Decision!Acceptable
<1>9. Decision!Behind(def, order)
  <2>1. /\ Elems(order) = Nodes /\ Len(order) = Len(def.resources)
        /\ \A i \in 1..Len(order) : deps[order[i]] \subseteq {order[j] : j \in 1..(i - 1)}
    BY <1>1, SameLength DEF BuilderInv, OrderSorted, Sorted
  <2> QED
    BY <1>7, <2>1, SameResources, SameWords DEF Decision!Behind, Nodes
<1>10. StatusDeps = UNION {Names(e) : e \in Decision!Elems(def.status)}
  BY <1>1, StatusMeans, SameResources DEF StatusExprs
<1> QED
  BY <1>7, <1>8, <1>9, <1>10 DEF Decision!Declared

(* Every step of the builder is a decision of the abstract specification,  *)
(* or none.                                                                *)
LEMMA StepDecides ==
    ASSUME BuilderInv, AdmissionInv, Ordinary, InspectsTheFreeNames, [Next]_vars
    PROVE  [Decision!Accept \/ Decision!Reject]_(Decision!admissionVars)
<1>0. def' = def /\ StatusDeps' = StatusDeps
  BY SameDefinition, Rigid DEF StatusDeps
<1>1. CASE Next /\ phase' = "fatal"
  <2>1. phase \notin {"fatal", "wire", "done"} /\ ~Decision!Acceptable(def)
    BY <1>1, RefusesTheUnacceptable
  <2>2. Decision!Reject
    BY <1>0, <1>1, <2>1 DEF Decision!Reject
  <2> QED
    BY <2>2
<1>2. CASE BuildInstance /\ phase' = "wire"
  <2>1. phase = "compile" /\ deps' = deps /\ order' = order
    BY <1>2 DEF BuildInstance
  <2>2. /\ Decision!Acceptable(def)
        /\ Decision!Declared(def, [deps |-> deps, statusDeps |-> StatusDeps, order |-> order])
    BY <1>2, AcceptsTheAcceptable
  <2>3. Decision!Accept
    BY <1>0, <1>2, <2>1, <2>2 DEF Decision!Accept
  <2> QED
    BY <2>3
<1>3. CASE /\ phase \in {"wire", "done"} /\ phase' \in {"wire", "done"}
           /\ deps' = deps /\ order' = order
  BY <1>0, <1>3 DEF Decision!admissionVars
<1>4. CASE phase \notin {"wire", "done", "fatal"} /\ phase' \notin {"wire", "done", "fatal"}
  BY <1>0, <1>4 DEF Decision!admissionVars
<1>5. CASE UNCHANGED vars
  BY <1>0, <1>5 DEF vars, Decision!admissionVars
<1> QED
  BY <1>1, <1>2, <1>3, <1>4, <1>5
     DEF Proceed, Next, CollectGVKs, BuildResolverFromSchemas, BuildResolverFromCRDs, CallAgain,
         ValidateResourceIDs, BuildResource, StartDependencyGraph, ExtractNode, PlaceNode,
         StartIdentityFields, ValidateIdentityFields, StartCompile, CompileNode, BuildInstance,
         WireNode, WireInstance

(* Building a graph decides as the abstract specification of admission     *)
(* says: a definition is accepted only if it is acceptable, and with the   *)
(* graph its expressions declare, and refused only if it is not, whatever  *)
(* the order in which the nodes are walked.  (That it decides at all is    *)
(* the other half of ImplementsAdmission.)                                 *)
THEOREM BuilderDecides == Spec /\ []InspectsTheFreeNames /\ []Ordinary => Decision!Safe
<1>1. Init => Decision!Init
  BY DEF Init, Decision!Init, Decision!NoGraph
<1>2. BuilderInv /\ AdmissionInv /\ Ordinary /\ InspectsTheFreeNames /\ [Next]_vars
        => [Decision!Accept \/ Decision!Reject]_(Decision!admissionVars)
  BY StepDecides
<1> QED
  BY <1>1, <1>2, AdmissionInvariance, PTL DEF Spec, Decision!Safe

====
