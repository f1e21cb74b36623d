---- MODULE MCSchemaCache ----
(***************************************************************************)
(* Two callers that ask for the same schema, a third one that asks for     *)
(* another, and room for one of the two: the third caller evicts what the  *)
(* others have stored while they wait, return and ask again.               *)
(***************************************************************************)
EXTENDS SchemaCache

MCCallers == {"p1", "p2", "p3"}
MCGVKs == {"g1", "g2"}
MCAsks == [p1 |-> {"g1"}, p2 |-> {"g1"}, p3 |-> {"g2"}]

\* The other schema is there to take the place of the first.
MCMaxRevision == [g1 |-> 1, g2 |-> 0]

====
