---- MODULE MCDAG ----
(***************************************************************************)
(* A small instance of DAG.                                                *)
(***************************************************************************)
EXTENDS DAG

MCIds == 1..3

\* Ties included: two orders for three vertices.
MCOrders == [id \in MCIds |-> {0, 1}]

MCRequests == {<<a>> : a \in MCIds} \cup {<<a, b>> : a, b \in MCIds}
====
