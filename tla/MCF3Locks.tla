------------------------------ MODULE MCF3Locks ------------------------------
(***************************************************************************)
(* F3Locks on two keys, an entity key and a provider key, three owners of  *)
(* two tasks of one plan, and four generations: enough for a set of two    *)
(* keys to be acquired, transferred or recovered, and acquired again while *)
(* the first handle is still in somebody's hands.                          *)
(***************************************************************************)
EXTENDS F3Locks

MCKey == {"entity", "provider"}
MCRank == [k \in MCKey |-> IF k = "entity" THEN 0 ELSE 1]
MCOwner == {"a1", "a2", "b1"}
MCTask == {"a", "b"}
MCTaskOf == [o \in MCOwner |-> IF o = "b1" THEN "b" ELSE "a"]
MCPlan == {"plan"}
MCPlanOf == [t \in MCTask |-> "plan"]

Request(k, m) == [key |-> k, mode |-> m]
\* The fan's set, a reader of the provider, and a list naming a key twice.
MCRequestLists ==
  {{Request("entity", "exclusive"), Request("provider", "shared")},
   {Request("provider", "shared")},
   {Request("provider", "shared"), Request("provider", "exclusive")}}
=============================================================================
