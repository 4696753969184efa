----------------------------- MODULE LockService -----------------------------
(***************************************************************************)
(* What the durable lock store promises its tasks, without owners, leases, *)
(* generations or files: a set of grants of keys to tasks.  A grant is     *)
(* frozen once its task's effect is unresolved (a conflict hold).          *)
(***************************************************************************)
CONSTANTS Key, Task, Plan, PlanOf

Mode == {"shared", "exclusive"}
Grants == [key : Key, mode : Mode, task : Task, frozen : BOOLEAN]

VARIABLE grants

Freeze(g) == [key |-> g.key, mode |-> g.mode, task |-> g.task, frozen |-> TRUE]
Move(g, t) == [g EXCEPT !.task = t]

\* A grant in this mode can join the grants G of its key.
Joins(G, key, mode) ==
  \A g \in G : g.key = key => ~g.frozen /\ g.mode = "shared" /\ mode = "shared"

Init == grants = {}

\* A task is granted a whole set of keys, or nothing.
Grant(t, wanted) ==
  /\ \A k \in DOMAIN wanted : Joins(grants, k, wanted[k])
  /\ grants' = grants \union
       {[key |-> k, mode |-> wanted[k], task |-> t, frozen |-> FALSE] : k \in DOMAIN wanted}

\* Unfrozen grants of one task pass to another task of the same plan.
HandOver(t, u, M) ==
  /\ PlanOf[t] = PlanOf[u]
  /\ \A g \in M : g.task = t /\ ~g.frozen /\ Joins(grants \ M, g.key, g.mode)
  /\ \E W \in SUBSET M : grants' = (grants \ W) \union {Move(g, u) : g \in M}

\* Grants end, and grants become frozen; nothing else appears.
Resolve == grants' \subseteq grants \union {Freeze(g) : g \in grants}

Next ==
  \/ \E t \in Task, K \in SUBSET Key : \E wanted \in [K -> Mode] : Grant(t, wanted)
  \/ \E t, u \in Task, M \in SUBSET grants : HandOver(t, u, M)
  \/ Resolve

Spec == Init /\ [][Next]_grants
=============================================================================
