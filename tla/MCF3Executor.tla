----------------------------- MODULE MCF3Executor -----------------------------
(***************************************************************************)
(* F3Executor on one entity key: task "a" with three runs (the record's    *)
(* owner, the locks' owner and one more may all differ), task "b" with one *)
(* run that competes for the key.                                          *)
(***************************************************************************)
EXTENDS F3Executor, TLC

CONSTANTS a1, a2, a3, b1

MCKey == {"entity"}
MCRank == [k \in MCKey |-> 0]
MCPlan == {"plan"}
Runs(R) == [o \in R |-> IF o = b1 THEN "b" ELSE "a"]
Plans(T) == [t \in T |-> "plan"]
EntityRequests(T) == [t \in T |-> {[key |-> "entity", mode |-> "exclusive"]}]
EntityHolds(T) == [t \in T |-> {"entity"}]


\* Task "a" alone, with three runs or with two; tasks "a" and "b" together.
SoleTask == {"a"}
ThreeRuns == {a1, a2, a3}
TwoRuns == {a1, a2}
PairTask == {"a", "b"}
PairRuns == {a1, a2, b1}
ThreeTaskOf == Runs(ThreeRuns)
TwoTaskOf == Runs(TwoRuns)
PairTaskOf == Runs(PairRuns)
SolePlanOf == Plans(SoleTask)
PairPlanOf == Plans(PairTask)
SoleRequests == EntityRequests(SoleTask)
PairRequests == EntityRequests(PairTask)
SoleHoldKeys == EntityHolds(SoleTask)
PairHoldKeys == EntityHolds(PairTask)

ThreeAlike == Permutations(ThreeRuns)
TwoAlike == Permutations(TwoRuns)

AllVerdicts == {"succeeded_verified", "verification_mismatch",
                "manual_review_required", "observing"}
Conclusive == AllVerdicts \ {"observing"}
EveryStep == Steps \ {"done"}
DuringTransfer == {"replace"}
SafeToDie == EveryStep \ DuringTransfer
NoSteps == {}
\* Where a run awaits the lock wait, the adapter, the authority, the approval or
\* the provider.  Between two other steps it does not leave its coroutine.
Awaits == {"acquire", "preflight", "authority", "dispatch", "approve", "sent",
           "confirmed", "failed", "observing", "verify"}
Synchronous == Steps \ (Awaits \union {"done"})
=============================================================================
