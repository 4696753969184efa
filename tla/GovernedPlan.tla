----------------------------- MODULE GovernedPlan ------------------------------
(***************************************************************************)
(* One approved plan, its public task and the child executions of its      *)
(* operations: F3RuntimeIntegration (f3_runtime/runtime.py) with the part  *)
(* of GovernanceService that starts, cancels and sweeps tasks.  Two        *)
(* coroutines work on a plan: an apply request, which holds the plan lock, *)
(* and a recovery pass, which does not.  They give way to each other only  *)
(* where the code awaits; a crash may come between any two durable writes. *)
(*                                                                         *)
(* Each operation depends on the one before it.  What an execution does    *)
(* under its locks is F3Executor's subject: here it ends verified,         *)
(* refused, failed or in review, or goes on being observed.                *)
(***************************************************************************)
EXTENDS Integers

CONSTANTS
  Operations,               \* how many operations the plan has
  ReadBackOps,              \* those of a family that is read back below a task
                            \* that has ended
  MaxApplies,               \* bound: apply requests
  MaxAborts,                \* bound: apply requests their client cancels
  MaxFaults,                \* bound: preparations that fail, and readbacks
                            \* that leave the child observed
  MaxCrashes                \* bound: process deaths

Op == 1..Operations

ASSUME PlanAssumption ==
  /\ Operations \in Nat \ {0} /\ ReadBackOps \in SUBSET Op
  /\ MaxApplies \in Nat /\ MaxAborts \in Nat /\ MaxFaults \in Nat /\ MaxCrashes \in Nat

VARIABLES
  plan,        \* the stored change plan
  task,        \* the stored execution task; preflight stands for created too
  child,       \* the execution record and runtime fields of each operation
  worker,      \* the apply request, the recovery pass, the cancel request
  checkpoint,  \* the child a pass has durably selected, 0 for none
  clock,       \* the approval: valid, expired, past its retry window; overdue:
               \* 24 hours since the first dispatch
  serving,     \* the startup pass is over, requests are accepted
  left         \* what is left of the bounds
vars == <<plan, task, child, worker, checkpoint, clock, serving, left>>

Final == {"succeeded", "failed_pre", "failed_post", "review", "cancelled"}
TaskState == {"absent", "preflight", "dispatching", "observing"} \union Final
Plan == [status : {"approved", "applying", "verifying", "applied", "failed", "review"},
         consumed : BOOLEAN]
Outcome == {"none", "verified", "refused", "cancelled", "failed", "review"}
Child == [claim : {"none", "live", "lapsed", "over"}, intent : BOOLEAN,
          outcome : Outcome, ref : BOOLEAN]

\* Where a worker awaits; elsewhere its next durable write follows at once.
Awaiting == {"idle", "declare", "load", "preflight", "send", "readback", "sweep"}
Writing == {"enter", "consume", "event", "reference", "witness", "commit", "attempts",
            "outcome", "save", "retry", "checkpoint", "discover", "history"}
Process == {"apply", "pass", "cancel"}
Worker == [pc : Awaiting \union Writing, op : 1..(Operations + 1), copy : Plan,
           turn : {"checkpointed", "priority", "preintent"}]

TypeOK ==
  /\ plan \in Plan
  /\ task \in [state : TaskState, dispatched : BOOLEAN, witness : BOOLEAN]
  /\ child \in [Op -> Child]
  /\ worker \in [Process -> Worker]
  /\ checkpoint \in 0..Operations
  /\ clock \in [approval : {"valid", "expired", "past"}, overdue : BOOLEAN]
  /\ serving \in BOOLEAN
  /\ left \in [applies : 0..MaxApplies, aborts : 0..MaxAborts,
               faults : 0..MaxFaults, crashes : 0..MaxCrashes]

Approved == [status |-> "approved", consumed |-> FALSE]
Idle == [pc |-> "idle", op |-> 1, copy |-> Approved, turn |-> "checkpointed"]

Init ==
  /\ plan = Approved
  /\ task = [state |-> "absent", dispatched |-> FALSE, witness |-> FALSE]
  /\ child = [i \in Op |->
       [claim |-> "none", intent |-> FALSE, outcome |-> "none", ref |-> FALSE]]
  /\ worker = [p \in Process |-> Idle]
  /\ checkpoint = 0 /\ serving = TRUE
  /\ clock = [approval |-> "valid", overdue |-> FALSE]
  /\ left = [applies |-> MaxApplies, aborts |-> MaxAborts,
             faults |-> MaxFaults, crashes |-> MaxCrashes]

-----------------------------------------------------------------------------
(* Reading the state.                                                      *)

At(p, pc) == worker[p].pc = pc
\* It is p's turn to take its step: no other worker is between two writes.
Turn(p, pc) == At(p, pc) /\ \A q \in Process \ {p} : worker[q].pc \in Awaiting
Goto(p, pc) == worker' = [worker EXCEPT ![p].pc = pc]
Leave(p) == worker' = [worker EXCEPT ![p] = Idle]
Current(p) == worker[p].op
Use(resource) == left[resource] > 0 /\ left' = [left EXCEPT ![resource] = @ - 1]

Open(i) == child[i].claim \in {"live", "lapsed"}
Ended(i) == child[i].outcome # "none"
Verified(i) == child[i].outcome = "verified"
Intents == {i \in Op : child[i].intent}
Unverified == {i \in Op : ~Verified(i)}
First(S) == CHOOSE i \in S : \A j \in S : i <= j
End(i, outcome) == child' = [child EXCEPT ![i].claim = "over", ![i].outcome = outcome]

Active == task.state \notin Final \union {"absent"}
PlanLockFree == At("apply", "idle")
\* _valid_external_approval, which a stored plan meets once.
ApprovalValid == plan = Approved /\ clock.approval = "valid"
CancelRecorded == task.state = "cancelled" \/ \E i \in Op : child[i].outcome = "cancelled"

-----------------------------------------------------------------------------
(* An apply request: service.apply, then _apply.                           *)

\* _initialize, up to the preparation it awaits.
ApplyFirst ==
  /\ serving /\ Turn("apply", "idle")
  /\ task.state = "absent" /\ ApprovalValid
  /\ Use("applies")
  /\ Goto("apply", "declare")
  /\ UNCHANGED <<plan, task, child, checkpoint, clock, serving>>

\* A terminal task only answers with its recorded result.
ApplyAgain ==
  /\ serving /\ Turn("apply", "idle")
  /\ Active
  /\ Use("applies")
  /\ Goto("apply", "load")
  /\ UNCHANGED <<plan, task, child, checkpoint, clock, serving>>

\* The task and the declarations of its children are stored.
Declare ==
  /\ Turn("apply", "declare")
  /\ task' = [task EXCEPT !.state = "preflight"]
  /\ Goto("apply", "enter")
  /\ UNCHANGED <<plan, child, checkpoint, clock, serving, left>>

\* The request is cancelled where it awaits.  Nothing shields it: what it has
\* claimed or sent stays as it is.
Abort ==
  /\ worker["apply"].pc \in {"declare", "load", "preflight", "send", "readback"}
  /\ Turn("apply", worker["apply"].pc)
  /\ Use("aborts")
  /\ Leave("apply")
  /\ UNCHANGED <<plan, task, child, checkpoint, clock, serving>>

-----------------------------------------------------------------------------
(* Where a recovery pass goes on, and what it may end by itself.           *)

AfterTurn ==
  [checkpointed |-> "discover", priority |-> "history", preintent |-> "sweep"]
\* The pass is done with its candidate.
Settle ==
  /\ worker' = [worker EXCEPT !["pass"] = [Idle EXCEPT !.pc = AfterTurn[worker["pass"].turn]]]
  /\ checkpoint' = 0

\* An error ends an apply.
Fail(p) == IF p = "apply" THEN Leave(p) ELSE Goto(p, "retry")

\* _terminate_expired_pre_intent and _terminate_expired_unclaimed.
Expirable(i) ==
  /\ clock.approval = "past" /\ ~CancelRecorded
  /\ \/ child[i].claim = "lapsed" /\ ~child[i].intent
     \/ child[i].claim = "none" /\ task.state = "preflight"

\* What a pass makes of an error: the expired child ends, or the back-off
\* keeps it for a later pass.
Retry ==
  LET i == Current("pass") IN
  /\ Turn("pass", "retry")
  /\ \/ /\ Expirable(i)
        /\ End(i, "refused")
        /\ worker' = [worker EXCEPT !["pass"].pc = "attempts", !["pass"].copy = plan]
     \/ /\ ~Expirable(i)
        /\ worker' = [worker EXCEPT !["pass"] = [Idle EXCEPT !.pc =
             IF worker["pass"].turn = "preintent" THEN "sweep" ELSE "history"]]
        /\ UNCHANGED child
  /\ UNCHANGED <<plan, task, checkpoint, clock, serving, left>>

-----------------------------------------------------------------------------
(* _load_prepared and _execute_child, for either worker.                   *)

\* An apply goes through all children; a cancel recorded meanwhile sends a
\* pass to the projection.
Loaded(p) ==
  /\ Turn(p, "load")
  /\ IF p = "apply"
       THEN IF Active THEN Goto(p, "enter") ELSE Leave(p)
       ELSE Goto(p, IF worker[p].turn = "preintent" /\ CancelRecorded
                      THEN "attempts" ELSE "enter")
  /\ UNCHANGED <<plan, task, child, checkpoint, clock, serving, left>>

\* The provider is unavailable, or the approval has expired, which a readback
\* of what was sent does not mind.
LoadFails(p) ==
  /\ Turn(p, "load")
  /\ \/ Use("faults")
     \/ /\ clock.approval # "valid" /\ (p = "apply" \/ worker[p].turn = "preintent")
        /\ UNCHANGED left
  /\ Fail(p)
  /\ UNCHANGED <<plan, task, child, checkpoint, clock, serving>>

\* An apply projects the plan as it is now stored; a pass, the plan it loaded
\* before its awaits.
Project(p) ==
  worker' = [worker EXCEPT ![p].pc = "attempts",
                           ![p].copy = IF p = "apply" THEN plan ELSE @]

\* Mutant: an apply goes on past a child that did not end verified.
GoesPast(i) == Ended(i)
GoesOn(i) == Verified(i)

\* The executor's claim: a live one is joined, a lapsed one taken over, for
\* observation only once an intent is durable.
Enter(p) ==
  LET i == Current(p) IN
  /\ Turn(p, "enter")
  /\ \/ /\ i > Operations \/ (i \in Op /\ Ended(i) /\ ~(p = "apply" /\ GoesOn(i)))
        /\ Project(p)
        /\ UNCHANGED <<child, checkpoint>>
     \/ /\ p = "apply" /\ i \in Op /\ Ended(i) /\ GoesOn(i)
        /\ worker' = [worker EXCEPT ![p].op = @ + 1]
        /\ UNCHANGED <<child, checkpoint>>
     \/ /\ i \in Op /\ child[i].claim = "live"
        /\ IF p = "apply" THEN Leave(p) /\ UNCHANGED checkpoint ELSE Settle
        /\ UNCHANGED child
     \/ /\ i \in Op /\ child[i].claim \in {"none", "lapsed"}
        /\ child' = [child EXCEPT ![i].claim = "live"]
        /\ Goto(p, IF child[i].intent THEN "readback" ELSE "preflight")
        /\ UNCHANGED checkpoint
  /\ UNCHANGED <<plan, task, clock, serving, left>>

\* Locks, preflight and Core authority, until the irreversible boundary: the
\* adapter refuses, finds the change made, or lets the dispatch begin; a child
\* cancelled meanwhile reports that.
Preflight(p) ==
  LET i == Current(p) IN
  /\ Turn(p, "preflight")
  /\ \/ Ended(i) /\ Goto(p, "enter") /\ UNCHANGED child
     \/ ~Ended(i) /\ Goto(p, "enter") /\ \E o \in {"refused", "verified"} : End(i, o)
     \/ ~Ended(i) /\ Goto(p, "consume") /\ UNCHANGED child
  /\ UNCHANGED <<plan, task, checkpoint, clock, serving, left>>

\* _consume_approval of a consumed plan: the reference of this child or of a
\* sibling, or the witness in the task.
ConsumedByUs == plan.consumed /\ (task.witness \/ \E i \in Op : child[i].ref)

\* A refused consumption yields the claim and raises PreIntentRetryRequired.
Consume(p) ==
  /\ Turn(p, "consume")
  /\ \/ /\ ConsumedByUs
        /\ Goto(p, "reference")
        /\ UNCHANGED <<plan, child>>
     \/ /\ ApprovalValid
        /\ plan' = [status |-> "applying", consumed |-> TRUE]
        /\ Goto(p, IF p = "apply" THEN "event" ELSE "reference")
        /\ UNCHANGED child
     \/ /\ ~ConsumedByUs /\ ~ApprovalValid
        /\ child' = [child EXCEPT ![Current(p)].claim = "lapsed"]
        /\ Fail(p)
        /\ UNCHANGED plan
  /\ UNCHANGED <<task, checkpoint, clock, serving, left>>

\* Mutant: a child that has its reference is taken to have the witness.
ReferenceOnce(p) ==
  /\ Turn(p, "reference")
  /\ child' = [child EXCEPT ![Current(p)].ref = TRUE]
  /\ Goto(p, IF child[Current(p)].ref THEN "commit" ELSE "witness")
  /\ UNCHANGED <<plan, task, checkpoint, clock, serving, left>>

\* The event of the apply whose plan was consumed, then the reference of the
\* child, then _ensure_public_approval_consumed.
Reference(p) ==
  /\ Turn(p, "reference")
  /\ child' = [child EXCEPT ![Current(p)].ref = TRUE]
  /\ Goto(p, "witness")
  /\ UNCHANGED <<plan, task, checkpoint, clock, serving, left>>

Witness(p) ==
  /\ Turn(p, "event") \/ Turn(p, "witness")
  /\ task' = [task EXCEPT !.witness = TRUE]
  /\ Goto(p, IF At(p, "event") THEN "reference" ELSE "commit")
  /\ UNCHANGED <<plan, child, checkpoint, clock, serving, left>>

\* The durable intent, after which the provider is called.
Commit(p) ==
  /\ Turn(p, "commit")
  /\ child' = [child EXCEPT ![Current(p)].intent = TRUE]
  /\ Goto(p, "send")
  /\ UNCHANGED <<plan, task, checkpoint, clock, serving, left>>

\* The send or the readback of a sent change reaches a verdict, or the child
\* stays observed and its claim is yielded.  An apply takes that, on a child
\* it did not claim first, for a duplicate and projects nothing.
Observe(p) ==
  LET i == Current(p) IN
  /\ Turn(p, "send") \/ Turn(p, "readback")
  /\ \/ /\ \E o \in {"verified", "failed", "review"} : End(i, o)
        /\ Goto(p, "enter")
        /\ UNCHANGED left
     \/ /\ Use("faults")
        /\ child' = [child EXCEPT ![i].claim = "lapsed"]
        /\ IF p = "apply" /\ At(p, "readback") THEN Leave(p) ELSE Project(p)
  /\ UNCHANGED <<plan, task, checkpoint, clock, serving>>

-----------------------------------------------------------------------------
(* _project: the children's state is written to the task, then the plan.   *)

\* A projection that returns before it saves the plan, or has saved it.
Projected(p) ==
  IF p = "apply" THEN Leave(p) /\ UNCHANGED checkpoint ELSE Settle

Attempts(p) ==
  LET dispatched == task.dispatched \/ Intents # {} IN
  /\ Turn(p, "attempts")
  /\ \/ /\ ~Active
        /\ Projected(p)
        /\ UNCHANGED task
     \/ /\ Active
        /\ Goto(p, "outcome")
        /\ task' = [task EXCEPT !.dispatched = dispatched,
             !.state = IF @ = "preflight" /\ dispatched THEN "dispatching" ELSE @]
        /\ UNCHANGED checkpoint
  /\ UNCHANGED <<plan, child, clock, serving, left>>

\* Mutant: one verified child makes the sequence a success.
SomeVerified == Unverified # Op
AllVerified == Unverified = {}

\* What the children make of the task, and of the status in the plan copy.
Verdict(copy) ==
  LET open == \E i \in Op : Open(i)
      stopped == {i \in Op : Ended(i) /\ ~Verified(i)}
      f == First(stopped)
      completed == Unverified # Op
  IN CASE AllVerified -> <<"succeeded", "applied">>
       [] ~AllVerified /\ open ->
            <<IF task.state = "dispatching" THEN "observing" ELSE task.state, "verifying">>
       [] ~AllVerified /\ ~open /\ stopped # {} ->
            (IF child[f].outcome = "cancelled" /\ Intents = {} THEN <<"cancelled", copy>>
             ELSE IF ~completed /\ ~child[f].intent THEN <<"failed_pre", "failed">>
             ELSE IF ~completed /\ child[f].outcome # "review" THEN <<"failed_post", "failed">>
             ELSE <<"review", "review">>)
       [] OTHER -> <<task.state, copy>>

\* A sequence with no intent that still goes on, or that its operator
\* cancelled, leaves the plan alone.
LeavesPlan ==
  /\ Intents = {} /\ ~AllVerified
  /\ \/ \E i \in Op : Open(i)
     \/ \E i \in Op : child[i].outcome = "cancelled"

ProjectOutcome(p) ==
  LET verdict == Verdict(worker[p].copy.status) IN
  /\ Turn(p, "outcome")
  /\ task' = [task EXCEPT !.state = verdict[1]]
  /\ IF LeavesPlan
       THEN Projected(p)
       ELSE /\ worker' = [worker EXCEPT ![p].pc = "save", ![p].copy.status = verdict[2]]
            /\ UNCHANGED checkpoint
  /\ UNCHANGED <<plan, child, clock, serving, left>>

SavePlan(p) ==
  /\ Turn(p, "save")
  /\ plan' = worker[p].copy
  /\ Projected(p)
  /\ UNCHANGED <<task, child, clock, serving, left>>

-----------------------------------------------------------------------------
(* cancel_execution_task: the child first, then the task.                  *)

\* Mutant: only the task is cancelled.
CancelledChild(i) == UNCHANGED child
CancelChild(i) == IF Ended(i) THEN UNCHANGED child ELSE End(i, "cancelled")

\* A child without a record is prepared first, which awaits.  A pass may take or end
\* that child meanwhile; children.cancel, which reads it again, then refuses or finds
\* it cancellable, and nothing else can have moved: the sweep skips the locked plan,
\* and the children behind it wait for this one.
Cancel ==
  /\ serving /\ PlanLockFree /\ Turn("cancel", "idle")
  /\ task.state = "preflight" /\ Intents = {}
  /\ IF Unverified = {} THEN UNCHANGED child ELSE CancelChild(First(Unverified))
  /\ Goto("cancel", "event")
  /\ UNCHANGED <<plan, task, checkpoint, clock, serving, left>>

CancelTask ==
  /\ Turn("cancel", "event")
  /\ task' = [task EXCEPT !.state = "cancelled"]
  /\ Leave("cancel")
  /\ UNCHANGED <<plan, child, checkpoint, clock, serving, left>>

-----------------------------------------------------------------------------
(* The recovery pass: _recover_once, then reconcile_execution_tasks.       *)

PassStarts ==
  /\ Turn("pass", "idle")
  /\ Goto("pass", "checkpoint")
  /\ UNCHANGED <<plan, task, child, checkpoint, clock, serving, left>>

\* _recover_active_candidates takes a child: what has ended or is cancelled
\* is only projected, expired work ends here, the rest is prepared.
Take(i, turn) ==
  LET expires == turn = "preintent" /\ Expirable(i)
      pc == IF Ended(i) \/ CancelRecorded \/ expires THEN "attempts" ELSE "load"
  IN /\ worker' = [worker EXCEPT !["pass"] =
                     [pc |-> pc, op |-> i, copy |-> plan, turn |-> turn]]
     /\ IF expires THEN End(i, "refused") ELSE UNCHANGED child

\* The child an earlier pass selected and did not settle comes first.
TakeCheckpointed ==
  /\ Turn("pass", "checkpoint")
  /\ IF checkpoint # 0 /\ Active /\ (child[checkpoint].intent \/ Ended(checkpoint))
       THEN Take(checkpoint, "checkpointed") /\ UNCHANGED checkpoint
       ELSE /\ Goto("pass", "discover") /\ checkpoint' = 0
            /\ UNCHANGED child
  /\ UNCHANGED <<plan, task, clock, serving, left>>

\* The first child that is not verified, or the last when all are.
Candidate == IF Unverified = {} THEN Operations ELSE First(Unverified)

Discover ==
  LET i == Candidate IN
  /\ Turn("pass", "discover")
  /\ \/ /\ ~Active
        /\ Goto("pass", "history")
        /\ UNCHANGED <<child, checkpoint>>
     \/ /\ Active /\ (child[i].intent \/ Ended(i))
        /\ Take(i, "priority") /\ checkpoint' = i
     \/ /\ Active /\ ~child[i].intent /\ ~Ended(i)
        /\ Take(i, "preintent") /\ UNCHANGED checkpoint
  /\ UNCHANGED <<plan, task, clock, serving, left>>

\* Mutant: what is read back is what was never dispatched.
ReadableUndispatched == {i \in ReadBackOps : child[i].claim = "lapsed" /\ ~task.dispatched}
\* An operation of another family (an inverse among them) has no readback here.
Readable == {i \in ReadBackOps : child[i].claim = "lapsed" /\ child[i].intent}

\* Children of a terminal task: an orphan of a task that dispatched nothing is
\* cancelled, what was sent is read back once its claim has lapsed.  The task
\* is not rewritten.
History ==
  LET orphans == {i \in Op : Open(i) /\ ~child[i].intent /\ ~task.dispatched}
  IN /\ Turn("pass", "history")
     /\ Goto("pass", "sweep")
     /\ \/ Active /\ UNCHANGED child
        \/ ~Active /\ orphans \union Readable = {} /\ UNCHANGED child
        \/ ~Active /\ \E i \in orphans : End(i, "refused")
        \/ ~Active /\ \E i \in Readable : \E o \in {"verified", "failed", "review"} : End(i, o)
     /\ UNCHANGED <<plan, task, checkpoint, clock, serving, left>>

\* Mutant: the sweep does not skip a task whose plan is locked.
SweepableAnyway == Active
\* Mutant: the sweep goes through the finished tasks too.
SweepableEver == task.state # "absent" /\ PlanLockFree
Sweepable == Active /\ PlanLockFree

\* Mutant: the task takes over the status of its plan.
SweptAsPlan ==
  CASE plan.status = "applied" -> "succeeded"
    [] plan.status \in {"failed", "review"} ->
         IF task.dispatched THEN plan.status ELSE task.state
    [] OTHER -> task.state
\* Mutant: the maximum deadline is not looked at.
SweptWithoutDeadline ==
  CASE plan.status = "applied" -> "succeeded"
    [] plan.status \in {"failed", "review"} ->
         IF task.dispatched THEN "failed_post" ELSE task.state
    [] OTHER -> IF task.dispatched THEN "observing"
                ELSE IF ApprovalValid THEN task.state ELSE "failed_pre"

\* reconcile_execution_tasks; what F3 has dispatched stays F3's to end until
\* the maximum deadline.
Swept ==
  CASE plan.status = "applied" -> "succeeded"
    [] plan.status \in {"failed", "review"} ->
         IF task.dispatched THEN "failed_post" ELSE task.state
    [] plan.status \in {"approved", "applying", "verifying"} ->
         IF task.dispatched
           THEN IF clock.overdue THEN "review" ELSE "observing"
           ELSE IF ApprovalValid THEN task.state ELSE "failed_pre"

Sweep ==
  /\ Turn("pass", "sweep")
  /\ task' = IF Sweepable THEN [task EXCEPT !.state = Swept] ELSE task
  /\ Leave("pass")
  /\ serving' = TRUE
  /\ UNCHANGED <<plan, child, checkpoint, clock, left>>

-----------------------------------------------------------------------------
(* Time, and the process.                                                  *)

\* A claim is renewed while its worker lives.
ClaimLapses(i) ==
  /\ child[i].claim = "live"
  /\ \A p \in {"apply", "pass"} :
       Current(p) = i => worker[p].pc \notin {"preflight", "consume", "event", "reference",
                                              "witness", "commit", "send", "readback"}
  /\ child' = [child EXCEPT ![i].claim = "lapsed"]
  /\ UNCHANGED <<plan, task, worker, checkpoint, clock, serving, left>>

ApprovalExpires ==
  /\ clock.approval # "past"
  /\ clock' = [clock EXCEPT !.approval = IF @ = "valid" THEN "expired" ELSE "past"]
  /\ UNCHANGED <<plan, task, child, worker, checkpoint, serving, left>>

\* No claim lives for a day.
Overdue ==
  /\ task.dispatched /\ ~clock.overdue /\ PlanLockFree
  /\ \A i \in Op : child[i].claim # "live"
  /\ clock' = [clock EXCEPT !.overdue = TRUE]
  /\ UNCHANGED <<plan, task, child, worker, checkpoint, serving, left>>

\* The process dies and starts again: recover_incomplete ends a plan that was
\* being applied, and the startup pass comes before requests.
Crash ==
  /\ Use("crashes")
  /\ worker' = [p \in Process |-> Idle]
  /\ plan' = [plan EXCEPT !.status = IF @ = "applying" THEN "failed" ELSE @]
  /\ serving' = FALSE
  /\ UNCHANGED <<task, child, checkpoint, clock>>

-----------------------------------------------------------------------------
Request == ApplyFirst \/ ApplyAgain \/ Declare
Execute(p) ==
  \/ Loaded(p) \/ LoadFails(p) \/ Enter(p) \/ Preflight(p) \/ Consume(p)
  \/ Reference(p) \/ Witness(p) \/ Commit(p) \/ Observe(p)
  \/ Attempts(p) \/ ProjectOutcome(p) \/ SavePlan(p)
Pass == PassStarts \/ TakeCheckpointed \/ Discover \/ Retry \/ History \/ Sweep
Time == ApprovalExpires \/ Overdue \/ \E i \in Op : ClaimLapses(i)

Next ==
  \/ Request \/ Abort \/ Cancel \/ CancelTask
  \/ \E p \in {"apply", "pass"} : Execute(p)
  \/ Pass \/ Time \/ Crash

\* The event loop runs every coroutine that is ready; the supervisor starts
\* passes again and again, and time goes on.  No request has to be repeated.
Spec ==
  /\ Init /\ [][Next]_vars
  /\ SF_vars(Declare \/ Execute("apply")) /\ WF_vars(CancelTask)
  /\ WF_vars(Pass \/ Execute("pass"))
  /\ WF_vars(ApprovalExpires) /\ WF_vars(Overdue)
  /\ \A i \in Op : WF_vars(ClaimLapses(i))

-----------------------------------------------------------------------------
(* Safety.                                                                 *)

\* Whoever consumed the approval, and wherever the consumption was cut off, a
\* child that may have called the provider holds its consumption reference,
\* and the public task holds the witness that _ensure_public_approval_consumed
\* writes before the durable intent.
IntentIsWitnessed == \A i \in Intents : child[i].ref /\ task.witness

\* No execution of a plan is claimed, by an apply or by a recovery that starts
\* in the middle of the sequence, before all operations ahead of it are
\* verified (_apply returns at the first that is not; recovery picks the first
\* that is not).
InOrder == \A i, j \in Op : j < i /\ child[i].claim # "none" => Verified(j)

\* A task that cancel_execution_task reports cancelled has sent nothing and
\* will send nothing, although a recovery pass holds no plan lock and may be
\* in the middle of its preflight.
CancelledSendsNothing == task.state = "cancelled" => Intents = {}

\* A task is called succeeded only when every operation was verified: neither
\* a plan status left by another worker nor a restart makes up a success.
SucceededIsVerified == task.state = "succeeded" => \A i \in Op : Verified(i)

\* A terminal task keeps its state, whichever of projection, cancellation and
\* sweep comes last (the check of the stored task in _project_locked).
TaskEndsOnce == [][task.state \in Final => task'.state = task.state]_vars

\* No operation becomes durable as dispatched under a task that has ended: the
\* sweep skips a task whose plan an apply has locked, and recovery and sweep
\* are one coroutine.
EndedSendsNothing ==
  [][\A i \in Op : child'[i].intent /\ ~child[i].intent => Active]_vars

-----------------------------------------------------------------------------
(* Liveness.                                                               *)

\* A task that was created ends, whether its request is answered, cancelled by
\* the client or lost with the process: expiry, projection, sweep and the
\* maximum deadline between them leave no state out.
TaskEnds == task.state # "absent" ~> task.state \in Final

\* A change that may have been made is followed until its outcome is known,
\* also below a task that the sweep has already ended, if it is of a family the
\* readback of terminal parents lists; for other families no code promises that.
SentEnds == \A i \in ReadBackOps : child[i].intent ~> Ended(i)

-----------------------------------------------------------------------------
(* What the documents say and the code does not do.                        *)

\* docs/CHANGE_GOVERNANCE.md:191: "the complete authority-v3 bundle is consumed
\* once and operations execute in order."  The projection of a recovery pass
\* saves the plan it loaded before the approval was consumed.
ApprovalConsumedOnce == [][plan.consumed => plan'.consumed]_vars

\* docs/HAMCP_181_TRUTHFUL_OUTCOMES_DESIGN.md:239 on failed_pre_dispatch: "No
\* durable intent exists."  The sweep reads the task, which an
\* apply that was cancelled after its intent has not updated.
FailedPreSentNothing == task.state = "failed_pre" => Intents = {}
=============================================================================
