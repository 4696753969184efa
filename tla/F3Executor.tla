------------------------------ MODULE F3Executor -----------------------------
(***************************************************************************)
(* SharedOperationExecutor (f3/executor.py) over the execution repository  *)
(* (f3/persistence.py) and the durable lock store.  A run is one call of   *)
(* execute: it takes a fresh owner id, so a run is its own lock owner.     *)
(* Runs of one task may overlap, stall, die at any point and be followed   *)
(* by others.  Every repository or lock-store transaction is one step; a   *)
(* run's pc is the transaction, or the adapter call, it makes next.        *)
(*                                                                         *)
(* An owner id is never used by two claims, so the pair (owner_id,         *)
(* claim_generation) that fences a claim is represented by the owner.      *)
(***************************************************************************)
EXTENDS DurableLockStore

CONSTANTS
  NoOwner,              \* the owner of a record that does not exist yet
  Requests,             \* the lock requests of each task's prepared operation
  HoldKeys,             \* the keys a promotion retains for the task, of those
                        \* it requests
  ClaimTicks,           \* ExecutorTiming.claim_lease_seconds
  EvidenceTicks,        \* ExecutorTiming.post_dispatch_evidence_seconds
  MaxAttempts,          \* max_observation_attempts, max_verification_attempts
  AttemptLimit,         \* the 32 attempts an execution record can count
  FinalReadAtDeadline,  \* the typed fan and power executors
  Verdicts,             \* what the adapter's verify may answer
  CrashAt,              \* the steps before which a run may die
  PromptAt,             \* the steps of a run that no timer overtakes
  PromptRenewal,        \* whether the lease renewer is never overtaken either
  LastAcquisition,      \* bound: generations left to acquisitions, the rest up
                        \* to MaxGeneration being for recovery transfers
  MaxCrashes, MaxFaults \* bounds: run deaths and storage faults

PreDispatch == {"failed_pre_dispatch", "cancelled_pre_dispatch"}
PostIntent == {"dispatch_failed_confirmed", "succeeded_verified",
               "verification_mismatch", "manual_review_required"}
Outcome == PreDispatch \union PostIntent
             \union {"none", "dispatch_indeterminate", "observing"}

\* failed_pre_dispatch stands for the four refusals, verification_mismatch
\* also for failed_post_dispatch: they differ in wording only.
ExecutionRecord ==
  [owner : Owner \union {NoOwner}, claim : 0..ClaimTicks,
   outcome : Outcome, terminal : BOOLEAN, tokens : SUBSET LockToken,
   preflight : BOOLEAN, intent : BOOLEAN, deadline : 0..EvidenceTicks,
   resulted : BOOLEAN, observations : 0..AttemptLimit,
   verifications : 0..AttemptLimit]

Steps ==
  {"done", "stale", "acquire", "conflict", "recordLocks", "failLocks",
   "cleanup", "preflight", "recordPreflight", "noop", "reject",
   "preflightFailed", "authority", "refused", "dispatch", "approve", "commit",
   "send", "confirmed", "sent", "failed",
   "observe", "observing", "observeFailed", "verify", "verifyFailed",
   "hold", "review", "promote", "renew", "yield", "recover", "replace",
   "settle", "release"}

\* part : whether the run is inside the dispatch try block, in its handler,
\*        or recovering; the lease renewer lives in the first two.
\* catch : which handler an error of _manual_review, renew, yield or of the
\*         release after a rejected preflight reaches.
Run == [pc : Steps, part : {"none", "dispatching", "rescuing", "recovering"},
        catch : {"none", "preflightFailed", "observeFailed", "verifyFailed"},
        tokens : SUBSET LockToken, approved : BOOLEAN]

ASSUME ExecutorAssumption ==
  /\ NoOwner \notin Owner
  /\ Requests \in [Task -> (SUBSET LockRequest) \ {{}}]
  /\ HoldKeys \in [Task -> (SUBSET Key) \ {{}}]
  /\ \A t \in Task : HoldKeys[t] \subseteq {q.key : q \in Requests[t]}
  /\ Verdicts \subseteq (PostIntent \ {"dispatch_failed_confirmed"}) \union {"observing"}
  /\ ClaimTicks \in Nat \ {0} /\ EvidenceTicks \in Nat
  /\ MaxAttempts \in Nat \ {0} /\ AttemptLimit \in Nat /\ MaxAttempts <= AttemptLimit
  /\ FinalReadAtDeadline \in BOOLEAN /\ PromptRenewal \in BOOLEAN
  /\ CrashAt \subseteq Steps /\ PromptAt \subseteq Steps
  /\ LastAcquisition \in Nat /\ MaxCrashes \in Nat /\ MaxFaults \in Nat

VARIABLES
  exec,      \* the execution record of each task
  run,       \* the local state of each run
  sends,     \* how often the adapter called the provider for each task
  crashes, faults

execVars == <<exec, run, sends, crashes, faults>>
vars == <<records, nextGeneration, exec, run, sends, crashes, faults>>

(* Execution records and their terminal forms.                             *)

NoRecord ==
  [owner |-> NoOwner, claim |-> 0, outcome |-> "none", terminal |-> FALSE,
   tokens |-> {}, preflight |-> FALSE, intent |-> FALSE, deadline |-> 0,
   resulted |-> FALSE, observations |-> 0, verifications |-> 0]
Ended(x, outcome) == [x EXCEPT !.outcome = outcome, !.terminal = TRUE]
NotRunning == [pc |-> "done", part |-> "none", catch |-> "none",
               tokens |-> {}, approved |-> FALSE]

-----------------------------------------------------------------------------
(* Reading the state.                                                      *)

Rec(r) == exec[TaskOf[r]]
At(r, step) == run[r].pc = step
To(r, step) == IF step = "done" THEN NotRunning ELSE [run[r] EXCEPT !.pc = step]
Into(r, step, handler) == [run[r] EXCEPT !.pc = step, !.catch = handler]
Handle(r) == [owner |-> r, tokens |-> run[r].tokens]
HasClaim(r) == Rec(r).owner = r
Owns(r) == OwnsAll(r, run[r].tokens)
\* validate_handle
Live(r) ==
  Owns(r) /\ \A x \in Selected(run[r].tokens) : ~x.hold /\ x.lease > 0
\* Mutant of Rejectable: a terminal record may be rejected as well.
RejectableAnyway(x) == ~x.intent
\* What record.validate() lets terminalize_pre_dispatch write.
Rejectable(x) == ~x.intent /\ (x.terminal => x.outcome = "failed_pre_dispatch")
Expired(x) == x.intent /\ x.deadline = 0
Exhausted(x, attempts) == attempts >= MaxAttempts \/ Expired(x)

\* An owner id no record and no live run knows: the next uuid4.
Fresh(r) == At(r, "done") /\ HeldBy(r) = {} /\ Rec(r).owner # r

\* An error leaves _observe_and_verify: the dispatch handler of _execute_locked
\* takes it once, otherwise execute raises.
Escape(r) ==
  IF run[r].part = "dispatching" THEN Into(r, "failed", "none") ELSE NotRunning
Caught(r) ==
  IF run[r].catch = "none" THEN Escape(r) ELSE Into(r, run[r].catch, "none")

\* One step of run r that goes on as `next' and leaves all else as it was.
Continue(r, next) ==
  /\ run' = [run EXCEPT ![r] = next]
  /\ UNCHANGED <<records, nextGeneration, exec, sends, crashes, faults>>

\* mutate_claimed: a repository write fenced by the claim and by the record's
\* validate().  A storage fault raises before the file is replaced, or after.
Save(r, valid, x, ok, err) ==
  LET permitted == HasClaim(r) /\ valid
  IN /\ \/ /\ permitted
           /\ exec' = [exec EXCEPT ![TaskOf[r]] = x]
           /\ run' = [run EXCEPT ![r] = ok]
           /\ UNCHANGED faults
        \/ /\ ~permitted
           /\ run' = [run EXCEPT ![r] = err]
           /\ UNCHANGED <<exec, faults>>
        \/ /\ faults < MaxFaults
           /\ faults' = faults + 1
           /\ run' = [run EXCEPT ![r] = err]
           /\ UNCHANGED exec \/ (permitted /\ exec' = [exec EXCEPT ![TaskOf[r]] = x])
     /\ UNCHANGED <<records, nextGeneration, sends, crashes>>

\* A lock-store call: its operation and its refusal, or a storage fault.
Call(r, operation, refused, ok, err) ==
  /\ \/ operation /\ run' = [run EXCEPT ![r] = ok] /\ UNCHANGED faults
     \/ refused /\ UNCHANGED storeVars /\ run' = [run EXCEPT ![r] = err] /\ UNCHANGED faults
     \/ /\ faults < MaxFaults /\ faults' = faults + 1
        /\ operation \/ UNCHANGED storeVars
        /\ run' = [run EXCEPT ![r] = err]
  /\ UNCHANGED <<exec, sends, crashes>>

-----------------------------------------------------------------------------
(* execute: the claim and what it finds.                                   *)

Exists(x) == x.owner # NoOwner

Create(r) ==
  /\ Fresh(r) /\ ~Exists(Rec(r))
  /\ exec' = [exec EXCEPT ![TaskOf[r]] =
                [NoRecord EXCEPT !.owner = r, !.claim = ClaimTicks]]
  /\ run' = [run EXCEPT ![r] = To(r, "acquire")]
  /\ UNCHANGED <<records, nextGeneration, sends, crashes, faults>>

\* A terminal record only has its locks settled.
JoinTerminal(r) == Fresh(r) /\ Rec(r).terminal /\ Continue(r, To(r, "settle"))

\* Mutant of TakeOver: the new claim starts the record afresh.
TakeOverAfresh(r) ==
  /\ Fresh(r) /\ Exists(Rec(r)) /\ ~Rec(r).terminal /\ Rec(r).claim = 0
  /\ exec' = [exec EXCEPT ![TaskOf[r]] =
                [NoRecord EXCEPT !.owner = r, !.claim = ClaimTicks]]
  /\ run' = [run EXCEPT ![r] = To(r, "stale")]
  /\ UNCHANGED <<records, nextGeneration, sends, crashes, faults>>

\* An expired claim passes on: to observation only once an intent is durable,
\* to a new attempt before that.  A live claim refuses (duplicate execution).
TakeOver(r) ==
  /\ Fresh(r) /\ Exists(Rec(r)) /\ ~Rec(r).terminal /\ Rec(r).claim = 0
  /\ exec' = [exec EXCEPT ![TaskOf[r]].owner = r, ![TaskOf[r]].claim = ClaimTicks,
                          ![TaskOf[r]].outcome = IF Rec(r).intent THEN @ ELSE "none"]
  /\ run' = [run EXCEPT ![r] =
               IF Rec(r).intent
                 THEN [NotRunning EXCEPT !.pc = "recover", !.part = "recovering",
                                         !.tokens = Rec(r).tokens]
                 ELSE To(r, "stale")]
  /\ UNCHANGED <<records, nextGeneration, sends, crashes, faults>>

Execute(r) == Create(r) \/ JoinTerminal(r) \/ TakeOver(r)

-----------------------------------------------------------------------------
(* Before the intent.                                                      *)

\* The expired records of an earlier run of the task are released.  The code reads
\* them first and releases them in a second transaction, with no await between;
\* that one looks for each (key, generation) again, and refuses all of them if
\* another process settled or renewed one meanwhile.  The two are one step here.
ReleaseStale(r) ==
  LET mine == {x \in records : TaskOf[x.owner] = TaskOf[r] /\ ~x.hold /\ x.lease = 0}
  IN /\ At(r, "stale")
     /\ Call(r, RecoverExpired(mine, {}, {}, r), FALSE,
             To(r, "acquire"), To(r, "failLocks"))

Blocked(r) ==
  LET wanted == NormalizeLockRequests(Requests[TaskOf[r]])
  IN \E k \in DOMAIN wanted : \E holder \in RecordsOn(k) : HolderBlocks(holder, wanted[k])

AcquireLocks(r) ==
  /\ At(r, "acquire")
  /\ IF Rec(r).outcome = "cancelled_pre_dispatch"
       THEN Continue(r, NotRunning)
       ELSE \/ Blocked(r) /\ Continue(r, To(r, "conflict"))
            \/ nextGeneration <= LastAcquisition /\
               Call(r, AcquireOnce(r, Requests[TaskOf[r]]), FALSE,
                    [run[r] EXCEPT !.pc = "recordLocks",
                                   !.tokens = {TokenOf(x) : x \in HeldBy(r)'}],
                    To(r, "failLocks"))

Conflict(r) ==
  /\ At(r, "conflict")
  /\ Save(r, Rejectable(Rec(r)), Ended(Rec(r), "failed_pre_dispatch"),
          NotRunning, NotRunning)

RecordLocks(r) ==
  /\ At(r, "recordLocks")
  /\ Save(r, ~Rec(r).terminal /\ ~Rec(r).intent,
          [Rec(r) EXCEPT !.tokens = run[r].tokens],
          To(r, "preflight"), To(r, "failLocks"))

\* fail_lock_acquisition: cleanup follows a failed write, but not a lost claim.
\* The code does both under one flock; the split only lets a death come between.
FailLocks(r) ==
  LET authority == HasClaim(r) /\ ~Rec(r).terminal /\ ~Rec(r).intent
      next == IF authority /\ run[r].tokens # {} THEN To(r, "cleanup") ELSE NotRunning
  IN /\ At(r, "failLocks")
     /\ Save(r, authority, Ended(Rec(r), "failed_pre_dispatch"), next, next)

Cleanup(r) ==
  /\ At(r, "cleanup")
  /\ Call(r, Release(Handle(r), TRUE),
          ~Owns(r) \/ \E x \in Selected(run[r].tokens) : x.hold,
          NotRunning, NotRunning)

\* The adapter's preflight: eligible, already in the target state, ineligible,
\* or an exception.
Preflight(r) ==
  /\ At(r, "preflight")
  /\ \E step \in {"recordPreflight", "noop", "reject", "preflightFailed"} :
       Continue(r, To(r, step))

RecordPreflight(r) ==
  /\ At(r, "recordPreflight")
  /\ Save(r, Rec(r).tokens # {} /\ ~Rec(r).intent, [Rec(r) EXCEPT !.preflight = TRUE],
          To(r, "authority"), To(r, "preflightFailed"))

Noop(r) ==
  /\ At(r, "noop")
  /\ Save(r, ~Rec(r).intent /\ ~Rec(r).terminal /\ Rec(r).tokens # {},
          [Ended(Rec(r), "succeeded_verified") EXCEPT !.preflight = TRUE],
          To(r, "release"), To(r, "preflightFailed"))

Reject(r) ==
  /\ At(r, "reject")
  /\ Save(r, Rejectable(Rec(r)), Ended(Rec(r), "failed_pre_dispatch"),
          Into(r, "release", "preflightFailed"), To(r, "preflightFailed"))

PreflightFailed(r) ==
  /\ At(r, "preflightFailed")
  /\ IF Rec(r).terminal
       THEN Continue(r, To(r, "release"))
       ELSE Save(r, Rejectable(Rec(r)), Ended(Rec(r), "failed_pre_dispatch"),
                 To(r, "release"), NotRunning)

Authority(r) ==
  /\ At(r, "authority")
  /\ \/ Continue(r, [To(r, "dispatch") EXCEPT !.part = "dispatching"])
     \/ Continue(r, To(r, "refused"))

\* A refused authority terminalizes outside any handler.
Refused(r) ==
  /\ At(r, "refused")
  /\ Save(r, Rejectable(Rec(r)), Ended(Rec(r), "failed_pre_dispatch"),
          To(r, "release"), NotRunning)

-----------------------------------------------------------------------------
(* The irreversible boundary: before_dispatch, then the provider.          *)

\* The adapter's last check before the callback refuses: recorded inside the
\* try block, so that an error goes to its handler.
RefuseDispatch(r) ==
  /\ ~Rec(r).terminal /\ ~Rec(r).intent
  /\ Save(r, TRUE, Ended(Rec(r), "failed_pre_dispatch"), To(r, "release"), To(r, "failed"))

\* Mutant of Dispatch: before_dispatch does not validate the lock handle.
DispatchUnchecked(r) ==
  /\ At(r, "dispatch")
  /\ \/ RefuseDispatch(r)
     \/ Continue(r, To(r, "failed"))
     \/ ~Rec(r).terminal /\ Continue(r, To(r, "approve"))

\* The adapter refuses or fails before the callback, or the callback finds the
\* record terminal or its locks gone; otherwise the approval is consumed next.
Dispatch(r) ==
  /\ At(r, "dispatch")
  /\ \/ RefuseDispatch(r)
     \/ Continue(r, To(r, "failed"))
     \/ ~Rec(r).terminal /\ Live(r) /\ Continue(r, To(r, "approve"))

Approve(r) ==
  /\ At(r, "approve")
  /\ \E step \in {"commit", "failed"} :
       Continue(r, [To(r, step) EXCEPT !.approved = TRUE])

Commit(r) ==
  /\ At(r, "commit")
  /\ Save(r, /\ ~Rec(r).terminal /\ ~Rec(r).intent
             /\ Rec(r).preflight /\ Rec(r).tokens # {},
          [Rec(r) EXCEPT !.intent = TRUE, !.deadline = EvidenceTicks],
          To(r, "send"), To(r, "failed"))

\* The callback fails after the intent and the adapter stops (it may declare
\* that nothing was sent), or the provider is called: it answers, refuses, or
\* the call raises.
Send(r) ==
  /\ At(r, "send")
  /\ \/ /\ \E step \in {"confirmed", "failed"} : run' = [run EXCEPT ![r] = To(r, step)]
        /\ UNCHANGED sends
     \/ /\ \E step \in {"sent", "confirmed", "failed"} :
             run' = [run EXCEPT ![r] = To(r, step)]
        /\ sends' = [sends EXCEPT ![TaskOf[r]] = @ + 1]
  /\ UNCHANGED <<records, nextGeneration, exec, crashes, faults>>

DispatchResult(x, outcome) == [x EXCEPT !.outcome = outcome, !.resulted = TRUE]

Confirmed(r) ==
  /\ At(r, "confirmed")
  /\ Save(r, Rec(r).intent /\ ~Rec(r).resulted,
          Ended(DispatchResult(Rec(r), "none"), "dispatch_failed_confirmed"),
          To(r, "release"), To(r, "failed"))

Sent(r) ==
  /\ At(r, "sent")
  /\ \E outcome \in {"observing", "dispatch_indeterminate"} :
       Save(r, Rec(r).intent /\ ~Rec(r).resulted, DispatchResult(Rec(r), outcome),
            To(r, "observe"), To(r, "failed"))

\* The handler of the dispatch block rereads the record and goes by what is
\* durable, not by how far this run believes it came.
Failed(r) ==
  LET x == Rec(r)
      rescue == [To(r, "observe") EXCEPT !.part = "rescuing"]
  IN /\ At(r, "failed")
     /\ CASE x.terminal /\ ~x.intent -> Continue(r, To(r, "release"))
          [] x.terminal /\ x.intent -> Continue(r, rescue)
          [] ~x.terminal /\ x.intent ->
               Save(r, ~x.resulted, DispatchResult(x, "dispatch_indeterminate"),
                    rescue, NotRunning)
          [] ~x.terminal /\ ~x.intent /\ ~run[r].approved ->
               Save(r, TRUE, Ended(x, "failed_pre_dispatch"), To(r, "release"), NotRunning)
          [] OTHER ->
               Save(r, x.preflight /\ x.tokens # {}, [x EXCEPT !.claim = 0],
                    To(r, "release"), NotRunning)

-----------------------------------------------------------------------------
(* _observe_and_verify: readback after the intent.                         *)

Observe(r) ==
  /\ At(r, "observe")
  /\ Continue(r, IF ~Live(r) \/ (~FinalReadAtDeadline /\ Expired(Rec(r)))
                   THEN Into(r, "review", "none")
                   ELSE Into(r, "observing", "none"))

\* What record_observation leaves; a nonterminal mismatch is an observation
\* like any other.
Observed(x, outcome) == [x EXCEPT !.outcome = outcome, !.observations = @ + 1]
Observable(x) == x.intent /\ ~x.terminal /\ x.observations < AttemptLimit

\* The adapter observes (or recovers): complete, asking for review, incomplete,
\* or an exception.
Observing(r) ==
  LET x == Rec(r)
      observed == Observed(x, "observing")
      err == Into(r, "observeFailed", "none")
      incomplete == Into(r, IF Exhausted(observed, observed.observations)
                              THEN "review" ELSE "renew", "observeFailed")
  IN /\ At(r, "observing")
     /\ \/ Save(r, Observable(x), observed, Into(r, "verify", "none"), err)
        \/ Save(r, Observable(x), Observed(x, "manual_review_required"),
                Into(r, "review", "observeFailed"), err)
        \/ Save(r, Observable(x), observed, incomplete, err)
        \/ Continue(r, err)

ObserveFailed(r) ==
  /\ At(r, "observeFailed")
  /\ IF Exhausted(Rec(r), Rec(r).observations)
       THEN Continue(r, Into(r, "review", "none"))
       ELSE Save(r, Observable(Rec(r)), Observed(Rec(r), "observing"),
                 Into(r, "renew", "none"), Escape(r))

\* What record_verification leaves.  It asks for the intent only: a terminal
\* record is verified again, and an answer "observing" makes it nonterminal.
Verified(x, outcome) ==
  [x EXCEPT !.outcome = outcome, !.terminal = outcome # "observing",
            !.verifications = @ + 1]
\* (Mutant of Verifiable: attempts are not counted against their limit.)
VerifiableForever(x) == x.intent
Verifiable(x) == x.intent /\ x.verifications < AttemptLimit

\* Mutant of AfterVerdict: a review verdict releases like any other.
ReleaseAfterVerdict(r, outcome) ==
  IF outcome = "observing"
    THEN Into(r, IF FinalReadAtDeadline /\ Expired(Rec(r)) THEN "review" ELSE "renew",
              "verifyFailed")
    ELSE Into(r, "release", "none")

\* Mutant of AfterVerdict: the evidence deadline is not asked after a verdict.
WaitAfterVerdict(r, outcome) ==
  CASE outcome = "manual_review_required" -> Into(r, "hold", "verifyFailed")
    [] outcome = "observing" -> Into(r, "renew", "verifyFailed")
    [] OTHER -> Into(r, "release", "none")

AfterVerdict(r, outcome) ==
  CASE outcome = "manual_review_required" -> Into(r, "hold", "verifyFailed")
    [] outcome = "observing" ->
         Into(r, IF FinalReadAtDeadline /\ Expired(Rec(r)) THEN "review" ELSE "renew",
              "verifyFailed")
    [] OTHER -> Into(r, "release", "none")

Verify(r) ==
  LET err == Into(r, "verifyFailed", "none")
  IN /\ At(r, "verify")
     /\ \/ \E outcome \in Verdicts :
             Save(r, Verifiable(Rec(r)), Verified(Rec(r), outcome),
                  AfterVerdict(r, outcome), err)
        \/ Continue(r, err)

VerifyFailed(r) ==
  /\ At(r, "verifyFailed")
  /\ IF Exhausted(Rec(r), Rec(r).verifications)
       THEN Continue(r, Into(r, "review", "none"))
       ELSE Save(r, Verifiable(Rec(r)), Verified(Rec(r), "observing"),
                 Into(r, "renew", "none"), Escape(r))

\* promote_to_conflict_hold with the keys the declaration retains.
Promote(r) == PromoteConflictHold(Handle(r), HoldKeys[TaskOf[r]])

\* The promotion of a verdict lies inside the verification try block.
Hold(r) ==
  /\ At(r, "hold")
  /\ Call(r, Promote(r), ~Owns(r), NotRunning, Into(r, "verifyFailed", "none"))

\* Mutant of Review: the locks are released instead of held.
ReviewAndRelease(r) ==
  /\ At(r, "review")
  /\ Save(r, Verifiable(Rec(r)), Verified(Rec(r), "manual_review_required"),
          To(r, "release"), Caught(r))

\* _manual_review: the outcome, then the hold; a refused hold is swallowed.
Review(r) ==
  /\ At(r, "review")
  /\ Save(r, Verifiable(Rec(r)), Verified(Rec(r), "manual_review_required"),
          To(r, "promote"), Caught(r))

HoldAfterReview(r) ==
  /\ At(r, "promote")
  /\ Call(r, Promote(r), ~Owns(r), NotRunning, NotRunning)

\* _renewal_failure_result: the locks outlive the claim that is yielded next.
RenewLocks(r) ==
  /\ At(r, "renew")
  /\ Call(r, Renew(Handle(r)), ~Live(r), To(r, "yield"), To(r, "review"))

YieldClaim(r) ==
  /\ At(r, "yield")
  /\ Save(r, ~Rec(r).terminal, [Rec(r) EXCEPT !.claim = 0], NotRunning, Caught(r))

-----------------------------------------------------------------------------
(* _recover_claimed: the locks of a lost run pass to the one that took over. *)

\* The tokens are those of the record as it was claimed.  The transfer is one
\* transaction of the lock store; recording its tokens is another, later one.
\* The reads before the transfer are one step with it, as in ReleaseStale.
RecoverHandle(r) ==
  LET tokens == run[r].tokens
      mine == Selected(tokens)
      wait == To(r, "yield")
  IN /\ At(r, "recover")
     /\ IF \/ tokens = {} \/ \E t \in tokens : Matches(t) = {}
           \/ \E x \in mine : x.hold
           \/ \A x \in mine : x.lease > 0
          THEN Continue(r, wait)
          ELSE Call(r, RecoverExpired({}, {}, mine, r), \E x \in mine : x.lease > 0,
                    [run[r] EXCEPT !.pc = "replace",
                                   !.tokens = {TokenOf(x) : x \in HeldBy(r)'}],
                    NotRunning)

ReplaceLocks(r) ==
  /\ At(r, "replace")
  /\ Save(r, Rec(r).intent, [Rec(r) EXCEPT !.tokens = run[r].tokens],
          To(r, "observe"), NotRunning)

-----------------------------------------------------------------------------
(* Release and settlement.                                                 *)

\* _release_safely: a refusal leaves the records for a later settlement.  Only
\* the release after a rejected preflight is tried again, by its handler.
ReleaseLocks(r) ==
  /\ At(r, "release")
  /\ Call(r, Release(Handle(r), FALSE), ~Owns(r), NotRunning,
          IF run[r].catch = "preflightFailed"
            THEN Into(r, "preflightFailed", "none") ELSE NotRunning)

\* Mutant of Settle: a lease that has run out is left for somebody else.
SettleLiveOnly(r) ==
  LET x == Rec(r)
      mine == Selected(x.tokens)
      owners == {m.owner : m \in mine}
      settles == /\ x.terminal /\ x.tokens # {}
                 /\ x.outcome # "manual_review_required"
                 /\ \A t \in x.tokens : \E m \in Matches(t) : ~m.hold /\ m.lease > 0
                 /\ Cardinality(owners) = 1
  IN /\ At(r, "settle")
     /\ IF settles
          THEN \E o \in owners :
                 Call(r, Release([owner |-> o, tokens |-> x.tokens], FALSE), FALSE,
                      NotRunning, NotRunning)
          ELSE Continue(r, NotRunning)

\* _settle_terminal_locks: releases what the terminal record names, if every
\* token still matches one unheld record of one owner.
Settle(r) ==
  LET x == Rec(r)
      mine == Selected(x.tokens)
      owners == {m.owner : m \in mine}
      settles == /\ x.terminal /\ x.tokens # {}
                 /\ x.outcome # "manual_review_required"
                 /\ \A t \in x.tokens : \E m \in Matches(t) : ~m.hold
                 /\ Cardinality(owners) = 1
  IN /\ At(r, "settle")
     /\ IF settles
          THEN \E o \in owners :
                 Call(r, Release([owner |-> o, tokens |-> x.tokens], FALSE), FALSE,
                      NotRunning, NotRunning)
          ELSE Continue(r, NotRunning)

\* _LeaseRenewer keeps the lease alive while the dispatch block lasts.
Renewing(r) == run[r].part \in {"dispatching", "rescuing"}
Renewer(r) ==
  /\ Renewing(r)
  /\ Renew(Handle(r))
  /\ UNCHANGED execVars

-----------------------------------------------------------------------------
(* Other callers, failures and time.                                       *)

\* cancel: only work without an intent, then a settlement.
Cancel(r) ==
  /\ At(r, "done") /\ Exists(Rec(r)) /\ ~Rec(r).intent /\ ~Rec(r).terminal
  /\ exec' = [exec EXCEPT ![TaskOf[r]] = Ended(@, "cancelled_pre_dispatch")]
  /\ run' = [run EXCEPT ![r] = To(r, "settle")]
  /\ UNCHANGED <<records, nextGeneration, sends, crashes, faults>>

\* terminalize_expired_claim_pre_dispatch: a live owner is never overtaken.
RejectExpired(t) ==
  /\ Exists(exec[t]) /\ exec[t].claim = 0 /\ ~exec[t].intent /\ ~exec[t].terminal
  /\ exec' = [exec EXCEPT ![t] = Ended(@, "failed_pre_dispatch")]
  /\ UNCHANGED <<records, nextGeneration, run, sends, crashes, faults>>

\* materialize_expired_pre_dispatch: declared work nobody claimed in time.
Materialize(r) ==
  /\ Fresh(r) /\ ~Exists(Rec(r))
  /\ exec' = [exec EXCEPT ![TaskOf[r]] =
                Ended([NoRecord EXCEPT !.owner = r], "failed_pre_dispatch")]
  /\ UNCHANGED <<records, nextGeneration, run, sends, crashes, faults>>

\* A run dies between two of its transactions.
Crash(r) ==
  /\ run[r].pc \in CrashAt /\ crashes < MaxCrashes
  /\ crashes' = crashes + 1
  /\ run' = [run EXCEPT ![r] = NotRunning]
  /\ UNCHANGED <<records, nextGeneration, exec, sends, faults>>

Decreased(n) == IF n > 0 THEN n - 1 ELSE 0
Tick ==
  /\ \A r \in Owner : run[r].pc \notin PromptAt
  /\ PromptRenewal => \A r \in Owner : Renewing(r) /\ Live(r) =>
                        \A x \in Selected(run[r].tokens) : x.lease > 1
  /\ \/ \E x \in records : x.lease > 0
     \/ \E t \in Task : exec[t].claim > 0 \/ exec[t].deadline > 0
  /\ PassLeases
  /\ exec' = [t \in Task |-> [exec[t] EXCEPT !.claim = Decreased(@),
                                             !.deadline = Decreased(@)]]
  /\ UNCHANGED <<run, sends, crashes, faults>>

-----------------------------------------------------------------------------
Init ==
  /\ StoreInit
  /\ exec = [t \in Task |-> NoRecord]
  /\ run = [r \in Owner |-> NotRunning]
  /\ sends = [t \in Task |-> 0]
  /\ crashes = 0 /\ faults = 0

BeforeIntent(r) ==
  \/ ReleaseStale(r) \/ AcquireLocks(r) \/ Conflict(r) \/ RecordLocks(r)
  \/ FailLocks(r) \/ Cleanup(r) \/ Preflight(r) \/ RecordPreflight(r)
  \/ Noop(r) \/ Reject(r) \/ PreflightFailed(r) \/ Authority(r) \/ Refused(r)
AtBoundary(r) ==
  \/ Dispatch(r) \/ Approve(r) \/ Commit(r) \/ Send(r)
  \/ Confirmed(r) \/ Sent(r) \/ Failed(r)
AfterIntent(r) ==
  \/ Observe(r) \/ Observing(r) \/ ObserveFailed(r) \/ Verify(r) \/ VerifyFailed(r)
  \/ Hold(r) \/ Review(r) \/ HoldAfterReview(r) \/ RenewLocks(r) \/ YieldClaim(r)
  \/ RecoverHandle(r) \/ ReplaceLocks(r) \/ ReleaseLocks(r) \/ Settle(r)
RunStep(r) == BeforeIntent(r) \/ AtBoundary(r) \/ AfterIntent(r)

Next ==
  \/ \E r \in Owner : Execute(r) \/ RunStep(r) \/ Renewer(r)
                        \/ Cancel(r) \/ Materialize(r) \/ Crash(r)
  \/ \E t \in Task : RejectExpired(t)
  \/ Tick

Spec == Init /\ [][Next]_vars

\* A process that is not dead takes its next step; the recovery sweep executes,
\* again and again, the dispatched tasks that have not ended, and no others: a
\* terminal task is executed only when a caller asks for it again.  Time goes on.
Sweep(t) == exec[t].intent /\ \E r \in Owner : TaskOf[r] = t /\ TakeOver(r)
Fairness ==
  /\ \A r \in Owner : WF_vars(RunStep(r))
  /\ \A t \in Task : WF_vars(Sweep(t))
  /\ SF_vars(Tick)
FairSpec == Spec /\ Fairness

-----------------------------------------------------------------------------
(* Properties.                                                             *)

\* Execution records, runs and counters are well formed; what the store holds
\* is a set of lock records.
TypeOK ==
  /\ records \subseteq LockRecord
  /\ nextGeneration \in Nat \ {0}
  /\ exec \in [Task -> ExecutionRecord]
  /\ run \in [Owner -> Run]
  /\ sends \in [Task -> Nat]
  /\ crashes \in 0..MaxCrashes /\ faults \in 0..MaxFaults

\* No blind redispatch: whatever runs overlap, die, stall or fail to write, the
\* provider is called at most once per task, and only with a durable intent.
AtMostOneSend ==
  \A t \in Task : sends[t] <= 1 /\ (sends[t] = 1 => exec[t].intent)

Unresolved(x) == x.intent /\ (~x.terminal \/ x.outcome = "manual_review_required")

\* "Deadline or process loss never authorizes silent lock release" (ADR-013):
\* while a task's effect is unresolved every key it must keep has a record of
\* that task, whatever crashed, expired or was transferred.
UnresolvedKeepsLocks ==
  \A t \in Task : Unresolved(exec[t]) =>
    \A k \in HoldKeys[t] : \E x \in RecordsOn(k) : TaskOf[x.owner] = t

\* So a key never stands under the unresolved effects of two tasks.
OneEffectPerKey ==
  \A t, u \in Task :
    t # u /\ Unresolved(exec[t]) /\ Unresolved(exec[u])
      => HoldKeys[t] \intersect HoldKeys[u] = {}

\* A terminal outcome is never replaced by another, and never reopened.
TerminalIsFinal ==
  [][\A t \in Task : exec[t].terminal =>
       exec'[t].terminal /\ exec'[t].outcome = exec[t].outcome]_vars

\* The provider is called under live locks of the calling run, although they
\* were last checked before the approval was consumed and the intent written.
SendUnderLock == \A r \in Owner : At(r, "send") => Live(r)

\* After a durable intent the task ends: verified, mismatched or under review,
\* however often its readback answers "observing" or fails and however many
\* recoveries wait for a lease first.  The evidence deadline decides at last.
EveryDispatchResolves ==
  \A t \in Task : exec[t].intent ~> exec[t].terminal

Lockless(t) == \A x \in records : TaskOf[x.owner] # t
Duplicate(t) == \E r \in Owner : TaskOf[r] = t /\ JoinTerminal(r)

\* "Release failures leave durable records for a later terminal duplicate to
\* settle" (F3_ADAPTER_LOCK_CORE:114).  The sweep does not visit a task that has
\* ended, so this is a promise to callers: where they ask for the task again
\* and again, a resolved dispatch gives its locks back, although the run that
\* resolved it, or one that came to settle, died and the leases have run out.
DuplicateReleases ==
  \A t \in Task :
    []<><<Duplicate(t)>>_vars =>
      ((exec[t].intent /\ exec[t].terminal /\ exec[t].outcome # "manual_review_required")
         ~> Lockless(t))

\* "A pre-dispatch terminal outcome releases every lock" (ADR-013:244).  A task
\* cancelled between the acquisition and the recording of its tokens keeps them.
PreDispatchReleases ==
  \A t \in Task : (exec[t].terminal /\ ~exec[t].intent) ~> Lockless(t)

\* "After verified result: terminal result survives" (F3_ADAPTER_LOCK_CORE:220).
\* A failed fsync after the write makes the handler verify the task again.
VerifiedSurvives ==
  [][\A t \in Task : exec[t].terminal /\ exec[t].outcome = "succeeded_verified" =>
       exec'[t].terminal /\ exec'[t].outcome = "succeeded_verified"]_vars
=============================================================================
